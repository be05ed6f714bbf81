---------------------------- MODULE ClientsProofs ----------------------------
(***************************************************************************)
(* Proofs about Clients, for any peers, any bounds and any number of       *)
(* lines on a chat screen.                                                 *)
(***************************************************************************)
EXTENDS Clients, SequenceTheorems, TLAPS

(* What is drawn is a screen, and what is to be seen on it are messages. *)
LEMMA PrintAllType ==
    ASSUME TypeOK, NEW note \in Notices \cup {None}
    PROVE  PrintAll(note) \in Screens
BY DEF TypeOK, QueuesOK, SessionsOK, PrintAll, Screens, States, Inputs

(* The end of a log is a log. *)
LEMMA LastMessagesType ==
    ASSUME NEW log \in Seq(Entries)
    PROVE  LastMessages(log) \in Seq(Entries)
BY ClientsAssumption DEF LastMessages

(* The screen of a chat is a screen. *)
LEMMA RenderChatType ==
    ASSUME TypeOK, NEW note \in Notices \cup {None}, NEW q \in Peers, NEW line \in Inputs,
           NEW log \in Seq(Entries)
    PROVE  /\ RenderChat(q, line, note, log) \in Screens
           /\ RenderChat(q, line, note, log).chat = q
           /\ RenderChat(q, line, note, log).kind = "Chat"
           /\ RenderChat(q, line, note, log).input = line
           /\ RenderChat(q, line, note, log).banner = note
           /\ RenderChat(q, line, note, log).log = LastMessages(log)
           /\ RenderChat(q, line, note, log).sessions = sessions_m
           /\ RenderChat(q, line, note, log).stale = "no"
<1>1. LastMessages(log) \in Seq(Entries)
  BY LastMessagesType
<1> QED
  BY ONLY <1>1, TypeOK, note \in Notices \cup {None}, q \in Peers, line \in Inputs,
     Zenon
  DEF TypeOK, SessionsOK, RenderChat, PrintAll, Screens, States

(* So is the prompt. *)
LEMMA RenderFileOfferType ==
    ASSUME TypeOK
    PROVE  /\ RenderFileOffer \in Screens
           /\ RenderFileOffer.kind = "FileOffer"
           /\ RenderFileOffer.log = <<>>
           /\ RenderFileOffer.sessions = <<>>
<1> DEFINE p == PrintAll(None)
<1>1. p \in Screens
  BY PrintAllType
<1>2. RenderFileOffer = [p EXCEPT !.kind = "FileOffer", !.sessions = <<>>]
  BY DEF RenderFileOffer
<1>3. p.log = <<>>
  BY DEF PrintAll
<1> HIDE DEF p
<1>4. <<>> \in Seq(Peers) /\ "FileOffer" \in States
  BY DEF States
<1>5. [p EXCEPT !.kind = "FileOffer", !.sessions = <<>>] \in Screens
  BY ONLY <1>1, <1>4, Zenon DEF Screens
<1> QED
  BY <1>1, <1>2, <1>3, <1>5 DEF Screens

(* Drawing a screen of a chat, or one without a log, shows messages. *)
LEMMA DrawType ==
    ASSUME TypeOK, NEW s \in Screens, s.chat \in Peers \/ s.log = <<>>, Draw(s)
    PROVE  screen' \in Screens /\ shown' \subseteq Notices
<1>1. \A m \in {e \in Range(s.log) : e.by = "peer"} : Notice(s.chat, m) \in Notices
  BY DEF Screens, Range, Notice, Notices
<1>2. Visible(s) \subseteq Notices
  BY <1>1 DEF Visible, Screens
<1> QED
  BY <1>2 DEF Draw, TypeOK, ScreenOK

-----------------------------------------------------------------------------
(* The prompt of an offer leads back to a chat only if there is one. *)
WayBack ==
    \/ uiState = "Chat"
    \/ uiState = "FileOffer" /\ priorUiState = "Chat"
    => activeChatService # None

Typed == TypeOK /\ WayBack

(* What is inserted comes between what was before it and what was after. *)
LEMMA Inserted ==
    ASSUME NEW s \in Seq(Peers), NEW q \in Peers, NEW i \in 1..Len(s) + 1
    PROVE  /\ InsertAt(s, i, q) \in Seq(Peers)
           /\ Len(InsertAt(s, i, q)) = Len(s) + 1
           /\ \A k \in 1..Len(s) + 1 :
                InsertAt(s, i, q)[k] = IF k < i THEN s[k] ELSE IF k = i THEN q ELSE s[k - 1]
<1> DEFINE a == SubSeq(s, 1, i - 1)
           b == SubSeq(s, i, Len(s))
           c == a \o <<q>>
<1>1. a \in Seq(Peers) /\ Len(a) = i - 1 /\ \A k \in 1..i - 1 : a[k] = s[k]
  OBVIOUS
<1>2. /\ b \in Seq(Peers)
      /\ Len(b) = Len(s) - i + 1
      /\ \A k \in 1..Len(s) - i + 1 : b[k] = s[i + k - 1]
  OBVIOUS
<1>3. InsertAt(s, i, q) = c \o b
  BY DEF InsertAt
<1> HIDE DEF a, b
<1>4. /\ c \in Seq(Peers)
      /\ Len(c) = i
      /\ \A k \in 1..i : c[k] = IF k < i THEN s[k] ELSE q
  BY <1>1
<1> HIDE DEF c
<1>5. /\ c \o b \in Seq(Peers)
      /\ Len(c \o b) = Len(c) + Len(b)
      /\ \A k \in 1..Len(c) + Len(b) :
           (c \o b)[k] = IF k <= Len(c) THEN c[k] ELSE b[k - Len(c)]
  BY <1>2, <1>4, ConcatProperties, Zenon
<1>6. \A k \in 1..Len(s) + 1 : k > i => b[k - i] = s[k - 1]
  BY <1>2
<1>7. Len(c) = i /\ Len(c) + Len(b) = Len(s) + 1
  BY <1>2, <1>4
<1>8. ASSUME NEW k \in 1..Len(s) + 1
      PROVE  (c \o b)[k] = IF k < i THEN s[k] ELSE IF k = i THEN q ELSE s[k - 1]
  <2>1. CASE k <= i
    BY <1>4, <1>5, <1>7, <2>1
  <2>2. CASE k > i
    BY <1>5, <1>6, <1>7, <2>2
  <2>3. k <= i \/ k > i
    BY Len(s) \in Nat
  <2> QED
    BY ONLY <2>1, <2>2, <2>3, Zenon
<1> QED
  BY <1>3, <1>5, <1>7, <1>8

(* What is removed leaves the rest in order. *)
LEMMA Removed ==
    ASSUME NEW s \in Seq(Peers), NEW i \in DOMAIN s
    PROVE  /\ RemoveAt(s, i) \in Seq(Peers)
           /\ Len(RemoveAt(s, i)) = Len(s) - 1
           /\ \A k \in 1..Len(s) - 1 :
                RemoveAt(s, i)[k] = IF k < i THEN s[k] ELSE s[k + 1]
<1> DEFINE a == SubSeq(s, 1, i - 1)
           b == SubSeq(s, i + 1, Len(s))
<1>1. a \in Seq(Peers) /\ Len(a) = i - 1 /\ \A k \in 1..i - 1 : a[k] = s[k]
  OBVIOUS
<1>2. /\ b \in Seq(Peers)
      /\ Len(b) = Len(s) - i
      /\ \A k \in 1..Len(s) - i : b[k] = s[i + k]
  OBVIOUS
<1>3. RemoveAt(s, i) = a \o b
  BY DEF RemoveAt
<1> HIDE DEF a, b
<1>4. \A k \in 1..Len(s) - 1 : (a \o b)[k] = IF k < i THEN a[k] ELSE b[k - (i - 1)]
  BY <1>1, <1>2, SMTT(60)
<1>5. \A k \in 1..Len(s) - 1 : ~(k < i) => b[k - (i - 1)] = s[k + 1]
  BY <1>2
<1> QED
  BY <1>1, <1>2, <1>3, <1>4, <1>5

(* Sessions stay distinct when one is listed and when one is removed. *)
LEMMA ListSessionType ==
    ASSUME TypeOK, NEW q \in Peers, NEW i \in 1..Len(sessions_m) + 1, ListSession(q, i)
    PROVE  /\ sessions_m' \in Seq(Peers)
           /\ \A j, k \in DOMAIN sessions_m' : sessions_m'[j] = sessions_m'[k] => j = k
           /\ Len(sessions_m') = Len(sessions_m) + 1
           /\ \A k \in 1..Len(sessions_m) + 1 :
                sessions_m'[k] = IF k < i THEN sessions_m[k]
                                 ELSE IF k = i THEN q ELSE sessions_m[k - 1]
<1>1. /\ sessions_m \in Seq(Peers)
      /\ \A j, k \in DOMAIN sessions_m : sessions_m[j] = sessions_m[k] => j = k
      /\ \A j \in DOMAIN sessions_m : sessions_m[j] # q
      /\ sessions_m' = InsertAt(sessions_m, i, q)
  BY DEF TypeOK, SessionsOK, ListSession, Range
<1>2. /\ sessions_m' \in Seq(Peers)
      /\ Len(sessions_m') = Len(sessions_m) + 1
      /\ \A k \in 1..Len(sessions_m) + 1 :
           sessions_m'[k] = IF k < i THEN sessions_m[k]
                            ELSE IF k = i THEN q ELSE sessions_m[k - 1]
  BY <1>1, Inserted
<1>3. DOMAIN sessions_m' = 1..Len(sessions_m) + 1 /\ DOMAIN sessions_m = 1..Len(sessions_m)
  BY ONLY <1>1, <1>2
<1>4. Len(sessions_m) \in Nat
  BY ONLY <1>1
<1>5. ASSUME NEW j \in 1..Len(sessions_m) + 1, NEW k \in 1..Len(sessions_m) + 1,
             sessions_m'[j] = sessions_m'[k], j < k
      PROVE  FALSE
  <2>1. CASE j < i /\ k < i
    <3>1. j \in DOMAIN sessions_m /\ k \in DOMAIN sessions_m /\ j # k
      BY ONLY <1>3, <1>4, <1>5, <2>1, i \in 1..Len(sessions_m) + 1
    <3>2. sessions_m'[j] = sessions_m[j] /\ sessions_m'[k] = sessions_m[k]
      BY ONLY <1>2, <1>5, <2>1, Zenon
    <3> QED
      BY ONLY <1>1, <1>5, <3>1, <3>2, Zenon
  <2>2. CASE j < i /\ k = i
    <3>1. j \in DOMAIN sessions_m /\ ~(k < i)
      BY ONLY <1>3, <1>4, <1>5, <2>2, i \in 1..Len(sessions_m) + 1
    <3>2. sessions_m'[j] = sessions_m[j] /\ sessions_m'[k] = q
      BY ONLY <1>2, <1>5, <2>2, <3>1, Zenon
    <3> QED
      BY ONLY <1>1, <1>5, <3>1, <3>2, Zenon
  <2>3. CASE j < i /\ k > i
    <3>1. j \in DOMAIN sessions_m /\ k - 1 \in DOMAIN sessions_m /\ j # k - 1
          /\ ~(k < i) /\ k # i
      BY ONLY <1>3, <1>4, <1>5, <2>3, i \in 1..Len(sessions_m) + 1
    <3>2. sessions_m'[j] = sessions_m[j] /\ sessions_m'[k] = sessions_m[k - 1]
      BY ONLY <1>2, <1>5, <2>3, <3>1, Zenon
    <3> QED
      BY ONLY <1>1, <1>5, <3>1, <3>2, Zenon
  <2>4. CASE j = i /\ k > i
    <3>1. k - 1 \in DOMAIN sessions_m /\ ~(j < i) /\ ~(k < i) /\ k # i
      BY ONLY <1>3, <1>4, <1>5, <2>4, i \in 1..Len(sessions_m) + 1
    <3>2. sessions_m'[j] = q /\ sessions_m'[k] = sessions_m[k - 1]
      BY ONLY <1>2, <1>5, <2>4, <3>1, Zenon
    <3> QED
      BY ONLY <1>1, <1>5, <3>1, <3>2, Zenon
  <2>5. CASE j > i /\ k > i
    <3>1. j - 1 \in DOMAIN sessions_m /\ k - 1 \in DOMAIN sessions_m /\ j - 1 # k - 1
      BY ONLY <1>3, <1>4, <1>5, <2>5, i \in 1..Len(sessions_m) + 1
    <3>2. sessions_m'[j] = sessions_m[j - 1] /\ sessions_m'[k] = sessions_m[k - 1]
      BY ONLY <1>2, <1>4, <1>5, <2>5, i \in 1..Len(sessions_m) + 1
    <3> QED
      BY ONLY <1>1, <1>5, <3>1, <3>2, Zenon
  <2> QED
    BY ONLY <1>4, <1>5, <2>1, <2>2, <2>3, <2>4, <2>5, i \in 1..Len(sessions_m) + 1
<1> QED
  BY ONLY <1>2, <1>3, <1>4, <1>5

(* RemoveSession leaves the names of sessions, each once. *)
LEMMA RemoveSessionType ==
    ASSUME TypeOK, NEW q \in Peers, RemoveSession(q)
    PROVE  /\ sessions_m' \in Seq(Peers)
           /\ \A j, k \in DOMAIN sessions_m' : sessions_m'[j] = sessions_m'[k] => j = k
<1>1. /\ sessions_m \in Seq(Peers)
      /\ \A j, k \in DOMAIN sessions_m : sessions_m[j] = sessions_m[k] => j = k
  BY DEF TypeOK, SessionsOK
<1>2. CASE q \notin Range(sessions_m)
  BY <1>1, <1>2 DEF RemoveSession
<1>3. CASE q \in Range(sessions_m)
  <2>1. PICK i \in DOMAIN sessions_m : sessions_m' = RemoveAt(sessions_m, i)
    BY <1>3, Zenon DEF RemoveSession, Range
  <2>2. /\ sessions_m' \in Seq(Peers)
        /\ Len(sessions_m') = Len(sessions_m) - 1
        /\ \A k \in 1..Len(sessions_m) - 1 :
             sessions_m'[k] = IF k < i THEN sessions_m[k] ELSE sessions_m[k + 1]
    BY <1>1, <2>1, Removed
  <2>3. /\ DOMAIN sessions_m' = 1..Len(sessions_m) - 1
        /\ DOMAIN sessions_m = 1..Len(sessions_m)
        /\ Len(sessions_m) \in Nat /\ i \in 1..Len(sessions_m)
    BY ONLY <1>1, <2>1, <2>2
  <2>4. ASSUME NEW j \in 1..Len(sessions_m) - 1, NEW k \in 1..Len(sessions_m) - 1,
               sessions_m'[j] = sessions_m'[k], j < k
        PROVE  FALSE
    <3>1. CASE k < i
      <4>1. j \in DOMAIN sessions_m /\ k \in DOMAIN sessions_m /\ j # k /\ j < i
        BY ONLY <2>3, <2>4, <3>1
      <4>2. sessions_m'[j] = sessions_m[j] /\ sessions_m'[k] = sessions_m[k]
        BY ONLY <2>2, <2>4, <3>1, <4>1, Zenon
      <4> QED
        BY ONLY <1>1, <2>4, <4>1, <4>2, Zenon
    <3>2. CASE j < i /\ k >= i
      <4>1. j \in DOMAIN sessions_m /\ k + 1 \in DOMAIN sessions_m /\ j # k + 1
        BY ONLY <2>3, <2>4
      <4>2. sessions_m'[j] = sessions_m[j] /\ sessions_m'[k] = sessions_m[k + 1]
        BY ONLY <2>2, <2>3, <2>4, <3>2
      <4> QED
        BY ONLY <1>1, <2>4, <4>1, <4>2, Zenon
    <3>3. CASE j >= i
      <4>1. j + 1 \in DOMAIN sessions_m /\ k + 1 \in DOMAIN sessions_m /\ j + 1 # k + 1
        BY ONLY <2>3, <2>4
      <4>2. sessions_m'[j] = sessions_m[j + 1] /\ sessions_m'[k] = sessions_m[k + 1]
        BY ONLY <2>2, <2>3, <2>4, <3>3
      <4> QED
        BY ONLY <1>1, <2>4, <4>1, <4>2, Zenon
    <3> QED
      BY ONLY <2>3, <2>4, <3>1, <3>2, <3>3
  <2> QED
    BY ONLY <2>2, <2>3, <2>4
<1> QED
  BY <1>2, <1>3

(* What is taken from a queue has its type, and so has the rest. *)
LEMMA Taken ==
    ASSUME NEW S, NEW s \in Seq(S), s # <<>>
    PROVE  Head(s) \in S /\ Tail(s) \in Seq(S)
OBVIOUS

(* What the other threads are told is an event. *)
LEMMA EventType ==
    ASSUME NEW e \in {"print", "printing", "PEERS", "MESSAGES", "PROGRESS", "SELECT"},
           NEW q \in Peers \cup {None}
    PROVE  Event(e, q) \in Events
BY DEF Event, Events

(* So is what the observer is told. *)
LEMMA TellsType ==
    ASSUME NEW e \in {"PEERS", "MESSAGES"}
    PROVE  /\ Tells(e) \in Seq(Events \cup Mails)
           /\ Prints \o Tells(e) \in Seq(Events \cup Mails)
<1>1. Event(e, None) \in Events /\ Event("print", None) \in Events
  BY EventType
<1>2. Tells(e) \in Seq(Events \cup Mails)
  <2>1. CASE client = "gui"
    BY <1>1, <2>1 DEF Tells
  <2>2. CASE client # "gui"
    BY <2>2 DEF Tells
  <2> QED
    BY <2>1, <2>2
<1>3. Prints \in Seq(Events \cup Mails)
  <2>1. CASE client = "console"
    BY <1>1, <2>1 DEF Prints
  <2>2. CASE client # "console"
    BY <2>2 DEF Prints
  <2> QED
    BY <2>1, <2>2
<1> QED
  BY <1>2, <1>3, ConcatProperties

(* A log that an entry is added to is a log. *)
LEMMA AddMessageType ==
    ASSUME TypeOK, NEW q \in Peers, NEW e \in Entries, AddMessage(q, e)
    PROVE  chatLogsM' \in [Peers -> Seq(Entries)]
BY DEF TypeOK, LogsOK, AddMessage
-----------------------------------------------------------------------------
(* The mailbox thread keeps the types. *)
LEMMA HandlesType ==
    ASSUME TypeOK, NEW event, Handles(event)
    PROVE  /\ Head(inMailBox) \in Mails
           /\ Head(inMailBox).peer \in Peers
           /\ Head(inMailBox).n \in Nat
           /\ inMailBox' \in Seq(Mails)
<1>1. Head(inMailBox) \in Mails /\ inMailBox' \in Seq(Mails)
  BY Taken DEF TypeOK, QueuesOK, Handles
<1> QED
  BY <1>1 DEF Mails

(* HandlePublishedServices keeps the types. *)
LEMMA HandlePublishedServicesTyped ==
    ASSUME Typed, HandlePublishedServices
    PROVE  Typed'
<1>1. inMailBox' \in Seq(Mails) /\ Head(inMailBox).peer \in Peers
  BY HandlesType DEF Typed, HandlePublishedServices
<1>2. todo' \in Seq(Events \cup Mails)
  BY TellsType DEF HandlePublishedServices
<1> QED
  BY <1>1, <1>2, ZenonT(60)
  DEF Typed, TypeOK, WayBack, ProcessOK, QueuesOK, SessionsOK, LogsOK, KeysOK,
      ScreenOK, WindowOK,
      HandlePublishedServices, fixed, past, logs, console, keys, gui, view

(* HandleResolvedServices keeps the types. *)
LEMMA HandleResolvedServicesTyped ==
    ASSUME Typed, HandleResolvedServices
    PROVE  Typed'
<1>1. inMailBox' \in Seq(Mails)
  BY HandlesType DEF Typed, HandleResolvedServices
<1>2. todo' \in Seq(Events \cup Mails)
  BY TellsType DEF HandleResolvedServices
<1> QED
  BY <1>1, <1>2, ZenonT(60)
  DEF Typed, TypeOK, WayBack, ProcessOK, QueuesOK, SessionsOK, LogsOK, KeysOK,
      ScreenOK, WindowOK,
      HandleResolvedServices, fixed, past, lists, logs, console, keys, gui, view

(* HandleServiceDeregistration keeps the types. *)
LEMMA HandleServiceDeregistrationTyped ==
    ASSUME Typed, HandleServiceDeregistration
    PROVE  Typed'
<1>1. inMailBox' \in Seq(Mails) /\ Head(inMailBox).peer \in Peers
  BY HandlesType DEF Typed, HandleServiceDeregistration
<1>2. todo' \in Seq(Events \cup Mails)
  BY TellsType DEF HandleServiceDeregistration
<1>3. /\ serviceV' \subseteq Peers /\ sessions_m' \in Seq(Peers)
      /\ \A j, k \in DOMAIN sessions_m' : sessions_m'[j] = sessions_m'[k] => j = k
  BY <1>1, RemoveSessionType
  DEF Typed, TypeOK, SessionsOK, HandleServiceDeregistration, lists
<1> QED
  BY <1>1, <1>2, <1>3, ZenonT(60)
  DEF Typed, TypeOK, WayBack, ProcessOK, QueuesOK, SessionsOK, LogsOK, KeysOK,
      ScreenOK, WindowOK,
      HandleServiceDeregistration, fixed, past, logs, console, keys, gui, view

(* HandleMessageIncoming keeps the types. *)
LEMMA HandleMessageIncomingTyped ==
    ASSUME Typed, HandleMessageIncoming
    PROVE  Typed'
<1>1. /\ inMailBox' \in Seq(Mails) /\ Head(inMailBox) \in Mails
      /\ Head(inMailBox).peer \in Peers /\ Head(inMailBox).n \in Nat
  BY HandlesType DEF Typed, HandleMessageIncoming
<1>2. Entry("peer", "text", Head(inMailBox).n, 0) \in Entries
  BY <1>1 DEF Entry, Entries
<1>3. chatLogsM' \in [Peers -> Seq(Entries)]
  BY <1>1, <1>2, AddMessageType DEF Typed, HandleMessageIncoming
<1>4. Event("MESSAGES", None) \in Events
  BY EventType
<1>5. todo' \in Seq(Events \cup Mails)
  <2>1. CASE client = "console"
    BY <1>1, <2>1 DEF HandleMessageIncoming
  <2>2. CASE client # "console"
    BY <1>4, <2>2 DEF HandleMessageIncoming
  <2> QED
    BY <2>1, <2>2
<1> QED
  BY <1>1, <1>2, <1>3, <1>4, <1>5, ZenonT(60)
  DEF Typed, TypeOK, WayBack, ProcessOK, QueuesOK, SessionsOK, LogsOK, KeysOK,
      ScreenOK, WindowOK,
      HandleMessageIncoming, fixed, past, lists, console, keys, gui, view

(* HandleFileTransferEnd keeps the types. *)
LEMMA HandleFileTransferEndTyped ==
    ASSUME Typed, HandleFileTransferEnd
    PROVE  Typed'
<1>1. /\ inMailBox' \in Seq(Mails) /\ Head(inMailBox) \in Mails
      /\ Head(inMailBox).peer \in Peers /\ Head(inMailBox).n \in Nat
  BY HandlesType DEF Typed, HandleFileTransferEnd
<1>2. Entry("peer", "file", Head(inMailBox).n, 0) \in Entries
  BY <1>1 DEF Entry, Entries
<1>3. chatLogsM' \in [Peers -> Seq(Entries)]
  BY <1>1, <1>2, AddMessageType DEF Typed, HandleFileTransferEnd
<1>4. Event("MESSAGES", None) \in Events
  BY EventType
<1>5. todo' \in Seq(Events \cup Mails)
  BY <1>1, <1>4 DEF HandleFileTransferEnd
<1> QED
  BY <1>1, <1>2, <1>3, <1>4, <1>5, Zenon
  DEF Typed, TypeOK, WayBack, ProcessOK, QueuesOK, SessionsOK, LogsOK, KeysOK,
      ScreenOK, WindowOK,
      HandleFileTransferEnd, fixed, past, lists, console, keys, gui, view

(* HandleFileOffer keeps the types. *)
LEMMA HandleFileOfferTyped ==
    ASSUME Typed, HandleFileOffer
    PROVE  Typed'
<1>1. inMailBox' \in Seq(Mails) /\ Head(inMailBox) \in Mails
  BY HandlesType DEF Typed, HandleFileOffer
<1>2. posted' \in Seq(Mails \cup Jobs)
  BY <1>1 DEF Typed, TypeOK, QueuesOK, HandleFileOffer
<1> QED
  BY <1>1, <1>2, ZenonT(60)
  DEF Typed, TypeOK, WayBack, ProcessOK, QueuesOK, SessionsOK, LogsOK, KeysOK,
      ScreenOK, WindowOK,
      HandleFileOffer, fixed, past, lists, logs, console, keys, gui, view

(* What is left of a handler after its next step. *)
LEMMA ThenType ==
    ASSUME TypeOK, NEW event, Then(event)
    PROVE  Head(todo) \in Events \cup Mails /\ todo' \in Seq(Events \cup Mails)
BY Taken DEF TypeOK, QueuesOK, Then

(* PostMessage keeps the types. *)
LEMMA PostMessageTyped ==
    ASSUME Typed, PostMessage
    PROVE  Typed'
<1>1. Head(todo) \in Events \cup Mails /\ todo' \in Seq(Events \cup Mails)
  BY ThenType DEF Typed, PostMessage
<1>2. Head(todo) \in Mails
  BY <1>1 DEF PostMessage, Then, Events
<1>3. posted' \in Seq(Mails \cup Jobs)
  BY <1>2 DEF Typed, TypeOK, QueuesOK, PostMessage
<1> QED
  BY <1>1, <1>2, <1>3, ZenonT(60)
  DEF Typed, TypeOK, WayBack, ProcessOK, QueuesOK, SessionsOK, LogsOK, KeysOK,
      ScreenOK, WindowOK,
      PostMessage, fixed, past, lists, logs, console, keys, gui, view

(* Notify keeps the types. *)
LEMMA NotifyTyped ==
    ASSUME Typed, Notify
    PROVE  Typed'
<1>1. Head(todo) \in Events \cup Mails /\ todo' \in Seq(Events \cup Mails)
  BY ThenType DEF Typed, Notify
<1>2. Head(todo) \in Events
  BY <1>1 DEF Notify, Then, Mails
<1>3. mainQueue' \in Seq(Events)
  BY <1>2 DEF Typed, TypeOK, QueuesOK, Notify
<1> QED
  BY <1>1, <1>2, <1>3, Zenon
  DEF Typed, TypeOK, WayBack, ProcessOK, QueuesOK, SessionsOK, LogsOK, KeysOK,
      ScreenOK, WindowOK,
      Notify, fixed, past, lists, logs, console, keys, view

(* PrintFromMailbox keeps the types. *)
LEMMA PrintFromMailboxTyped ==
    ASSUME Typed, PrintFromMailbox
    PROVE  Typed'
<1>1. CASE Then("printing") /\ UNCHANGED <<fixed, status, used, past, inMailBox, lists,
             logs, posted, io, console, gui, missed>>
  <2>1. todo' \in Seq(Events \cup Mails)
    BY <1>1, ThenType DEF Typed
  <2> QED
    BY <1>1, <2>1, Zenon
    DEF Typed, TypeOK, WayBack, ProcessOK, QueuesOK, SessionsOK, LogsOK, KeysOK,
      ScreenOK, WindowOK,
        fixed, past, lists, logs, console, keys, gui, view
<1>2. CASE /\ todo # <<>>
           /\ todo' = <<Event("printing", None)>> \o Tail(todo)
           /\ Draw([PrintAll(lastNotification) EXCEPT !.by = "mailbox"])
           /\ UNCHANGED <<fixed, status, used, past, inMailBox, lists, logs, posted, io,
                          keys, lastNotification, gui, missed>>
  <2>1. Tail(todo) \in Seq(Events \cup Mails) /\ Event("printing", None) \in Events
    BY <1>2, Taken, EventType DEF Typed, TypeOK, QueuesOK
  <2>2. todo' \in Seq(Events \cup Mails)
    BY <1>2, <2>1
  <2>3. PrintAll(lastNotification) \in Screens /\ PrintAll(lastNotification).log = <<>>
    <3>1. PrintAll(lastNotification) \in Screens
      BY PrintAllType DEF Typed, TypeOK, ScreenOK
    <3> QED
      BY <3>1 DEF PrintAll
  <2>4. /\ [PrintAll(lastNotification) EXCEPT !.by = "mailbox"] \in Screens
        /\ [PrintAll(lastNotification) EXCEPT !.by = "mailbox"].log = <<>>
    BY <2>3 DEF Screens
  <2>5. screen' \in Screens /\ shown' \subseteq Notices
    BY <1>2, <2>4, DrawType, Zenon DEF Typed
  <2> QED
    BY <1>2, <2>2, <2>5, Zenon
    DEF Typed, TypeOK, WayBack, ProcessOK, QueuesOK, SessionsOK, LogsOK, KeysOK,
      ScreenOK, WindowOK,
        fixed, past, lists, logs, keys, gui, view
<1> QED
  BY <1>1, <1>2 DEF PrintFromMailbox
-----------------------------------------------------------------------------
(* The io thread keeps the types. *)
LEMMA PostedType ==
    ASSUME TypeOK, NEW event, Posted(event)
    PROVE  /\ posted' \in Seq(Mails \cup Jobs)
           /\ event # "SEND" => Head(posted) \in Mails /\ Head(posted).peer \in Peers
                               /\ Head(posted).n \in Nat
           /\ event = "SEND" => Head(posted) \in Jobs
<1>1. Head(posted) \in Mails \cup Jobs /\ posted' \in Seq(Mails \cup Jobs)
  BY Taken DEF TypeOK, QueuesOK, Posted
<1> QED
  BY <1>1 DEF Posted, Mails, Jobs

(* The screen of any state the keys are in is a screen. *)
LEMMA RenderType ==
    ASSUME TypeOK, NEW state, NEW note \in Notices \cup {None}, Render(state, note),
           state = "Chat" => activeChatService' \in Peers /\ inputLine' \in Inputs
    PROVE  screen' \in Screens /\ shown' \subseteq Notices
<1>1. CASE state = "FileOffer"
  <2>1. CASE UNCHANGED <<screen, shown>>
    BY <2>1 DEF TypeOK, ScreenOK
  <2>2. CASE Draw(RenderFileOffer)
    BY <2>2, RenderFileOfferType, DrawType
  <2> QED
    BY <1>1, <2>1, <2>2 DEF Render
<1>2. CASE state = "Chat"
  <2>1. chatLogsM[activeChatService'] \in Seq(Entries)
    BY <1>2 DEF TypeOK, LogsOK, KeysOK
  <2>2. /\ RenderChat(activeChatService', inputLine', note, chatLogsM[activeChatService'])
             \in Screens
        /\ RenderChat(activeChatService', inputLine', note,
                      chatLogsM[activeChatService']).chat = activeChatService'
    BY <1>2, <2>1, RenderChatType
  <2>3. Draw(RenderChat(activeChatService', inputLine', note, chatLogsM[activeChatService']))
    BY <1>2 DEF Render
  <2> QED
    BY <1>2, <2>2, <2>3, DrawType
<1>3. CASE state # "FileOffer" /\ state # "Chat"
  <2>1. PrintAll(note) \in Screens /\ PrintAll(note).log = <<>>
    <3>1. PrintAll(note) \in Screens
      BY PrintAllType
    <3> QED
      BY <3>1 DEF PrintAll
  <2> QED
    BY <1>3, <2>1, DrawType DEF Render
<1> QED
  BY <1>1, <1>2, <1>3

(* ShowMessage keeps the types. *)
LEMMA ShowMessageTyped ==
    ASSUME Typed, ShowMessage
    PROVE  Typed'
<1>1. /\ posted' \in Seq(Mails \cup Jobs)
      /\ Head(posted).peer \in Peers /\ Head(posted).n \in Nat
  BY PostedType DEF Typed, ShowMessage
<1>2. Notice(Head(posted).peer, Entry("peer", "text", Head(posted).n, 0)) \in Notices
  BY <1>1 DEF Notice, Notices, Entry, Entries
<1>3. lastNotification' \in Notices \cup {None} /\ missed' \subseteq Notices
  BY <1>2, Zenon DEF Typed, TypeOK, ScreenOK, ShowMessage
<1>4. /\ uiState = "Chat" => activeChatService' \in Peers /\ inputLine' \in Inputs
      /\ Render(uiState, lastNotification')
  BY DEF Typed, TypeOK, KeysOK, ScreenOK, ShowMessage, keys
<1>5. screen' \in Screens /\ shown' \subseteq Notices
  BY <1>3, <1>4, RenderType DEF Typed
<1> QED
  BY <1>1, <1>2, <1>3, <1>4, <1>5, Zenon
  DEF Typed, TypeOK, WayBack, ProcessOK, QueuesOK, SessionsOK, LogsOK, KeysOK,
      ScreenOK, WindowOK,
      ShowMessage, keys, fixed, past, lists, logs, gui, view

(* ShowOffer keeps the types. *)
LEMMA ShowOfferTyped ==
    ASSUME Typed, ShowOffer
    PROVE  Typed'
<1>1. posted' \in Seq(Mails \cup Jobs) /\ Head(posted) \in Mails
  BY PostedType DEF Typed, ShowOffer
<1>2. screen' \in Screens /\ shown' \subseteq Notices
  BY RenderFileOfferType, DrawType DEF Typed, ShowOffer
<1> QED
  BY <1>1, <1>2, Zenon
  DEF Typed, TypeOK, WayBack, ProcessOK, QueuesOK, SessionsOK, LogsOK, KeysOK,
      ScreenOK, WindowOK,
      ShowOffer, States, fixed, past, lists, logs, gui, view

(* SendText keeps the types. *)
LEMMA SendTextTyped ==
    ASSUME Typed, SendText
    PROVE  Typed'
<1>1. posted' \in Seq(Mails \cup Jobs) /\ Head(posted) \in Jobs
  BY PostedType DEF Typed, SendText
<1>2. io' \in [peer : Peers, entry : Entries] \cup {None}
  BY <1>1 DEF SendText, Jobs
<1> QED
  BY <1>1, <1>2, Zenon
  DEF Typed, TypeOK, WayBack, ProcessOK, QueuesOK, SessionsOK, LogsOK, KeysOK,
      ScreenOK, WindowOK,
      SendText, console, keys, fixed, past, lists, logs, gui, view

(* The chat after a line was sent. *)
LEMMA RenderOpenChat ==
    ASSUME TypeOK, NEW q \in Peers, NEW log \in Seq(Entries)
    PROVE  /\ RenderChat(q, inputLine, lastNotification, log) \in Screens
           /\ RenderChat(q, inputLine, lastNotification, log).chat = q
<1>1. LastMessages(log) \in Seq(Entries)
  BY LastMessagesType
<1> QED
  BY ONLY <1>1, TypeOK, q \in Peers, Zenon
  DEF TypeOK, SessionsOK, KeysOK, ScreenOK, RenderChat, PrintAll, Screens, States

(* What follows a text or a file: a screen, or events for the window. *)
LEMMA AfterSendingType ==
    ASSUME Typed, NEW q \in Peers, NEW events \in Seq(Events), AfterSending(q, events),
           chatLogsM' \in [Peers -> Seq(Entries)]
    PROVE  /\ screen' \in Screens /\ shown' \subseteq Notices
           /\ mainQueue' \in Seq(Events)
<1>1. CASE client = "console"
  <2> DEFINE s == RenderChat(q, inputLine, lastNotification, chatLogsM'[q])
  <2>1. s \in Screens /\ s.chat = q
    <3>1. PICK log \in Seq(Entries) : log = chatLogsM'[q]
      OBVIOUS
    <3> QED
      BY <3>1, RenderOpenChat DEF Typed
  <2>2. Draw(s) /\ UNCHANGED mainQueue
    BY <1>1 DEF AfterSending
  <2> QED
    BY <2>1, <2>2, DrawType, Zenon DEF Typed, TypeOK, QueuesOK
<1>2. CASE client # "console"
  <2>1. mainQueue' = mainQueue \o events /\ UNCHANGED <<screen, shown>>
    BY <1>2 DEF AfterSending
  <2> QED
    BY <2>1, ConcatProperties DEF Typed, TypeOK, QueuesOK, ScreenOK
<1> QED
  BY <1>1, <1>2

(* The events that a text or a file is followed by. *)
LEMMA EventsType ==
    /\ <<>> \in Seq(Events)
    /\ <<Event("MESSAGES", None)>> \in Seq(Events)
    /\ <<Event("MESSAGES", None), Event("PROGRESS", None)>> \in Seq(Events)
<1>1. Event("MESSAGES", None) \in Events /\ Event("PROGRESS", None) \in Events
  BY EventType
<1> QED
  BY <1>1

(* SendDataToNode keeps the types. *)
LEMMA SendDataToNodeTyped ==
    ASSUME Typed, SendDataToNode
    PROVE  Typed'
<1>1. io.peer \in Peers /\ io.entry \in Entries
  BY DEF Typed, TypeOK, LogsOK, SendDataToNode
<1>2. ConstructChatMessageFromInput(io.entry) \in Entries
  BY <1>1, ClientsAssumption DEF ConstructChatMessageFromInput, Entries
<1>3. chatLogsM' \in [Peers -> Seq(Entries)]
  BY <1>1, AddMessageType DEF Typed, TypeOK, LogsOK, SendDataToNode, logs
<1>4. sent' \in [Peers -> Seq(Entries)]
  <2>1. sent \in [Peers -> Seq(Entries)]
    BY DEF Typed, TypeOK, LogsOK
  <2>2. \/ sent' = [sent EXCEPT ![io.peer] = Append(@, ConstructChatMessageFromInput(io.entry))]
        \/ sent' = sent
    BY DEF SendDataToNode, logs
  <2>3. PICK e \in Entries : e = ConstructChatMessageFromInput(io.entry)
    BY <1>2
  <2>4. sent[io.peer] \in Seq(Entries) /\ Append(sent[io.peer], e) \in Seq(Entries)
    BY <1>1, <2>1
  <2>5. sent' = [sent EXCEPT ![io.peer] = Append(sent[io.peer], e)] \/ sent' = sent
    BY <2>2, <2>3
  <2> QED
    BY ONLY <2>1, <2>4, <2>5, Zenon
<1>5. \/ AfterSending(io.peer, <<Event("MESSAGES", None)>>)
      \/ AfterSending(io.peer, <<>>)
  BY DEF SendDataToNode
<1>6. /\ screen' \in Screens /\ shown' \subseteq Notices
      /\ mainQueue' \in Seq(Events)
  BY <1>1, <1>3, <1>5, EventsType, AfterSendingType, Zenon
<1> QED
  BY <1>3, <1>4, <1>6, Zenon
  DEF Typed, TypeOK, WayBack, ProcessOK, QueuesOK, SessionsOK, LogsOK, KeysOK,
      ScreenOK, WindowOK,
      SendDataToNode, fixed, past, lists, keys, view

(* InitiateFileTransferWithSession keeps the types. *)
LEMMA InitiateFileTransferWithSessionTyped ==
    ASSUME Typed, InitiateFileTransferWithSession
    PROVE  Typed'
<1>1. io.peer \in Peers /\ io.entry \in Entries
  BY DEF Typed, TypeOK, LogsOK, InitiateFileTransferWithSession
<1>2. chatLogsM' \in [Peers -> Seq(Entries)]
  BY <1>1, AddMessageType DEF Typed, TypeOK, LogsOK, InitiateFileTransferWithSession
<1>3. \/ AfterSending(io.peer, <<Event("MESSAGES", None), Event("PROGRESS", None)>>)
      \/ UNCHANGED <<screen, shown, mainQueue>>
  BY Zenon DEF InitiateFileTransferWithSession
<1>4. /\ screen' \in Screens /\ shown' \subseteq Notices
      /\ mainQueue' \in Seq(Events)
  <2>1. CASE UNCHANGED <<screen, shown, mainQueue>>
    BY <2>1 DEF Typed, TypeOK, QueuesOK, ScreenOK
  <2>2. CASE AfterSending(io.peer, <<Event("MESSAGES", None), Event("PROGRESS", None)>>)
    BY <1>1, <1>2, <2>2, EventsType, AfterSendingType, Zenon
  <2> QED
    BY <1>3, <2>1, <2>2
<1>5. io' \in [peer : Peers, entry : Entries] \cup {None} /\ status' \in {"running", "quit", "aborted"}
  BY DEF Typed, TypeOK, ProcessOK, LogsOK, InitiateFileTransferWithSession
<1> QED
  BY <1>2, <1>4, <1>5, Zenon
  DEF Typed, TypeOK, WayBack, ProcessOK, QueuesOK, SessionsOK, LogsOK, KeysOK,
      ScreenOK, WindowOK,
      InitiateFileTransferWithSession, fixed, past, lists, keys, view
-----------------------------------------------------------------------------
(* The keys keep the types. *)
LEMMA QuitTyped ==
    ASSUME Typed, Quit
    PROVE  Typed'
BY Zenon
DEF Typed, TypeOK, WayBack, ProcessOK, QueuesOK, SessionsOK, LogsOK, KeysOK, ScreenOK,
    WindowOK,
    Quit, fixed, past, lists, logs, console, keys, gui, view

(* Redraw keeps the types. *)
LEMMA RedrawTyped ==
    ASSUME Typed, Redraw
    PROVE  Typed'
<1>1. /\ Render(uiState, lastNotification)
      /\ uiState = "Chat" => activeChatService' \in Peers /\ inputLine' \in Inputs
      /\ lastNotification \in Notices \cup {None}
  BY DEF Typed, TypeOK, KeysOK, ScreenOK, Redraw, keys
<1>2. screen' \in Screens /\ shown' \subseteq Notices
  BY <1>1, RenderType DEF Typed
<1> QED
  BY <1>1, <1>2, ZenonT(60)
  DEF Typed, TypeOK, WayBack, ProcessOK, QueuesOK, SessionsOK, LogsOK, KeysOK,
      ScreenOK, WindowOK,
      Redraw, keys, fixed, past, lists, logs, gui, view

(* A line that can be typed, or none, is an input. *)
LEMMA InputsType ==
    None \in Inputs /\ Lines \subseteq Inputs
BY ClientsAssumption DEF Inputs, Lines

(* EnterChat keeps the types. *)
LEMMA EnterChatTyped ==
    ASSUME Typed, NEW n, EnterChat(n)
    PROVE  Typed'
<1>1. activeChatService' \in Peers /\ inputLine' \in Inputs
  BY InputsType DEF Typed, TypeOK, SessionsOK, EnterChat
<1>2. activeChatService' # None
  BY <1>1, ClientsAssumption
<1>3. screen' \in Screens /\ shown' \subseteq Notices
  BY <1>1, RenderType DEF Typed, EnterChat
<1> QED
  BY <1>1, <1>2, <1>3, Zenon
  DEF Typed, TypeOK, WayBack, ProcessOK, QueuesOK, SessionsOK, LogsOK, KeysOK,
      ScreenOK, WindowOK,
      EnterChat, States, fixed, past, lists, logs, gui, view

(* Type keeps the types. *)
LEMMA TypeTyped ==
    ASSUME Typed, NEW line \in Lines \cup {None}, Type(line)
    PROVE  Typed'
<1>1. line \in Inputs
  BY InputsType
<1>2. screen' \in Screens
  BY <1>1 DEF Typed, TypeOK, ScreenOK, Type, Screens
<1> QED
  BY <1>1, <1>2, ZenonT(60)
  DEF Typed, TypeOK, WayBack, ProcessOK, QueuesOK, SessionsOK, LogsOK, KeysOK,
      ScreenOK, WindowOK,
      Type, fixed, past, lists, logs, gui, view

(* LeaveChat keeps the types. *)
LEMMA LeaveChatTyped ==
    ASSUME Typed, LeaveChat
    PROVE  Typed'
<1>1. None \in Inputs
  BY InputsType
<1>2. screen' \in Screens /\ shown' \subseteq Notices
  BY RenderType DEF Typed, TypeOK, ScreenOK, LeaveChat
<1> QED
  BY <1>1, <1>2, Zenon
  DEF Typed, TypeOK, WayBack, ProcessOK, QueuesOK, SessionsOK, LogsOK, KeysOK,
      ScreenOK, WindowOK,
      LeaveChat, States, fixed, past, lists, logs, gui, view

(* RedrawChat keeps the types. *)
LEMMA RedrawChatTyped ==
    ASSUME Typed, RedrawChat
    PROVE  Typed'
<1>1. activeChatService' \in Peers /\ inputLine' \in Inputs
  BY InputsType DEF Typed, TypeOK, KeysOK, RedrawChat, Key
<1>2. lastNotification \in Notices \cup {None} /\ Render("Chat", lastNotification)
  BY DEF Typed, TypeOK, ScreenOK, RedrawChat
<1>3. screen' \in Screens /\ shown' \subseteq Notices
  BY <1>1, <1>2, RenderType DEF Typed
<1> QED
  BY <1>1, <1>2, <1>3, Zenon
  DEF Typed, TypeOK, WayBack, ProcessOK, QueuesOK, SessionsOK, LogsOK, KeysOK,
      ScreenOK, WindowOK,
      RedrawChat, fixed, past, lists, logs, gui, view

(* Using up one of a kind leaves counters. *)
LEMMA UseType ==
    ASSUME TypeOK, NEW k \in Kinds, Use(k)
    PROVE  used' \in [Kinds -> Nat]
BY DEF TypeOK, ProcessOK, Use

(* The entry for the line that is sent. *)
LEMMA SendChatLineEntry ==
    ASSUME Typed, SendChatLine
    PROVE  /\ used' \in [Kinds -> Nat] /\ activeChatService \in Peers
           /\ Entry("me", inputLine.kind, used'.texts, inputLine.len) \in Entries
<1>1. used' \in [Kinds -> Nat] /\ used'.texts \in Nat
  BY UseType, Zenon DEF Typed, SendChatLine, Kinds
<1>2. Entry("me", inputLine.kind, used'.texts, inputLine.len) \in Entries
  BY <1>1, Zenon DEF Typed, TypeOK, ProcessOK, KeysOK, SendChatLine, Line, Inputs,
     Entry, Entries
<1> QED
  BY <1>1, <1>2, Zenon DEF Typed, TypeOK, KeysOK, SendChatLine, Key

(* SendChatLine keeps the types. *)
LEMMA SendChatLineTyped ==
    ASSUME Typed, SendChatLine
    PROVE  Typed'
<1>1. /\ used' \in [Kinds -> Nat] /\ activeChatService \in Peers
      /\ Entry("me", inputLine.kind, used'.texts, inputLine.len) \in Entries
  BY SendChatLineEntry
<1>2. activeChatService' \in Peers /\ inputLine' \in Inputs
  BY <1>1, InputsType DEF SendChatLine
<1>3. io' \in [peer : Peers, entry : Entries] \cup {None}
  BY <1>1 DEF Typed, TypeOK, LogsOK, SendChatLine
<1>4. lastNotification \in Notices \cup {None}
  BY DEF Typed, TypeOK, ScreenOK
<1>5. UNCHANGED <<screen, shown>> \/ Render("Chat", lastNotification)
  BY DEF SendChatLine
<1>6. screen' \in Screens /\ shown' \subseteq Notices
  BY <1>2, <1>4, <1>5, RenderType DEF Typed, TypeOK, ScreenOK
<1> QED
  BY <1>1, <1>2, <1>3, <1>6, Zenon
  DEF Typed, TypeOK, WayBack, ProcessOK, QueuesOK, SessionsOK, LogsOK, KeysOK,
      ScreenOK, WindowOK,
      SendChatLine, fixed, past, lists, logs, gui, view

(* HandleFileOfferKey keeps the types. *)
LEMMA HandleFileOfferKeyTyped ==
    ASSUME Typed, HandleFileOfferKey
    PROVE  Typed'
<1>1. /\ Render(uiState', lastNotification)
      /\ uiState' = "Chat" => activeChatService' \in Peers /\ inputLine' \in Inputs
      /\ lastNotification \in Notices \cup {None}
  BY DEF Typed, TypeOK, WayBack, KeysOK, ScreenOK, HandleFileOfferKey, Key
<1>2. screen' \in Screens /\ shown' \subseteq Notices
  BY <1>1, RenderType DEF Typed
<1> QED
  BY <1>1, <1>2, Zenon
  DEF Typed, TypeOK, WayBack, ProcessOK, QueuesOK, SessionsOK, LogsOK, KeysOK,
      ScreenOK, WindowOK,
      HandleFileOfferKey, Key, fixed, past, lists, logs, gui, view
-----------------------------------------------------------------------------
(* The main thread and its user keep the types. *)
LEMMA MessagesForType ==
    ASSUME TypeOK, NEW q \in Peers \cup {None}
    PROVE  MessagesFor(q) \in Seq(Entries)
<1>1. CASE q = None
  BY <1>1 DEF MessagesFor
<1>2. CASE q # None
  BY <1>2 DEF TypeOK, LogsOK, MessagesFor
<1> QED
  BY <1>1, <1>2

(* RefreshPeers keeps the types of the window. *)
LEMMA RefreshPeersType ==
    ASSUME TypeOK, RefreshPeers
    PROVE  /\ peers' \in Seq(Peers)
           /\ selectedPeer' \in Peers \cup {None}
           /\ messages' \in Seq(Entries)
<1>1. <<>> \in Seq(Entries)
  OBVIOUS
<1> QED
  BY <1>1, Zenon DEF TypeOK, SessionsOK, WindowOK, RefreshPeers

(* So does RefreshMessages. *)
LEMMA RefreshMessagesType ==
    ASSUME TypeOK, RefreshMessages
    PROVE  /\ peers' \in Seq(Peers)
           /\ selectedPeer' \in Peers \cup {None}
           /\ messages' \in Seq(Entries)
<1>1. PICK q \in Peers \cup {None} : q = selectedPeer
  BY DEF TypeOK, WindowOK
<1> QED
  BY <1>1, MessagesForType DEF TypeOK, WindowOK, RefreshMessages

(* Dispatched keeps the types. *)
LEMMA DispatchedTyped ==
    ASSUME Typed, Dispatched
    PROVE  Typed'
<1>1. Head(mainQueue) \in Events /\ mainQueue' \in Seq(Events)
  BY Taken DEF Typed, TypeOK, QueuesOK, Dispatched
<1>2. PICK q \in Peers \cup {None} : q = Head(mainQueue).peer
  BY <1>1 DEF Events
<1>3. RefreshPeers \/ RefreshMessages \/ Select(q)
  BY <1>2 DEF Dispatched
<1>4. MessagesFor(q) \in Seq(Entries)
  BY MessagesForType DEF Typed
<1>5. Select(q) => /\ peers' \in Seq(Peers)
           /\ selectedPeer' \in Peers \cup {None}
           /\ messages' \in Seq(Entries)
  BY <1>4 DEF Typed, TypeOK, WindowOK, Select
<1>6. /\ peers' \in Seq(Peers)
      /\ selectedPeer' \in Peers \cup {None}
      /\ messages' \in Seq(Entries)
  BY <1>3, <1>5, RefreshPeersType, RefreshMessagesType DEF Typed
<1> QED
  BY <1>1, <1>2, <1>3, <1>4, <1>5, <1>6, Zenon
  DEF Typed, TypeOK, WayBack, ProcessOK, QueuesOK, SessionsOK, LogsOK, KeysOK,
      ScreenOK, WindowOK,
      Dispatched, fixed, past, lists, logs, console, keys

(* ProgressTimer keeps the types. *)
LEMMA ProgressTimerTyped ==
    ASSUME Typed, ProgressTimer
    PROVE  Typed'
<1>1. /\ peers' \in Seq(Peers)
      /\ selectedPeer' \in Peers \cup {None}
      /\ messages' \in Seq(Entries)
  BY RefreshPeersType DEF Typed, ProgressTimer
<1> QED
  BY <1>1, Zenon
  DEF Typed, TypeOK, WayBack, ProcessOK, QueuesOK, SessionsOK, LogsOK, KeysOK,
      ScreenOK, WindowOK,
      ProgressTimer, fixed, past, lists, logs, console, keys

(* Click keeps the types. *)
LEMMA ClickTyped ==
    ASSUME Typed, NEW q \in Peers, Click(q)
    PROVE  Typed'
<1>1. Event("SELECT", q) \in Events
  BY EventType
<1>2. mainQueue' \in Seq(Events)
  BY <1>1 DEF Typed, TypeOK, QueuesOK, Click
<1> QED
  BY <1>1, <1>2, Zenon
  DEF Typed, TypeOK, WayBack, ProcessOK, QueuesOK, SessionsOK, LogsOK, KeysOK,
      ScreenOK, WindowOK,
      Click, fixed, past, lists, logs, console, keys, view

(* Send keeps the types. *)
LEMMA SendTyped ==
    ASSUME Typed, NEW line \in Lines, Send(line)
    PROVE  Typed'
<1>1. used' \in [Kinds -> Nat] /\ used'.texts \in Nat
  BY UseType, Zenon DEF Typed, Send, Kinds
<1>2. Entry("me", line.kind, used'.texts, line.len) \in Entries
  BY <1>1, ClientsAssumption DEF Send, Lines, Entry, Entries
<1>3. PICK job : job = [event |-> "SEND", peer |-> selectedPeer,
                       entry |-> Entry("me", line.kind, used'.texts, line.len)]
  BY Zenon
<1>4. job \in Jobs
  BY <1>2, <1>3, Zenon DEF Typed, TypeOK, WindowOK, Send, Jobs
<1>5. posted' = Append(posted, job)
  BY <1>3, Zenon DEF Send
<1>6. posted' \in Seq(Mails \cup Jobs)
  BY <1>4, <1>5 DEF Typed, TypeOK, QueuesOK
<1>7. /\ peers' \in Seq(Peers)
      /\ selectedPeer' \in Peers \cup {None}
      /\ messages' \in Seq(Entries)
  BY RefreshMessagesType, Zenon DEF Typed, TypeOK, WindowOK, Send, view
<1> QED
  BY <1>1, <1>2, <1>3, <1>4, <1>5, <1>6, <1>7, Zenon
  DEF Typed, TypeOK, WayBack, ProcessOK, QueuesOK, SessionsOK, LogsOK, KeysOK,
      ScreenOK, WindowOK,
      Send, fixed, past, lists, logs, console, keys
-----------------------------------------------------------------------------
(* The rest of the process keeps the types. *)
LEMMA MailType ==
    ASSUME TypeOK, NEW n \in Nat, NEW q \in Peers,
           NEW event \in {"PUBLISHED", "RESOLVED", "DEREGISTERED", "MESSAGE", "END", "OFFER"},
           Mail(event, q, n)
    PROVE  inMailBox' \in Seq(Mails)
<1>1. PICK m : m = [event |-> event, peer |-> q, n |-> n]
  BY Zenon
<1>2. m \in Mails
  BY <1>1 DEF Mails
<1>3. inMailBox' = Append(inMailBox, m)
  BY <1>1 DEF Mail
<1> QED
  BY <1>2, <1>3 DEF TypeOK, QueuesOK

(* Report keeps the types. *)
LEMMA ReportTyped ==
    ASSUME Typed, NEW event \in {"PUBLISHED", "RESOLVED", "DEREGISTERED"}, NEW q \in Peers,
           Report(event, q)
    PROVE  Typed'
<1>1. used' \in [Kinds -> Nat]
  BY UseType DEF Typed, Report, Kinds
<1>2. inMailBox' \in Seq(Mails)
  BY MailType DEF Typed, Report
<1> QED
  BY <1>1, <1>2, Zenon
  DEF Typed, TypeOK, WayBack, ProcessOK, QueuesOK, SessionsOK, LogsOK, KeysOK,
      ScreenOK, WindowOK,
      Report, fixed, past, lists, logs, console, keys, gui, view

(* Arrive keeps the types. *)
LEMMA ArriveTyped ==
    ASSUME Typed, NEW event \in {"MESSAGE", "END", "OFFER"}, NEW q \in Peers,
           Arrive(event, q)
    PROVE  Typed'
<1>1. used' \in [Kinds -> Nat] /\ used'.messages \in Nat
  BY UseType DEF Typed, Arrive, Kinds
<1>2. PICK n \in Nat : n = used'.messages
  BY <1>1
<1>3. inMailBox' \in Seq(Mails)
  BY <1>2, MailType DEF Typed, Arrive
<1>4. arrived' \in [Peers -> SUBSET Entries]
  <2>1. arrived \in [Peers -> SUBSET Entries] /\ Coming(event, n) \in Entries
    BY <1>2 DEF Typed, TypeOK, ProcessOK, Coming, Entry, Entries
  <2>2. \/ arrived' = arrived
        \/ arrived' = [arrived EXCEPT ![q] = arrived[q] \cup {Coming(event, n)}]
    BY <1>2, Zenon DEF Arrive
  <2> QED
    BY ONLY <2>1, <2>2
<1> QED
  BY <1>1, <1>2, <1>3, <1>4, ZenonT(60)
  DEF Typed, TypeOK, WayBack, ProcessOK, QueuesOK, SessionsOK, LogsOK, KeysOK,
      ScreenOK, WindowOK,
      Arrive, fixed, past, lists, logs, console, keys, gui, view

(* ListSession keeps the types. *)
LEMMA ListSessionTyped ==
    ASSUME Typed, NEW q \in Peers, NEW i \in 1..Len(sessions_m) + 1,
           ListSession(q, i)
    PROVE  Typed'
<1>1. used' \in [Kinds -> Nat]
  BY UseType DEF Typed, ListSession, Kinds
<1>2. /\ sessions_m' \in Seq(Peers)
      /\ \A j, k \in DOMAIN sessions_m' : sessions_m'[j] = sessions_m'[k] => j = k
  BY ListSessionType DEF Typed
<1>3. screen' \in Screens
  BY Zenon DEF Typed, TypeOK, ScreenOK, ListSession, Screens
<1> QED
  BY <1>1, <1>2, <1>3, Zenon
  DEF Typed, TypeOK, WayBack, ProcessOK, QueuesOK, SessionsOK, LogsOK, KeysOK,
      ScreenOK, WindowOK,
      ListSession, fixed, past, logs, keys, gui, view
-----------------------------------------------------------------------------
(* The initial states have the types. *)
LEMMA InitTyped ==
    ASSUME Init
    PROVE  Typed
<1>1. budget \in Budgets /\ client \in {"console", "gui"}
  BY ClientsAssumption DEF Init
<1>2. /\ <<>> \in Seq(Mails) /\ <<>> \in Seq(Events \cup Mails) /\ <<>> \in Seq(Peers)
      /\ <<>> \in Seq(Entries) /\ <<>> \in Seq(Mails \cup Jobs) /\ <<>> \in Seq(Events)
  OBVIOUS
<1>3. sessions_m = <<>> => \A i, j \in DOMAIN sessions_m : sessions_m[i] = sessions_m[j] => i = j
  OBVIOUS
<1>4. screen \in Screens
  <2>1. sessions_m = <<>> /\ screen = PrintAll(None)
    BY DEF Init
  <2>2. None \in Inputs /\ "MainMenu" \in States
    BY DEF Inputs, States
  <2> QED
    BY ONLY <1>2, <2>1, <2>2, Zenon DEF PrintAll, Screens
<1>5. used \in [Kinds -> Nat] /\ arrived \in [Peers -> SUBSET Entries]
  BY DEF Init
<1> QED
  BY <1>1, <1>2, <1>3, <1>4, <1>5, Zenon
  DEF Init, Typed, TypeOK, WayBack, ProcessOK, QueuesOK, SessionsOK, LogsOK, KeysOK,
      ScreenOK, WindowOK,
      States, Inputs

(* Every step keeps them. *)
LEMMA NextTyped ==
    ASSUME Typed, [Next]_vars
    PROVE  Typed'
<1>1. CASE UNCHANGED vars
  BY <1>1, Zenon
  DEF Typed, TypeOK, WayBack, ProcessOK, QueuesOK, SessionsOK, LogsOK, KeysOK,
      ScreenOK, WindowOK,
      vars, fixed, past, lists, logs, console, keys, gui, view
<1>2. CASE MailboxThread
  BY <1>2, HandlePublishedServicesTyped, HandleResolvedServicesTyped,
     HandleServiceDeregistrationTyped, HandleMessageIncomingTyped, HandleFileOfferTyped,
     HandleFileTransferEndTyped, PrintFromMailboxTyped, PostMessageTyped, NotifyTyped
  DEF MailboxThread
<1>3. CASE IoThread
  BY <1>3, ShowMessageTyped, ShowOfferTyped, SendTextTyped, SendDataToNodeTyped,
     InitiateFileTransferWithSessionTyped
  DEF IoThread
<1>4. CASE MainThread
  BY <1>4, DispatchedTyped, ProgressTimerTyped DEF MainThread
<1>5. CASE Environment
  BY <1>5, ReportTyped, ListSessionTyped, ArriveTyped DEF Environment
<1>6. CASE User
  <2>1. CASE OnKey
    BY <2>1, RedrawTyped, EnterChatTyped, QuitTyped, TypeTyped, LeaveChatTyped,
       RedrawChatTyped, SendChatLineTyped, HandleFileOfferKeyTyped
    DEF OnKey
  <2>2. CASE \E q \in Peers : Click(q) \/ \E line \in Lines : Send(line)
    BY <2>2, ClickTyped, SendTyped
  <2> QED
    BY <1>6, <2>1, <2>2 DEF User
<1> QED
  BY <1>1, <1>2, <1>3, <1>4, <1>5, <1>6 DEF Next

(* The types hold whatever the peers, bounds and lengths: the handlers of  *)
(* three threads, a session that may go at any moment and a prompt that    *)
(* may pop up in the middle of a chat never leave a chat without a peer,   *)
(* and no service is listed twice.                                         *)
THEOREM TypeCorrect == Spec => []TypeOK
<1>1. Init => Typed
  BY InitTyped
<1>2. Typed /\ [Next]_vars => Typed'
  BY NextTyped
<1>3. Typed => TypeOK
  BY DEF Typed
<1> QED
  BY <1>1, <1>2, <1>3, PTL DEF Spec
-----------------------------------------------------------------------------
(* What is drawn for each state of the keys. *)
LEMMA RenderedChat ==
    ASSUME NEW note, Render("Chat", note)
    PROVE  /\ screen'.kind = "Chat" /\ screen'.banner = note
           /\ screen'.chat = activeChatService' /\ screen'.input = inputLine'
           /\ screen'.log = LastMessages(chatLogsM[activeChatService'])
           /\ screen'.sessions = sessions_m
BY Zenon DEF Render, Draw, RenderChat, PrintAll

(* What Render draws in the main menu. *)
LEMMA RenderedMenu ==
    ASSUME NEW note, Render("MainMenu", note)
    PROVE  /\ screen'.kind = "MainMenu" /\ screen'.banner = note
           /\ screen'.sessions = sessions_m
BY DEF Render, Draw, PrintAll

(* What Render draws under a prompt. *)
LEMMA RenderedFileOffer ==
    ASSUME Draw(RenderFileOffer)
    PROVE  screen'.kind = "FileOffer" /\ screen'.sessions = <<>>
BY DEF Draw, RenderFileOffer, PrintAll

(* What stays in a queue when its head is taken or something is appended. *)
LEMMA InTail ==
    ASSUME NEW S, NEW s \in Seq(S), s # <<>>, NEW i \in DOMAIN s
    PROVE  s[i] = Head(s) \/ (i - 1 \in DOMAIN Tail(s) /\ Tail(s)[i - 1] = s[i])
<1>1. CASE i = 1
  <2>1. Head(s) = s[1]
    BY ONLY s \in Seq(S), s # <<>>
  <2> QED
    BY ONLY <1>1, <2>1
<1>2. CASE i # 1
  <2>1. i - 1 \in 1..Len(s) - 1 /\ (i - 1) + 1 = i
    BY <1>2
  <2>2. DOMAIN Tail(s) = 1..Len(s) - 1 /\ Tail(s)[i - 1] = s[(i - 1) + 1]
    BY <2>1, HeadTailProperties
  <2> QED
    BY ONLY <2>1, <2>2
<1> QED
  BY <1>1, <1>2

(* An element of the tail is an element of the sequence. *)
LEMMA OfTail ==
    ASSUME NEW S, NEW s \in Seq(S), s # <<>>, NEW i \in DOMAIN Tail(s)
    PROVE  i + 1 \in DOMAIN s /\ Tail(s)[i] = s[i + 1]
BY HeadTailProperties

(* Of two numbers one at most is less than the other. *)
LEMMA LessOnce == \A x, y \in Nat : x < y => x # y /\ ~(y < x)
  OBVIOUS

(* An element of a sequence with one appended. *)
LEMMA InAppend ==
    ASSUME NEW S, NEW s \in Seq(S), NEW e \in S
    PROVE  /\ \A i \in DOMAIN s : i \in DOMAIN Append(s, e) /\ Append(s, e)[i] = s[i]
           /\ Len(s) + 1 \in DOMAIN Append(s, e) /\ Append(s, e)[Len(s) + 1] = e
           /\ \A i \in DOMAIN Append(s, e) :
                Append(s, e)[i] = e \/ (i \in DOMAIN s /\ Append(s, e)[i] = s[i])
<1>1. /\ DOMAIN Append(s, e) = 1..Len(s) + 1
      /\ DOMAIN s = 1..Len(s)
      /\ Len(s) \in Nat
  BY AppendProperties
<1>2. /\ \A i \in 1..Len(s) : Append(s, e)[i] = s[i]
      /\ Append(s, e)[Len(s) + 1] = e
  BY AppendProperties
<1>3. \A i \in DOMAIN s : i \in DOMAIN Append(s, e) /\ Append(s, e)[i] = s[i]
  BY ONLY <1>1, <1>2
<1>4. Len(s) + 1 \in DOMAIN Append(s, e)
  BY ONLY <1>1
<1>5. \A i \in 1..Len(s) + 1 : i = Len(s) + 1 \/ i \in 1..Len(s)
  BY ONLY <1>1
<1>6. ASSUME NEW i \in DOMAIN Append(s, e)
      PROVE  Append(s, e)[i] = e \/ (i \in DOMAIN s /\ Append(s, e)[i] = s[i])
  <2>1. CASE i = Len(s) + 1
    BY ONLY <1>2, <2>1
  <2>2. CASE i \in 1..Len(s)
    BY ONLY <1>1, <1>2, <2>2
  <2> QED
    BY <1>1, <1>5, <1>6, <2>1, <2>2
<1> QED
  BY ONLY <1>2, <1>3, <1>4, <1>6

(* An element of a concatenation. *)
LEMMA InConcat ==
    ASSUME NEW S, NEW s \in Seq(S), NEW t \in Seq(S)
    PROVE  /\ \A i \in DOMAIN s : i \in DOMAIN (s \o t) /\ (s \o t)[i] = s[i]
           /\ \A i \in DOMAIN t : Len(s) + i \in DOMAIN (s \o t) /\ (s \o t)[Len(s) + i] = t[i]
<1>1. /\ DOMAIN (s \o t) = 1..Len(s) + Len(t)
      /\ DOMAIN s = 1..Len(s) /\ DOMAIN t = 1..Len(t)
      /\ Len(s) \in Nat /\ Len(t) \in Nat
  BY ConcatProperties
<1>2. \A i \in 1..Len(s) + Len(t) :
        (s \o t)[i] = IF i <= Len(s) THEN s[i] ELSE t[i - Len(s)]
  BY ConcatProperties
<1>3. ASSUME NEW i \in DOMAIN t
      PROVE  Len(s) + i \in DOMAIN (s \o t) /\ (s \o t)[Len(s) + i] = t[i]
  <2>1. /\ Len(s) + i \in 1..Len(s) + Len(t)
        /\ ~(Len(s) + i <= Len(s))
        /\ (Len(s) + i) - Len(s) = i
    BY <1>1
  <2> QED
    BY ONLY <1>1, <1>2, <2>1
<1> QED
  BY ONLY <1>1, <1>2, <1>3
-----------------------------------------------------------------------------
(* The window is behind the log only while somebody is about to refresh it. *)
Told(s) == \E i \in DOMAIN s : s[i].event = "MESSAGES"
Dispatching(s) == \E i \in DOMAIN s : s[i].event \in {"MESSAGES", "PROGRESS"}

(* A refresh is still to be told or already dispatched. *)
LEMMA RefreshingTold ==
    Refreshing <=> Told(todo) \/ Dispatching(mainQueue)
BY DEF Refreshing, Told, Dispatching

(* It is still to be told after a step of the handler that is another one. *)
LEMMA ToldByTail ==
    ASSUME NEW s \in Seq(Events \cup Mails), s # <<>>, Told(s), Head(s).event # "MESSAGES"
    PROVE  Told(Tail(s))
<1>1. PICK i \in DOMAIN s : s[i].event = "MESSAGES"
  BY DEF Told
<1>2. i - 1 \in DOMAIN Tail(s) /\ Tail(s)[i - 1] = s[i]
  BY <1>1, InTail
<1> QED
  BY <1>1, <1>2 DEF Told

(* It is told when it is the end of what a handler has to do. *)
LEMMA ToldByConcat ==
    ASSUME NEW s \in Seq(Events \cup Mails), NEW t \in Seq(Events \cup Mails), Told(t)
    PROVE  Told(s \o t)
<1>1. PICK i \in DOMAIN t : t[i].event = "MESSAGES"
  BY DEF Told
<1>2. Len(s) + i \in DOMAIN (s \o t) /\ (s \o t)[Len(s) + i] = t[i]
  BY InConcat
<1> QED
  BY <1>1, <1>2 DEF Told

(* A refresh stays dispatched when another event is taken. *)
LEMMA DispatchingByTail ==
    ASSUME NEW s \in Seq(Events), s # <<>>, Dispatching(s),
           Head(s).event \notin {"MESSAGES", "PROGRESS"}
    PROVE  Dispatching(Tail(s))
<1>1. PICK i \in DOMAIN s : s[i].event \in {"MESSAGES", "PROGRESS"}
  BY DEF Dispatching
<1>2. i - 1 \in DOMAIN Tail(s) /\ Tail(s)[i - 1] = s[i]
  BY <1>1, InTail
<1> QED
  BY <1>1, <1>2 DEF Dispatching

(* A refresh is dispatched when events with it are. *)
LEMMA DispatchingByConcat ==
    ASSUME NEW s \in Seq(Events), NEW t \in Seq(Events), Dispatching(s) \/ Dispatching(t)
    PROVE  Dispatching(s \o t)
<1>1. CASE Dispatching(s)
  <2>1. PICK i \in DOMAIN s : s[i].event \in {"MESSAGES", "PROGRESS"}
    BY <1>1 DEF Dispatching
  <2>2. i \in DOMAIN (s \o t) /\ (s \o t)[i] = s[i]
    BY InConcat
  <2> QED
    BY <2>1, <2>2 DEF Dispatching
<1>2. CASE Dispatching(t)
  <2>1. PICK i \in DOMAIN t : t[i].event \in {"MESSAGES", "PROGRESS"}
    BY <1>2 DEF Dispatching
  <2>2. Len(s) + i \in DOMAIN (s \o t) /\ (s \o t)[Len(s) + i] = t[i]
    BY InConcat
  <2> QED
    BY <2>1, <2>2 DEF Dispatching
<1> QED
  BY <1>1, <1>2

(* A refresh that is told is dispatched. *)
LEMMA DispatchingByAppend ==
    ASSUME NEW s \in Seq(Events), NEW e \in Events,
           Dispatching(s) \/ e.event \in {"MESSAGES", "PROGRESS"}
    PROVE  Dispatching(Append(s, e))
BY InAppend DEF Dispatching

(* The rest of the queue is told when the handler goes on. *)
LEMMA ToldThen ==
    ASSUME TypeOK, NEW event, Then(event), event # "MESSAGES", Told(todo)
    PROVE  Told(todo')
BY ToldByTail DEF TypeOK, QueuesOK, Then

(* Nothing the window depends on has changed. *)
LEMMA WindowStill ==
    ASSUME GuiFresh, UNCHANGED <<client, chatLogsM, selectedPeer, messages>>,
           Refreshing => Refreshing'
    PROVE  GuiFresh'
BY DEF GuiFresh, MessagesFor

(* The mailbox thread keeps GuiFresh. *)
LEMMA MailboxFresh ==
    ASSUME Typed, GuiFresh, MailboxThread
    PROVE  GuiFresh'
<1>1. CASE HandlePublishedServices \/ HandleResolvedServices \/ HandleServiceDeregistration
  <2>1. UNCHANGED <<client, chatLogsM, selectedPeer, messages, mainQueue>> /\ todo = <<>>
    BY <1>1, Zenon DEF HandlePublishedServices, HandleResolvedServices,
                HandleServiceDeregistration, Handles, fixed, past, logs, gui, view
  <2> QED
    BY <2>1, WindowStill DEF Refreshing
<1>2. CASE HandleMessageIncoming \/ HandleFileTransferEnd
  <2>1. client' = client /\ (client # "console" => todo' = <<Event("MESSAGES", None)>>)
    BY <1>2, Zenon DEF HandleMessageIncoming, HandleFileTransferEnd, fixed, past
  <2>2. client = "gui" => Refreshing'
    BY <2>1 DEF Refreshing, Event
  <2> QED
    BY <2>1, <2>2 DEF GuiFresh
<1>3. CASE HandleFileOffer
  <2>1. UNCHANGED <<client, chatLogsM, selectedPeer, messages, mainQueue, todo>>
    BY <1>3 DEF HandleFileOffer, fixed, past, logs, gui, view
  <2> QED
    BY <2>1, WindowStill, Zenon DEF Refreshing
<1>4. CASE PrintFromMailbox
  <2>1. UNCHANGED <<client, chatLogsM, selectedPeer, messages, mainQueue>>
    BY <1>4 DEF PrintFromMailbox, fixed, past, logs, gui, view
  <2>2. Told(todo) => Told(todo')
    <3>1. CASE Then("printing")
      BY <3>1, ToldThen DEF Typed
    <3>2. CASE /\ todo # <<>>
               /\ Head(todo).event = "print"
               /\ todo' = <<Event("printing", None)>> \o Tail(todo)
      <4>1. Told(todo) => Told(Tail(todo))
        BY <3>2, ToldByTail, Zenon DEF Typed, TypeOK, QueuesOK
      <4>2. /\ Tail(todo) \in Seq(Events \cup Mails)
            /\ <<Event("printing", None)>> \in Seq(Events \cup Mails)
        BY <3>2, Taken, EventType DEF Typed, TypeOK, QueuesOK
      <4>3. Told(Tail(todo)) => Told(<<Event("printing", None)>> \o Tail(todo))
        BY <4>2, ToldByConcat, Zenon
      <4> QED
        BY <3>2, <4>1, <4>3
    <3> QED
      BY <1>4, <3>1, <3>2 DEF PrintFromMailbox
  <2> QED
    BY <2>1, <2>2, WindowStill, Zenon DEF Refreshing, Told
<1>5. CASE PostMessage
  <2>1. UNCHANGED <<client, chatLogsM, selectedPeer, messages, mainQueue>>
    BY <1>5 DEF PostMessage, fixed, past, logs, gui, view
  <2>2. Told(todo) => Told(todo')
    BY <1>5, ToldThen DEF Typed, PostMessage
  <2> QED
    BY <2>1, <2>2, WindowStill DEF Refreshing, Told
<1>6. CASE Notify
  <2>1. UNCHANGED <<client, chatLogsM, selectedPeer, messages>>
    BY <1>6 DEF Notify, fixed, past, logs, view
  <2>2. mainQueue \in Seq(Events) /\ Head(todo) \in Events
    <3>1. Head(todo) \in Events \cup Mails
      BY <1>6, ThenType DEF Typed, Notify
    <3> QED
      BY <1>6, <3>1, Zenon DEF Typed, TypeOK, QueuesOK, Notify, Then, Mails
  <2>3. mainQueue' = Append(mainQueue, Head(todo))
    BY <1>6 DEF Notify
  <2>4. Dispatching(mainQueue) => Dispatching(mainQueue')
    BY <2>2, <2>3, DispatchingByAppend
  <2>5. CASE Then("PEERS")
    <3>1. Told(todo) => Told(todo')
      BY <2>5, ToldThen DEF Typed
    <3> QED
      BY <2>1, <2>4, <3>1, WindowStill, Zenon DEF Refreshing, Told, Dispatching
  <2>6. CASE Then("MESSAGES")
    <3>1. Dispatching(mainQueue')
      BY <2>2, <2>3, <2>6, DispatchingByAppend DEF Then
    <3> QED
      BY <2>1, <3>1, WindowStill, Zenon DEF Refreshing, Dispatching
  <2> QED
    BY <1>6, <2>5, <2>6 DEF Notify
<1> QED
  BY <1>1, <1>2, <1>3, <1>4, <1>5, <1>6 DEF MailboxThread

(* The io thread keeps GuiFresh. *)
LEMMA IoFresh ==
    ASSUME Typed, GuiFresh, IoThread
    PROVE  GuiFresh'
<1>1. CASE ShowMessage \/ ShowOffer \/ SendText
  <2>1. UNCHANGED <<client, chatLogsM, selectedPeer, messages, mainQueue, todo>>
    BY <1>1, Zenon DEF ShowMessage, ShowOffer, SendText, fixed, past, logs, gui, view
  <2> QED
    BY <2>1, WindowStill DEF Refreshing
<1> DEFINE one == <<Event("MESSAGES", None)>>
           two == <<Event("MESSAGES", None), Event("PROGRESS", None)>>
<1>2. /\ one \in Seq(Events) /\ two \in Seq(Events)
      /\ Dispatching(one) /\ Dispatching(two)
  BY EventsType DEF Event, Dispatching
<1>3. mainQueue \in Seq(Events)
  BY DEF Typed, TypeOK, QueuesOK
<1> HIDE DEF one, two
<1>4. CASE SendDataToNode
  <2>1. UNCHANGED <<client, selectedPeer, messages, todo>>
    BY <1>4, Zenon DEF SendDataToNode, fixed, past, view
  <2>2. CASE AfterSending(io.peer, one)
    <3>1. client = "gui" => mainQueue' = mainQueue \o one
      BY <2>2, Zenon DEF AfterSending
    <3>2. client = "gui" => Dispatching(mainQueue')
      BY <1>2, <1>3, <3>1, DispatchingByConcat, Zenon
    <3> QED
      BY <2>1, <3>2, Zenon DEF GuiFresh, Refreshing, Dispatching
  <2>3. CASE UNCHANGED logs /\ AfterSending(io.peer, <<>>)
    <3>1. client = "gui" => mainQueue' = mainQueue
      BY <1>3, <2>3, ConcatEmptySeq DEF AfterSending
    <3> QED
      BY <2>1, <2>3, <3>1, Zenon DEF GuiFresh, Refreshing, MessagesFor, logs
  <2> QED
    BY <1>4, <2>2, <2>3, Zenon DEF SendDataToNode, one
<1>5. CASE InitiateFileTransferWithSession
  <2>1. UNCHANGED <<client, selectedPeer, messages, todo>>
    BY <1>5, Zenon DEF InitiateFileTransferWithSession, fixed, past, view
  <2>2. CASE AfterSending(io.peer, two)
    <3>1. client = "gui" => mainQueue' = mainQueue \o two
      BY <2>2, Zenon DEF AfterSending
    <3>2. client = "gui" => Dispatching(mainQueue')
      BY <1>2, <1>3, <3>1, DispatchingByConcat, Zenon
    <3> QED
      BY <2>1, <3>2, Zenon DEF GuiFresh, Refreshing, Dispatching
  <2>3. CASE UNCHANGED <<chatLogsM, mainQueue>>
    BY <2>1, <2>3, Zenon DEF GuiFresh, Refreshing, MessagesFor
  <2> QED
    BY <1>5, <2>2, <2>3, Zenon DEF InitiateFileTransferWithSession, two
<1> QED
  BY <1>1, <1>4, <1>5 DEF IoThread

(* The main thread keeps GuiFresh. *)
LEMMA MainFresh ==
    ASSUME Typed, GuiFresh, MainThread
    PROVE  GuiFresh'
<1>1. CASE ProgressTimer
  BY <1>1, Zenon DEF ProgressTimer, RefreshPeers, GuiFresh, MessagesFor, Refreshing,
     fixed, past, logs
<1>2. CASE Dispatched
  <2>1. /\ UNCHANGED <<client, chatLogsM, todo>>
        /\ mainQueue \in Seq(Events) /\ mainQueue # <<>> /\ mainQueue' = Tail(mainQueue)
    BY <1>2 DEF Typed, TypeOK, ProcessOK, QueuesOK, LogsOK, Dispatched, fixed, past, logs
  <2>2. CASE Head(mainQueue).event = "PEERS"
    <3>1. Dispatching(mainQueue) => Dispatching(mainQueue')
      BY <2>1, <2>2, DispatchingByTail
    <3>2. RefreshPeers
      BY <1>2, <2>2 DEF Dispatched
    <3>3. Refreshing => Refreshing'
      BY <2>1, <3>1 DEF Refreshing, Dispatching
    <3> QED
      BY <2>1, <3>2, <3>3, Zenon DEF RefreshPeers, GuiFresh, MessagesFor
  <2>3. CASE Head(mainQueue).event = "SELECT"
    <3>1. Select(Head(mainQueue).peer)
      BY <1>2, <2>3 DEF Dispatched
    <3> QED
      BY <2>1, <3>1 DEF Select, GuiFresh, MessagesFor
  <2>4. CASE Head(mainQueue).event \notin {"PEERS", "SELECT"}
    <3>1. RefreshMessages
      BY <1>2, <2>4 DEF Dispatched
    <3> QED
      BY <2>1, <3>1 DEF RefreshMessages, GuiFresh, MessagesFor
  <2> QED
    BY <2>2, <2>3, <2>4
<1> QED
  BY <1>1, <1>2 DEF MainThread

(* What comes from outside keeps GuiFresh. *)
LEMMA EnvironmentFresh ==
    ASSUME GuiFresh, Environment
    PROVE  GuiFresh'
<1>1. UNCHANGED <<client, chatLogsM, selectedPeer, messages, mainQueue, todo>>
  BY DEF Environment, Report, ListSession, Arrive, fixed, past, logs, gui, view
<1> QED
  BY <1>1, WindowStill DEF Refreshing

(* What the user does keeps GuiFresh. *)
LEMMA UserFresh ==
    ASSUME Typed, GuiFresh, User
    PROVE  GuiFresh'
<1>1. CASE OnKey
  <2>1. UNCHANGED <<client, chatLogsM, selectedPeer, messages, mainQueue, todo>>
    BY <1>1, Zenon DEF OnKey, Redraw, EnterChat, Quit, Type, LeaveChat, RedrawChat,
       SendChatLine,
                HandleFileOfferKey, fixed, past, logs, gui, view
  <2> QED
    BY <2>1, WindowStill DEF Refreshing
<1>2. ASSUME NEW q \in Peers, Click(q)
      PROVE  GuiFresh'
  <2>1. UNCHANGED <<client, chatLogsM, selectedPeer, messages, todo>>
    BY <1>2 DEF Click, fixed, past, logs, view
  <2>2. mainQueue' = Append(mainQueue, Event("SELECT", q))
    BY <1>2, Zenon DEF Click
  <2>3. mainQueue \in Seq(Events) /\ Event("SELECT", q) \in Events
    BY EventType DEF Typed, TypeOK, QueuesOK
  <2>4. Dispatching(mainQueue) => Dispatching(mainQueue')
    BY <2>2, <2>3, DispatchingByAppend
  <2> QED
    BY <2>1, <2>4, WindowStill, Zenon DEF Refreshing, Dispatching
<1>3. ASSUME NEW line \in Lines, Send(line)
      PROVE  GuiFresh'
  <2>1. UNCHANGED <<client, chatLogsM, mainQueue, todo, selectedPeer>>
    BY <1>3, Zenon DEF Send, RefreshMessages, fixed, past, logs, view
  <2>2. messages' = MessagesFor(selectedPeer) \/ UNCHANGED messages
    BY <1>3, Zenon DEF Send, RefreshMessages, view
  <2> QED
    BY <2>1, <2>2, Zenon DEF GuiFresh, MessagesFor, Refreshing
<1> QED
  BY <1>1, <1>2, <1>3 DEF User

(* Whatever the order of messages, notifications, selections, refreshes    *)
(* and sendings, and however long the queues: the window shows the log of  *)
(* the peer that is selected, or a refresh of it is on its way.            *)
THEOREM GuiFreshHolds == Spec => []GuiFresh
<1>1. Init => Typed /\ GuiFresh
  <2>1. ASSUME Init PROVE GuiFresh
    BY <2>1 DEF Init, GuiFresh, MessagesFor
  <2> QED
    BY <2>1, InitTyped
<1>2. Typed /\ GuiFresh /\ [Next]_vars => (Typed /\ GuiFresh)'
  <2>1. ASSUME Typed, GuiFresh, Next PROVE GuiFresh'
    BY <2>1, MailboxFresh, IoFresh, MainFresh, EnvironmentFresh, UserFresh DEF Next
  <2>2. ASSUME GuiFresh, UNCHANGED vars PROVE GuiFresh'
    BY <2>2, Zenon DEF GuiFresh, MessagesFor, Refreshing, vars, fixed, past, logs, gui, view
  <2> QED
    BY <2>1, <2>2, NextTyped
<1> QED
  BY <1>1, <1>2, PTL DEF Spec
-----------------------------------------------------------------------------
(* The numbers on the screen are those of the list, unless a session was   *)
(* listed before another one or the mailbox thread owes a drawing.         *)
Owed(s) == \E i \in DOMAIN s : s[i].event = "print"

Numbered ==
    client = "console" /\ screen.stale = "no" /\ ~Owed(todo) =>
      \A n \in DOMAIN screen.sessions :
        n \in DOMAIN sessions_m /\ sessions_m[n] = screen.sessions[n]

(* The numbers stay when neither sessions nor screen change. *)
LEMMA NumberStill ==
    ASSUME Numbered, UNCHANGED <<client, sessions_m>>, screen'.sessions = screen.sessions,
           screen'.stale = screen.stale, Owed(todo) => Owed(todo')
    PROVE  Numbered'
BY Zenon DEF Numbered, Owed

(* The numbers are right when the sessions were just drawn. *)
LEMMA NumberDrawn ==
    ASSUME UNCHANGED sessions_m, screen'.sessions = sessions_m \/ screen'.sessions = <<>>
    PROVE  Numbered'
BY DEF Numbered

(* A drawing that is owed stays owed until it is drawn. *)
LEMMA OwedThen ==
    ASSUME TypeOK, NEW event, Then(event), event # "print", Owed(todo)
    PROVE  Owed(todo')
<1>1. todo \in Seq(Events \cup Mails) /\ todo # <<>> /\ todo' = Tail(todo)
  BY DEF TypeOK, QueuesOK, Then
<1>2. PICK i \in DOMAIN todo : todo[i].event = "print"
  BY DEF Owed
<1>3. i - 1 \in DOMAIN Tail(todo) /\ Tail(todo)[i - 1] = todo[i]
  BY <1>1, <1>2, InTail DEF Then
<1> QED
  BY <1>1, <1>2, <1>3 DEF Owed

(* The mailbox thread keeps the numbers. *)
LEMMA MailboxNumbered ==
    ASSUME Typed, Numbered, MailboxThread
    PROVE  Numbered'
<1>1. CASE HandlePublishedServices \/ HandleResolvedServices \/ HandleMessageIncoming
           \/ HandleFileTransferEnd
  <2>1. UNCHANGED <<client, sessions_m, screen>> /\ todo = <<>>
    BY <1>1, Zenon DEF HandlePublishedServices, HandleResolvedServices,
       HandleMessageIncoming,
                HandleFileTransferEnd, Handles, fixed, past, lists, console
  <2> QED
    BY <2>1, NumberStill DEF Owed
<1>2. CASE HandleFileOffer
  <2>1. UNCHANGED <<client, sessions_m, screen, todo>>
    BY <1>2 DEF HandleFileOffer, fixed, past, lists, console
  <2> QED
    BY <2>1, NumberStill DEF Owed
<1>3. CASE HandleServiceDeregistration
  <2>1. client' = client /\ todo' = Prints \o Tells("PEERS")
    BY <1>3, Zenon DEF HandleServiceDeregistration, fixed, past
  <2>2. CASE client = "console"
    <3>1. todo' = <<Event("print", None)>> \o <<>>
      BY <2>1, <2>2 DEF Prints, Tells
    <3>2. todo' = <<Event("print", None)>>
      BY <3>1
    <3>3. Owed(todo')
      BY <3>2 DEF Owed, Event
    <3> QED
      BY <3>3, Zenon DEF Numbered, Owed
  <2>3. CASE client # "console"
    BY <2>1, <2>3, Zenon DEF Numbered
  <2> QED
    BY <2>2, <2>3
<1>4. CASE PrintFromMailbox
  <2>1. CASE Then("printing") /\ UNCHANGED <<fixed, lists, console>>
    <3>1. Owed(todo) => Owed(todo')
      BY <2>1, OwedThen DEF Typed
    <3> QED
      BY <2>1, <3>1, NumberStill DEF fixed, past, lists, console
  <2>2. CASE Draw([PrintAll(lastNotification) EXCEPT !.by = "mailbox"]) /\ UNCHANGED lists
    <3>1. screen'.sessions = sessions_m
      BY <2>2 DEF Draw, PrintAll
    <3> QED
      BY <2>2, <3>1, NumberDrawn DEF lists
  <2> QED
    BY <1>4, <2>1, <2>2 DEF PrintFromMailbox
<1>5. CASE PostMessage \/ Notify
  <2>1. UNCHANGED <<client, sessions_m, screen>>
    BY <1>5, Zenon DEF PostMessage, Notify, fixed, past, lists, console
  <2>2. Then("MESSAGE") \/ Then("PEERS") \/ Then("MESSAGES")
    BY <1>5 DEF PostMessage, Notify
  <2>3. Owed(todo) => Owed(todo')
    BY <2>2, OwedThen DEF Typed
  <2> QED
    BY <2>1, <2>3, NumberStill
<1> QED
  BY <1>1, <1>2, <1>3, <1>4, <1>5 DEF MailboxThread

(* Render draws the sessions, or none. *)
LEMMA RenderedSessions ==
    ASSUME NEW state, NEW note, Render(state, note)
    PROVE  \/ screen'.sessions = sessions_m
           \/ screen'.sessions = <<>>
           \/ UNCHANGED screen
<1>1. CASE state = "FileOffer"
  BY <1>1, RenderedFileOffer DEF Render
<1>2. CASE state = "Chat"
  BY <1>2, Zenon DEF Render, Draw, RenderChat, PrintAll
<1>3. CASE state # "FileOffer" /\ state # "Chat"
  BY <1>3 DEF Render, Draw, PrintAll
<1> QED
  BY <1>1, <1>2, <1>3

(* A drawing of the io thread numbers the sessions as they are. *)
LEMMA NumberRendered ==
    ASSUME Numbered, NEW state, NEW note, Render(state, note),
           UNCHANGED <<client, sessions_m, todo>>
    PROVE  Numbered'
<1>1. \/ screen'.sessions = sessions_m
      \/ screen'.sessions = <<>>
      \/ UNCHANGED screen
  BY RenderedSessions
<1>2. CASE UNCHANGED screen
  BY <1>2, NumberStill DEF Owed
<1> QED
  BY <1>1, <1>2, NumberDrawn, Zenon

(* The drawing after a text or a file keeps the numbers. *)
LEMMA NumberSent ==
    ASSUME Numbered, NEW q, NEW events, AfterSending(q, events),
           UNCHANGED <<client, sessions_m, todo>>
    PROVE  Numbered'
<1>1. screen'.sessions = sessions_m \/ UNCHANGED screen
  BY Zenon DEF AfterSending, Draw, RenderChat, PrintAll
<1>2. CASE UNCHANGED screen
  BY <1>2, NumberStill DEF Owed
<1> QED
  BY <1>1, <1>2, NumberDrawn

(* The io thread keeps the numbers. *)
LEMMA IoNumbered ==
    ASSUME Numbered, IoThread
    PROVE  Numbered'
<1>1. UNCHANGED <<client, sessions_m, todo>>
  BY Zenon DEF IoThread, ShowMessage, ShowOffer, SendText, SendDataToNode,
         InitiateFileTransferWithSession, fixed, past, lists
<1>2. CASE ShowMessage
  BY <1>1, <1>2, NumberRendered, Zenon DEF ShowMessage
<1>3. CASE ShowOffer
  BY <1>1, <1>3, RenderedFileOffer, NumberDrawn, Zenon DEF ShowOffer
<1>4. CASE SendText
  BY <1>1, <1>4, NumberStill, Zenon DEF SendText, console, Owed
<1>5. CASE SendDataToNode
  BY <1>1, <1>5, NumberSent, Zenon DEF SendDataToNode
<1>6. CASE InitiateFileTransferWithSession
  <2>1. CASE UNCHANGED screen
    BY <1>1, <2>1, NumberStill, Zenon DEF Owed
  <2>2. CASE AfterSending(io.peer, <<Event("MESSAGES", None), Event("PROGRESS", None)>>)
    BY <1>1, <2>2, NumberSent
  <2> QED
    BY <1>6, <2>1, <2>2, Zenon DEF InitiateFileTransferWithSession
<1> QED
  BY <1>2, <1>3, <1>4, <1>5, <1>6, Zenon DEF IoThread

(* The keys keep the numbers. *)
LEMMA KeysNumbered ==
    ASSUME Typed, Numbered, OnKey
    PROVE  Numbered'
<1>1. UNCHANGED <<client, sessions_m, todo>>
  BY Zenon DEF OnKey, Redraw, EnterChat, Quit, Type, LeaveChat, RedrawChat,
     SendChatLine,
         HandleFileOfferKey, fixed, past, lists
<1>2. CASE Quit
  BY <1>1, <1>2, NumberStill, Zenon DEF Quit, console, Owed
<1>3. ASSUME NEW line \in Lines \cup {None}, Type(line)
      PROVE  Numbered'
  <2>1. screen' = [screen EXCEPT !.input = line] /\ screen \in Screens
    BY <1>3 DEF Type, Typed, TypeOK, ScreenOK
  <2>2. screen'.sessions = screen.sessions /\ screen'.stale = screen.stale
    BY <2>1 DEF Screens
  <2> QED
    BY <1>1, <2>2, NumberStill DEF Owed
<1>4. CASE Redraw \/ LeaveChat \/ RedrawChat \/ HandleFileOfferKey \/ \E n \in 1..9 : EnterChat(n)
  <2>1. \/ Render(uiState, lastNotification) \/ Render("MainMenu", lastNotification)
        \/ Render("Chat", lastNotification) \/ Render(uiState', lastNotification)
        \/ Render("Chat", None)
    BY <1>4, Zenon DEF Redraw, LeaveChat, RedrawChat, HandleFileOfferKey, EnterChat
  <2> QED
    BY <1>1, <2>1, NumberRendered
<1>5. CASE SendChatLine
  <2>1. UNCHANGED screen \/ Render("Chat", lastNotification)
    BY <1>5, Zenon DEF SendChatLine
  <2>2. CASE UNCHANGED screen
    BY <1>1, <2>2, NumberStill DEF Owed
  <2> QED
    BY <1>1, <2>1, <2>2, NumberRendered
<1> QED
  BY <1>2, <1>3, <1>4, <1>5 DEF OnKey

(* A session that is listed keeps the numbers, or makes the screen stale. *)
LEMMA ListSessionNumbered ==
    ASSUME Typed, Numbered, NEW q \in Peers, NEW i \in 1..Len(sessions_m) + 1,
           ListSession(q, i)
    PROVE  Numbered'
<1>1. /\ UNCHANGED <<client, todo>> /\ screen \in Screens /\ sessions_m \in Seq(Peers)
      /\ sessions_m' = InsertAt(sessions_m, i, q)
      /\ screen' = IF i <= Len(sessions_m) THEN [screen EXCEPT !.stale = "yes"] ELSE screen
  BY DEF ListSession, Typed, TypeOK, ProcessOK, QueuesOK, SessionsOK, ScreenOK, fixed, past
<1>2. CASE i <= Len(sessions_m)
  <2>1. screen'.stale = "yes"
    BY <1>1, <1>2 DEF Screens
  <2> QED
    BY <2>1, Zenon DEF Numbered
<1>3. CASE ~(i <= Len(sessions_m))
  <2>1. screen' = screen
    BY <1>1, <1>3
  <2>2. /\ DOMAIN sessions_m = 1..Len(sessions_m) /\ Len(sessions_m) \in Nat
        /\ i = Len(sessions_m) + 1
    BY <1>1, <1>3
  <2>3. /\ sessions_m' \in Seq(Peers)
        /\ Len(sessions_m') = Len(sessions_m) + 1
        /\ \A k \in 1..Len(sessions_m) + 1 :
             sessions_m'[k] = IF k < i THEN sessions_m[k]
                              ELSE IF k = i THEN q ELSE sessions_m[k - 1]
    BY ListSessionType, Zenon DEF Typed
  <2>4. DOMAIN sessions_m' = 1..Len(sessions_m) + 1
    BY <2>3
  <2>5. \A n \in DOMAIN sessions_m : n \in DOMAIN sessions_m' /\ sessions_m'[n] = sessions_m[n]
    BY ONLY <2>2, <2>3, <2>4
  <2> QED
    BY <1>1, <2>1, <2>5 DEF Numbered, Owed
<1> QED
  BY <1>2, <1>3

(* Every step keeps the numbers. *)
LEMMA NextNumbered ==
    ASSUME Typed, Numbered, [Next]_vars
    PROVE  Numbered'
<1>1. CASE UNCHANGED vars
  BY <1>1, NumberStill, Zenon DEF vars, fixed, past, lists, console, Owed
<1>2. CASE MainThread
  BY <1>2, NumberStill
  DEF MainThread, Dispatched, ProgressTimer, fixed, past, lists, console, Owed
<1>3. CASE Environment
  <2>1. ASSUME NEW q \in Peers, NEW event, Report(event, q) \/ Arrive(event, q)
        PROVE  Numbered'
    BY <2>1, NumberStill, Zenon DEF Report, Arrive, fixed, past, lists, console, Owed
  <2> QED
    BY <1>3, <2>1, ListSessionNumbered, Zenon DEF Environment
<1>4. CASE User
  <2>1. ASSUME NEW q \in Peers, Click(q)
        PROVE  Numbered'
    BY <2>1, NumberStill, Zenon DEF Click, fixed, past, lists, console, Owed
  <2>2. ASSUME NEW line \in Lines, Send(line)
        PROVE  Numbered'
    BY <2>2, NumberStill, Zenon DEF Send, fixed, past, lists, console, Owed
  <2> QED
    BY <1>4, <2>1, <2>2, KeysNumbered DEF User
<1> QED
  BY <1>1, <1>2, <1>3, <1>4, MailboxNumbered, IoNumbered DEF Next

(* The numbering: for any number of sessions, in any order of listing,     *)
(* removing and drawing on two threads, a digit opens the chat drawn       *)
(* beside it, with the two exceptions NumberMeansDisplayed names.          *)
THEOREM NumberMeansDisplayedHolds == Spec => NumberMeansDisplayed
<1>1. Init => Typed /\ Numbered
  <2>1. ASSUME Init PROVE Numbered
    BY <2>1, Zenon DEF Init, Numbered, PrintAll
  <2> QED
    BY <2>1, InitTyped
<1>2. Typed /\ Numbered /\ [Next]_vars => (Typed /\ Numbered)'
  BY NextTyped, NextNumbered
<1>3. Numbered /\ [Next]_vars =>
        [ \A n \in DOMAIN screen.sessions :
            /\ EnterChat(n)
            /\ screen.stale = "no"
            /\ \A i \in DOMAIN todo : todo[i].event # "print"
            => activeChatService' = screen.sessions[n] ]_vars
  <2> SUFFICES ASSUME Numbered, NEW n \in DOMAIN screen.sessions, EnterChat(n),
                      screen.stale = "no", \A i \in DOMAIN todo : todo[i].event # "print"
               PROVE  activeChatService' = screen.sessions[n]
    OBVIOUS
  <2>1. client = "console" /\ activeChatService' = sessions_m[n]
    BY Zenon DEF EnterChat, Key
  <2> QED
    BY <2>1, Zenon DEF Numbered, Owed
<1> QED
  BY <1>1, <1>2, <1>3, PTL DEF Spec, NumberMeansDisplayed
-----------------------------------------------------------------------------
(* A text or file that is being sent is the open chat's, and the line it   *)
(* was typed in is empty again; the console posts no sendings.             *)
Sends(s) == \E i \in DOMAIN s : s[i].event = "SEND"

Sending ==
    client = "console" =>
      /\ io # None => uiState = "Chat" /\ io.peer = activeChatService /\ inputLine = None
      /\ ~Sends(posted)

(* Appending what is no SEND leaves what is sent. *)
LEMMA SendsAppend ==
    ASSUME TypeOK, NEW m \in Mails, posted' = Append(posted, m), Sends(posted')
    PROVE  Sends(posted)
<1>1. PICK i \in DOMAIN Append(posted, m) : Append(posted, m)[i].event = "SEND"
  BY DEF Sends
<1>2. m.event # "SEND"
  BY DEF Mails
<1>3. i \in DOMAIN posted /\ Append(posted, m)[i] = posted[i]
  BY <1>1, <1>2, InAppend DEF TypeOK, QueuesOK
<1> QED
  BY <1>1, <1>3, Zenon DEF Sends

(* Taking the head off leaves no SEND that was not there. *)
LEMMA SendsTail ==
    ASSUME TypeOK, NEW event, Posted(event), Sends(posted')
    PROVE  Sends(posted)
<1>1. posted \in Seq(Mails \cup Jobs) /\ posted # <<>> /\ posted' = Tail(posted)
  BY DEF TypeOK, QueuesOK, Posted
<1>2. PICK i \in DOMAIN Tail(posted) : Tail(posted)[i].event = "SEND"
  BY <1>1 DEF Sends
<1>3. i + 1 \in DOMAIN posted /\ Tail(posted)[i] = posted[i + 1]
  BY <1>1, OfTail, Zenon
<1> QED
  BY <1>2, <1>3 DEF Sends

(* The head, if it is a SEND. *)
LEMMA SendsHead ==
    ASSUME TypeOK, Posted("SEND")
    PROVE  Sends(posted)
<1>1. posted \in Seq(Mails \cup Jobs) /\ posted # <<>> /\ Head(posted).event = "SEND"
  BY DEF TypeOK, QueuesOK, Posted
<1>2. 1 \in DOMAIN posted /\ Head(posted) = posted[1]
  BY <1>1
<1> QED
  BY <1>1, <1>2 DEF Sends

(* Every step keeps Sending. *)
LEMMA NextSending ==
    ASSUME Typed, Sending, [Next]_vars
    PROVE  Sending'
<1>1. CASE UNCHANGED vars
  BY <1>1, Zenon DEF Sending, Sends, vars, fixed, past, console, keys
<1>2. CASE MailboxThread
  <2>1. UNCHANGED <<client, io, uiState, activeChatService, inputLine>>
    BY <1>2, Zenon DEF MailboxThread, HandlePublishedServices, HandleResolvedServices,
       HandleServiceDeregistration, HandleMessageIncoming, HandleFileOffer,
       HandleFileTransferEnd, PrintFromMailbox, PostMessage, Notify, fixed, past, console,
       keys
  <2>2. CASE HandleFileOffer
    <3>1. Head(inMailBox) \in Mails /\ posted' = Append(posted, Head(inMailBox))
      BY <2>2, HandlesType DEF Typed, HandleFileOffer
    <3>2. Sends(posted') => Sends(posted)
      BY <3>1, SendsAppend DEF Typed
    <3> QED
      BY <2>1, <3>2, Zenon DEF Sending, Sends
  <2>3. CASE PostMessage
    <3>1. Head(todo) \in Events \cup Mails /\ Head(todo).event = "MESSAGE"
      BY <2>3, ThenType DEF Typed, PostMessage, Then
    <3>2. Head(todo) \in Mails /\ posted' = Append(posted, Head(todo))
      BY <2>3, <3>1 DEF PostMessage, Events
    <3>3. Sends(posted') => Sends(posted)
      BY <3>2, SendsAppend DEF Typed
    <3> QED
      BY <2>1, <3>3, Zenon DEF Sending, Sends
  <2>4. CASE ~HandleFileOffer /\ ~PostMessage
    <3>1. UNCHANGED posted
      BY <1>2, <2>4, Zenon
      DEF MailboxThread, HandlePublishedServices, HandleResolvedServices,
         HandleServiceDeregistration, HandleMessageIncoming, HandleFileTransferEnd,
         PrintFromMailbox, Notify
    <3> QED
      BY <2>1, <3>1, Zenon DEF Sending, Sends
  <2> QED
    BY <2>2, <2>3, <2>4
<1>3. CASE IoThread
  <2>1. CASE ShowMessage \/ ShowOffer
    <3>1. UNCHANGED <<client, io>> /\ io = None
      BY <2>1, Zenon DEF ShowMessage, ShowOffer, Posted, Turn, fixed, past
    <3>2. Sends(posted') => Sends(posted)
      BY <2>1, SendsTail, Zenon DEF Typed, ShowMessage, ShowOffer
    <3> QED
      BY <3>1, <3>2, Zenon DEF Sending, Sends
  <2>2. CASE SendText
    <3>1. client' = client /\ Sends(posted)
      BY <2>2, SendsHead, Zenon DEF Typed, SendText, fixed, past
    <3> QED
      BY <3>1 DEF Sending
  <2>3. CASE SendDataToNode \/ InitiateFileTransferWithSession
    <3>1. /\ UNCHANGED <<client, posted, uiState, activeChatService, inputLine>>
          /\ io' = io \/ io' = None
      BY <2>3, Zenon DEF SendDataToNode, InitiateFileTransferWithSession, fixed, past, keys
    <3> QED
      BY <3>1, Zenon DEF Sending, Sends
  <2> QED
    BY <1>3, <2>1, <2>2, <2>3 DEF IoThread
<1>4. CASE MainThread
  BY <1>4 DEF MainThread, Dispatched, ProgressTimer, Sending, Sends, fixed, past, console,
     keys
<1>5. CASE Environment
  BY <1>5 DEF Environment, Report, ListSession, Arrive, Sending, Sends, fixed, past,
     console, keys
<1>6. CASE User
  <2>1. CASE SendChatLine
    <3>1. /\ UNCHANGED <<client, posted, uiState, activeChatService>>
          /\ uiState = "Chat" /\ inputLine' = None
          /\ io' = None \/ io'.peer = activeChatService
      BY <2>1 DEF SendChatLine, Key, Turn, fixed, past
    <3> QED
      BY <3>1, SMTT(60) DEF Sending, Sends
  <2>2. CASE OnKey /\ ~SendChatLine
    <3>1. UNCHANGED <<client, posted, io>> /\ io = None
      BY <2>2, Zenon DEF OnKey, Redraw, EnterChat, Quit, Type, LeaveChat, RedrawChat,
                  HandleFileOfferKey, Key, Turn, fixed, past
    <3> QED
      BY <3>1 DEF Sending, Sends
  <2>3. ASSUME NEW line \in Lines, Send(line)
        PROVE  Sending'
    BY <2>3, Zenon DEF Send, Sending, fixed, past
  <2>4. ASSUME NEW q \in Peers, Click(q)
        PROVE  Sending'
    BY <2>4, Zenon DEF Click, Sending, fixed, past
  <2> QED
    BY <1>6, <2>1, <2>2, <2>3, <2>4, SMTT(60) DEF User
<1> QED
  BY <1>1, <1>2, <1>3, <1>4, <1>5, <1>6 DEF Next
-----------------------------------------------------------------------------
(* The screen follows the keys. *)
Pending(s, q) == \E i \in DOMAIN s : s[i].event = "MESSAGE" /\ s[i].peer = q

(* A redraw on its way, in the words of Pending. *)
LEMMA RedrawingPending ==
    ASSUME NEW q
    PROVE  Redrawing(q) <=> Pending(todo, q) \/ Pending(posted, q)
BY DEF Redrawing, Pending

(* Neither the screen nor the keys have changed; a log only changes with a *)
(* redraw on its way.                                                      *)
LEMMA FollowsStill ==
    ASSUME Typed, ScreenFollows,
           UNCHANGED <<client, screen, io, uiState, activeChatService, inputLine,
                       lastNotification>>,
           \A q \in Peers :
             /\ Pending(todo, q) \/ Pending(posted, q) => Pending(todo', q) \/ Pending(posted', q)
             /\ chatLogsM'[q] = chatLogsM[q] \/ Pending(todo', q) \/ Pending(posted', q)
    PROVE  ScreenFollows'
<1>1. uiState = "Chat" => activeChatService \in Peers
  BY Zenon DEF Typed, TypeOK, KeysOK
<1> QED
  BY <1>1, Zenon DEF ScreenFollows, Redrawing, Pending, LastMessages

(* The screen follows after Render. *)
LEMMA FollowsRendered ==
    ASSUME Typed, ScreenFollows, io = None, Render(uiState', lastNotification'),
           UNCHANGED chatLogsM,
           uiState' \in States,
           uiState' = "FileOffer" => client' = client /\ uiState = "FileOffer"
    PROVE  ScreenFollows'
<1>1. CASE uiState' = "Chat"
  <2>1. /\ screen'.kind = "Chat" /\ screen'.banner = lastNotification'
        /\ screen'.chat = activeChatService' /\ screen'.input = inputLine'
        /\ screen'.log = LastMessages(chatLogsM[activeChatService'])
    BY <1>1, Zenon DEF Render, Draw, RenderChat, PrintAll
  <2> QED
    BY <1>1, <2>1, Zenon DEF ScreenFollows, LastMessages
<1>2. CASE uiState' = "MainMenu"
  <2>1. screen'.kind = "MainMenu" /\ screen'.banner = lastNotification'
    BY <1>2 DEF Render, Draw, PrintAll
  <2> QED
    BY <1>2, <2>1, Zenon DEF ScreenFollows
<1>3. CASE uiState' = "FileOffer"
  <2>1. CASE UNCHANGED screen
    BY <1>3, <2>1, Zenon DEF ScreenFollows
  <2>2. CASE Draw(RenderFileOffer)
    BY <1>3, <2>2, RenderedFileOffer, Zenon DEF ScreenFollows
  <2> QED
    BY <1>3, <2>1, <2>2 DEF Render
<1> QED
  BY <1>1, <1>2, <1>3 DEF States

(* A redraw stays on its way through the steps of a handler. *)
LEMMA PendingThen ==
    ASSUME TypeOK, NEW event, Then(event), event # "MESSAGE", NEW q, Pending(todo, q)
    PROVE  Pending(todo', q)
<1>1. todo \in Seq(Events \cup Mails) /\ todo # <<>> /\ todo' = Tail(todo)
  BY DEF TypeOK, QueuesOK, Then
<1>2. PICK i \in DOMAIN todo : todo[i].event = "MESSAGE" /\ todo[i].peer = q
  BY Zenon DEF Pending
<1>3. i - 1 \in DOMAIN Tail(todo) /\ Tail(todo)[i - 1] = todo[i]
  BY <1>1, <1>2, InTail, Zenon DEF Then
<1> QED
  BY <1>1, <1>2, <1>3, Zenon DEF Pending

(* A redraw that is posted is on its way. *)
LEMMA PendingAppend ==
    ASSUME TypeOK, NEW m \in Mails, posted' = Append(posted, m), NEW q,
           Pending(posted, q) \/ (m.event = "MESSAGE" /\ m.peer = q)
    PROVE  Pending(posted', q)
<1> PICK S : S = Mails \cup Jobs
  BY Zenon
<1>0. posted \in Seq(S) /\ m \in S
  BY Zenon DEF TypeOK, QueuesOK
<1>1. CASE Pending(posted, q)
  <2>1. PICK i \in DOMAIN posted : posted[i].event = "MESSAGE" /\ posted[i].peer = q
    BY <1>1, Zenon DEF Pending
  <2>2. i \in DOMAIN Append(posted, m) /\ Append(posted, m)[i] = posted[i]
    BY ONLY <1>0, <2>1, InAppend
  <2> QED
    BY <2>1, <2>2, Zenon DEF Pending
<1>2. CASE m.event = "MESSAGE" /\ m.peer = q
  <2>1. Len(posted) + 1 \in DOMAIN Append(posted, m) /\ Append(posted, m)[Len(posted) + 1] = m
    BY ONLY <1>0, InAppend
  <2> QED
    BY <1>2, <2>1, Zenon DEF Pending
<1> QED
  BY <1>1, <1>2

(* The mailbox thread keeps ScreenFollows. *)
LEMMA MailboxFollows ==
    ASSUME Typed, ScreenFollows, MailboxThread
    PROVE  ScreenFollows'
<1> DEFINE Still == UNCHANGED <<client, screen, io, uiState, activeChatService, inputLine,
                               lastNotification>>
<1>1. CASE HandlePublishedServices \/ HandleResolvedServices \/ HandleServiceDeregistration
  <2>1. Still /\ UNCHANGED <<chatLogsM, posted>> /\ todo = <<>>
    BY <1>1, Zenon DEF HandlePublishedServices, HandleResolvedServices,
                HandleServiceDeregistration, Handles, fixed, past, logs, console, keys
  <2> QED
    BY <2>1, FollowsStill DEF Pending
<1>2. CASE HandleMessageIncoming
  <2> DEFINE m == Head(inMailBox)
  <2>1. Still /\ UNCHANGED posted /\ todo = <<>> /\ m.event = "MESSAGE" /\ m.peer \in Peers
    BY <1>2, HandlesType, Zenon
    DEF Typed, HandleMessageIncoming, Handles, fixed, past, console, keys
  <2>2. \A q \in Peers : q # m.peer => chatLogsM'[q] = chatLogsM[q]
    BY <1>2, Zenon DEF Typed, TypeOK, LogsOK, HandleMessageIncoming, AddMessage
  <2>3. CASE client = "console"
    <3>1. todo' = <<m>>
      BY <1>2, <2>3 DEF HandleMessageIncoming
    <3>2. Pending(todo', m.peer)
      BY <2>1, <3>1 DEF Pending
    <3>3. \A q \in Peers : ~Pending(todo, q)
      BY <2>1 DEF Pending
    <3>4. \A q \in Peers : Pending(posted, q) => Pending(posted', q)
      BY <2>1, Zenon DEF Pending
    <3> HIDE DEF m
    <3> QED
      BY <2>1, <2>2, <3>2, <3>3, <3>4, FollowsStill, Zenon
  <2>4. CASE client # "console"
    BY <2>1, <2>4, Zenon DEF ScreenFollows
  <2> QED
    BY <2>3, <2>4
<1>3. CASE HandleFileTransferEnd
  BY <1>3, Zenon DEF HandleFileTransferEnd, ScreenFollows, fixed, past
<1>4. CASE HandleFileOffer
  <2>1. Still /\ UNCHANGED <<chatLogsM, todo>>
    BY <1>4 DEF HandleFileOffer, fixed, past, logs, console, keys
  <2>2. Head(inMailBox) \in Mails /\ posted' = Append(posted, Head(inMailBox))
    BY <1>4, HandlesType DEF Typed, HandleFileOffer
  <2>3. \A q \in Peers : Pending(posted, q) => Pending(posted', q)
    BY <2>2, PendingAppend DEF Typed
  <2>4. \A q \in Peers : Pending(todo, q) => Pending(todo', q)
    BY <2>1, Zenon DEF Pending
  <2> QED
    BY <2>1, <2>3, <2>4, FollowsStill, Zenon
<1>5. CASE PrintFromMailbox
  <2>1. CASE Then("printing") /\ UNCHANGED <<fixed, logs, posted, io, console>>
    <3>1. Still /\ UNCHANGED <<chatLogsM, posted>>
      BY <2>1, Zenon DEF fixed, past, logs, console, keys
    <3>2. \A q \in Peers : Pending(todo, q) => Pending(todo', q)
      BY <2>1, PendingThen DEF Typed
    <3>3. \A q \in Peers : Pending(posted, q) => Pending(posted', q)
      BY <3>1, Zenon DEF Pending
    <3> QED
      BY <3>1, <3>2, <3>3, FollowsStill, Zenon
  <2>2. CASE Draw([PrintAll(lastNotification) EXCEPT !.by = "mailbox"])
    <3>1. screen'.by = "mailbox"
      BY <2>2 DEF Draw, PrintAll
    <3> QED
      BY <3>1, Zenon DEF ScreenFollows
  <2> QED
    BY <1>5, <2>1, <2>2 DEF PrintFromMailbox
<1>6. CASE PostMessage
  <2>1. Still /\ UNCHANGED chatLogsM
    BY <1>6 DEF PostMessage, fixed, past, logs, console, keys
  <2>2. /\ todo \in Seq(Events \cup Mails) /\ todo # <<>> /\ todo' = Tail(todo)
        /\ Head(todo) \in Mails /\ Head(todo).event = "MESSAGE"
        /\ posted' = Append(posted, Head(todo))
    <3>1. Head(todo) \in Events \cup Mails
      BY <1>6, ThenType, Zenon DEF Typed, PostMessage
    <3> QED
      BY <1>6, <3>1, Zenon DEF PostMessage, Then, Events, Typed, TypeOK, QueuesOK
  <2>3. ASSUME NEW q \in Peers, Pending(todo, q)
        PROVE  Pending(todo', q) \/ Pending(posted', q)
    <3>1. PICK i \in DOMAIN todo : todo[i].event = "MESSAGE" /\ todo[i].peer = q
      BY <2>3 DEF Pending
    <3>2. CASE todo[i] = Head(todo)
      BY <2>2, <3>1, <3>2, PendingAppend, Zenon DEF Typed
    <3>3. CASE i - 1 \in DOMAIN Tail(todo) /\ Tail(todo)[i - 1] = todo[i]
      BY <2>2, <3>1, <3>3, Zenon DEF Pending
    <3> QED
      BY <2>2, <3>2, <3>3, InTail, Zenon
  <2>4. \A q \in Peers : Pending(posted, q) => Pending(posted', q)
    BY <2>2, PendingAppend DEF Typed
  <2> QED
    BY <2>1, <2>3, <2>4, FollowsStill, Zenon
<1>7. CASE Notify
  <2>1. Still /\ UNCHANGED <<chatLogsM, posted>>
    BY <1>7, Zenon DEF Notify, fixed, past, logs, console, keys
  <2>2. Then("PEERS") \/ Then("MESSAGES")
    BY <1>7 DEF Notify
  <2>3. \A q \in Peers : Pending(todo, q) => Pending(todo', q)
    BY <2>2, PendingThen DEF Typed
  <2>4. \A q \in Peers : Pending(posted, q) => Pending(posted', q)
    BY <2>1, Zenon DEF Pending
  <2> QED
    BY <2>1, <2>3, <2>4, FollowsStill, Zenon
<1> QED
  BY <1>1, <1>2, <1>3, <1>4, <1>5, <1>6, <1>7, Zenon DEF MailboxThread

(* After a text or a file the chat is drawn with what was logged. *)
LEMMA FollowsSent ==
    ASSUME Typed, Sending, io # None, NEW events, AfterSending(io.peer, events),
           UNCHANGED <<client, uiState, activeChatService, inputLine, lastNotification>>
    PROVE  ScreenFollows'
<1>1. CASE client = "console"
  <2>1. uiState = "Chat" /\ io.peer = activeChatService
    BY <1>1 DEF Sending
  <2>2. /\ screen'.kind = "Chat" /\ screen'.banner = lastNotification
        /\ screen'.chat = io.peer /\ screen'.input = inputLine
        /\ screen'.log = LastMessages(chatLogsM'[io.peer])
    BY <1>1, Zenon DEF AfterSending, Draw, RenderChat, PrintAll
  <2> QED
    BY <2>1, <2>2, Zenon DEF ScreenFollows, LastMessages
<1>2. CASE client # "console"
  BY <1>2, Zenon DEF ScreenFollows
<1> QED
  BY <1>1, <1>2

(* The io thread keeps ScreenFollows. *)
LEMMA IoFollows ==
    ASSUME Typed, Sending, ScreenFollows, IoThread
    PROVE  ScreenFollows'
<1>1. CASE ShowMessage
  <2>1. /\ io = None /\ UNCHANGED <<client, chatLogsM, uiState>>
        /\ uiState' \in States /\ Render(uiState', lastNotification')
    BY <1>1, Zenon DEF ShowMessage, Posted, Turn, Typed, TypeOK, ProcessOK, LogsOK,
       KeysOK, ScreenOK, fixed, past, logs, keys
  <2> QED
    BY <2>1, FollowsRendered
<1>2. CASE ShowOffer
  <2>1. uiState' = "FileOffer" /\ screen'.kind = "FileOffer"
    BY <1>2, RenderedFileOffer, Zenon DEF ShowOffer
  <2> QED
    BY <2>1, Zenon DEF ScreenFollows
<1>3. CASE SendText
  <2>1. client' = client /\ Sends(posted)
    BY <1>3, SendsHead, Zenon DEF Typed, SendText, fixed, past
  <2> QED
    BY <2>1, Zenon DEF Sending, ScreenFollows
<1>4. CASE SendDataToNode
  <2>1. /\ io # None
        /\ UNCHANGED <<client, uiState, activeChatService, inputLine, lastNotification>>
        /\ \/ AfterSending(io.peer, <<Event("MESSAGES", None)>>)
           \/ AfterSending(io.peer, <<>>)
    BY <1>4, Zenon DEF SendDataToNode, fixed, past, keys
  <2> QED
    BY <2>1, FollowsSent, Zenon
<1>5. CASE InitiateFileTransferWithSession
  <2>1. /\ io # None
        /\ UNCHANGED <<client, uiState, activeChatService, inputLine, lastNotification>>
    BY <1>5, Zenon DEF InitiateFileTransferWithSession, fixed, past, keys
  <2>2. CASE AfterSending(io.peer, <<Event("MESSAGES", None), Event("PROGRESS", None)>>)
    BY <2>1, <2>2, FollowsSent, Zenon
  <2>3. CASE UNCHANGED io
    BY <2>1, <2>3, Zenon DEF ScreenFollows
  <2> QED
    BY <1>5, <2>2, <2>3, Zenon DEF InitiateFileTransferWithSession
<1> QED
  BY <1>1, <1>2, <1>3, <1>4, <1>5, SMTT(60) DEF IoThread

(* The keys keep ScreenFollows. *)
LEMMA KeysFollow ==
    ASSUME Typed, ScreenFollows, OnKey
    PROVE  ScreenFollows'
<1>1. io = None /\ client' = client /\ chatLogsM' = chatLogsM
  BY Zenon DEF OnKey, Redraw, EnterChat, Quit, Type, LeaveChat, RedrawChat,
     SendChatLine,
         HandleFileOfferKey, Key, Turn, fixed, past, logs
<1>2. CASE \/ Redraw \/ LeaveChat \/ RedrawChat \/ HandleFileOfferKey
           \/ \E n \in 1..9 : EnterChat(n)
  <2> DEFINE Redrawn == /\ Render(uiState', lastNotification')
                        /\ uiState' \in States
                        /\ uiState' = "FileOffer" => uiState = "FileOffer"
  <2>a. ASSUME Redraw \/ LeaveChat \/ RedrawChat PROVE Redrawn
    BY <2>a, Zenon DEF Redraw, LeaveChat, RedrawChat, Key, keys, Typed, TypeOK,
       KeysOK, States
  <2>b. ASSUME HandleFileOfferKey PROVE Redrawn
    BY <2>b, Zenon DEF HandleFileOfferKey, Key, Typed, TypeOK, KeysOK
  <2>c. ASSUME NEW n \in 1..9, EnterChat(n) PROVE Redrawn
    BY <2>c DEF EnterChat, States
  <2>1. Redrawn
    BY <1>2, <2>a, <2>b, <2>c, Zenon
  <2> QED
    BY <1>1, <2>1, FollowsRendered
<1>3. CASE Quit
  <2>1. /\ UNCHANGED <<client, screen, io, uiState, activeChatService, inputLine,
                       lastNotification, chatLogsM, todo, posted>>
    BY <1>3 DEF Quit, fixed, past, logs, console, keys
  <2> QED
    BY <2>1, FollowsStill, Zenon DEF Pending
<1>4. ASSUME NEW line \in Lines \cup {None}, Type(line)
      PROVE  ScreenFollows'
  <2>1. /\ screen \in Screens /\ screen' = [screen EXCEPT !.input = line]
        /\ inputLine' = line
        /\ UNCHANGED <<client, io, uiState, activeChatService, lastNotification, chatLogsM,
                       todo, posted>>
    BY <1>4 DEF Type, Typed, TypeOK, ProcessOK, QueuesOK, LogsOK, KeysOK, ScreenOK,
       fixed, past, logs
  <2>2. /\ screen'.kind = screen.kind /\ screen'.banner = screen.banner
        /\ screen'.chat = screen.chat /\ screen'.log = screen.log
        /\ screen'.by = screen.by /\ screen'.input = line
    BY <2>1 DEF Screens
  <2> QED
    BY <2>1, <2>2 DEF ScreenFollows, Redrawing, LastMessages
<1>5. CASE SendChatLine
  <2>1. CASE io' # None
    BY <2>1, Zenon DEF ScreenFollows
  <2>2. CASE io' = None
    <3>1. uiState' = "Chat" /\ lastNotification' = lastNotification
      BY <1>5, Zenon DEF SendChatLine, Key
    <3>2. Render("Chat", lastNotification)
      <4>1. PICK e : e = Entry("me", inputLine.kind, used'.texts, inputLine.len)
        OBVIOUS
      <4>2. e \in Entries /\ activeChatService \in Peers
        BY <1>5, <4>1, SendChatLineEntry
      <4>3. [peer |-> activeChatService, entry |-> e] # None
        BY <4>2, ClientsAssumption
      <4> QED
        BY <1>5, <2>2, <4>1, <4>3, Zenon DEF SendChatLine
    <3> QED
      BY <1>1, <3>1, <3>2, FollowsRendered DEF States
  <2> QED
    BY <2>1, <2>2
<1> QED
  BY <1>2, <1>3, <1>4, <1>5 DEF OnKey

(* A session that is listed keeps ScreenFollows. *)
LEMMA ListSessionFollows ==
    ASSUME Typed, ScreenFollows, NEW q \in Peers, NEW i, ListSession(q, i)
    PROVE  ScreenFollows'
<1>1. /\ screen \in Screens
      /\ screen' = [screen EXCEPT !.stale = "yes"] \/ screen' = screen
      /\ UNCHANGED <<client, io, uiState, activeChatService, inputLine, lastNotification,
                     chatLogsM, todo, posted>>
  BY DEF ListSession, Typed, TypeOK, ProcessOK, QueuesOK, LogsOK, KeysOK, ScreenOK,
     fixed, past, logs, keys
<1>2. /\ screen'.kind = screen.kind /\ screen'.banner = screen.banner
      /\ screen'.chat = screen.chat /\ screen'.log = screen.log
      /\ screen'.by = screen.by /\ screen'.input = screen.input
  BY <1>1 DEF Screens
<1> QED
  BY <1>1, <1>2 DEF ScreenFollows, Redrawing, LastMessages

(* Every step keeps ScreenFollows. *)
LEMMA NextFollows ==
    ASSUME Typed, Sending, ScreenFollows, [Next]_vars
    PROVE  ScreenFollows'
<1> DEFINE Still == UNCHANGED <<client, screen, io, uiState, activeChatService, inputLine,
                               lastNotification, chatLogsM, todo, posted>>
<1>1. Still => ScreenFollows'
  BY FollowsStill, Zenon DEF Pending
<1>2. CASE UNCHANGED vars
  BY <1>1, <1>2, Zenon DEF vars, fixed, past, logs, console, keys
<1>3. CASE MainThread
  BY <1>1, <1>3 DEF MainThread, Dispatched, ProgressTimer, fixed, past, logs, console, keys
<1>4. CASE Environment
  <2>1. ASSUME NEW q \in Peers, NEW event, Report(event, q) \/ Arrive(event, q)
        PROVE  ScreenFollows'
    BY <1>1, <2>1, Zenon DEF Report, Arrive, fixed, past, logs, console, keys
  <2> QED
    BY <1>4, <2>1, ListSessionFollows DEF Environment
<1>5. CASE User
  <2>1. ASSUME NEW q \in Peers, Click(q)
        PROVE  ScreenFollows'
    BY <1>1, <2>1, Zenon DEF Click, fixed, past, logs, console, keys
  <2>2. ASSUME NEW line \in Lines, Send(line)
        PROVE  ScreenFollows'
    BY <2>2, Zenon DEF Send, ScreenFollows, fixed, past
  <2> QED
    BY <1>5, <2>1, <2>2, KeysFollow DEF User
<1> QED
  BY <1>2, <1>3, <1>4, <1>5, MailboxFollows, IoFollows, Zenon DEF Next

(* The console's screen, for any chats, logs and numbers of messages:      *)
(* whatever the io thread drew last belongs to the state that gets the     *)
(* next key, although messages and offers arrive in between and a text is  *)
(* sent in two steps.                                                      *)
THEOREM ScreenFollowsHolds == Spec => []ScreenFollows
<1> DEFINE Inv == Typed /\ Sending /\ ScreenFollows
<1>1. Init => Inv
  <2>1. ASSUME Init PROVE Sending /\ ScreenFollows
    <3>1. /\ posted = <<>> /\ io = None /\ screen = PrintAll(None)
          /\ uiState = "MainMenu" /\ lastNotification = None
      BY <2>1, Zenon DEF Init
    <3>2. ~Sends(posted)
      BY ONLY <3>1 DEF Sends
    <3>3. screen.kind = "MainMenu" /\ screen.banner = None
      BY ONLY <3>1 DEF PrintAll
    <3> QED
      BY ONLY <3>1, <3>2, <3>3, Zenon DEF Sending, ScreenFollows
  <2> QED
    BY <2>1, InitTyped, Zenon
<1>2. Inv /\ [Next]_vars => Inv'
  BY NextTyped, NextSending, NextFollows
<1>3. Inv => ScreenFollows
  OBVIOUS
<1> QED
  BY <1>1, <1>2, <1>3, PTL DEF Spec
-----------------------------------------------------------------------------
(* The logs are exact.  Texts are numbered as they are sent off and        *)
(* messages as they come, so what a log holds of either comes before what  *)
(* is still on its way: the text the io thread has found a session for,    *)
(* the sendings posted to it and the mail that waits.                      *)
TextsExact ==
    \A q \in Peers :
      /\ \A i, j \in Mine(q) : i < j => chatLogsM[q][i].n < chatLogsM[q][j].n
      /\ \A i, j \in DOMAIN sent[q] : i < j => sent[q][i].n < sent[q][j].n
      /\ \A i \in Mine(q) : \E j \in DOMAIN sent[q] : Written(chatLogsM[q][i], sent[q][j])
      /\ \A j \in DOMAIN sent[q] : \E i \in Mine(q) : Written(chatLogsM[q][i], sent[q][j])

MessagesExact ==
    \A q \in Peers :
      /\ \A i, j \in Theirs(q) : i < j => chatLogsM[q][i].n < chatLogsM[q][j].n
      /\ \A i \in Theirs(q), j \in Mailed(q) : chatLogsM[q][i].n < inMailBox[j].n
      /\ \A i, j \in Mailed(q) : i < j => inMailBox[i].n < inMailBox[j].n

(* What is in q's log from q, and what waits in the mailbox from q. *)
Logged(q)  == {chatLogsM[q][i] : i \in Theirs(q)}
Waiting(q) == {Coming(inMailBox[i].event, inMailBox[i].n) : i \in Mailed(q)}

MessagesKept == \A q \in Peers : arrived[q] = Logged(q) \cup Waiting(q)

(* The texts logged and written have smaller numbers. *)
Below(n) ==
    \A q \in Peers :
      /\ \A i \in Mine(q) : chatLogsM[q][i].n < n
      /\ \A j \in DOMAIN sent[q] : sent[q][j].n < n

Waits(e) == e.by = "me" /\ e.n <= used.texts /\ Below(e.n)

TextsNumbered ==
    /\ Below(used.texts + 1)
    /\ io # None => Waits(io.entry)
    /\ \A i \in DOMAIN posted : posted[i].event = "SEND" =>
         Waits(posted[i].entry) /\ (io # None => io.entry.n < posted[i].entry.n)
    /\ \A i, j \in DOMAIN posted :
         i < j /\ posted[i].event = "SEND" /\ posted[j].event = "SEND" =>
           posted[i].entry.n < posted[j].entry.n

MessagesNumbered ==
    \A q \in Peers :
      /\ \A i \in Theirs(q) : chatLogsM[q][i].n <= used.messages
      /\ \A i \in Mailed(q) : inMailBox[i].n <= used.messages

(* The three parts of LogsExact. *)
LEMMA LogsHalves == LogsExact <=> TextsExact /\ MessagesExact /\ MessagesKept
BY Zenon DEF LogsExact, TextsExact, MessagesExact, MessagesKept, Logged, Waiting

(* One of several sequences with an element appended. *)
LEMMA Added ==
    ASSUME NEW S, NEW f \in [Peers -> Seq(S)], NEW q \in Peers, NEW e \in S,
           NEW g, g = [f EXCEPT ![q] = Append(@, e)]
    PROVE  \E k \in Nat :
             /\ k \notin DOMAIN f[q] /\ DOMAIN g[q] = DOMAIN f[q] \cup {k}
             /\ g[q][k] = e
             /\ \A i \in DOMAIN f[q] : i \in Nat /\ i < k /\ g[q][i] = f[q][i]
             /\ \A p \in Peers : p # q => g[p] = f[p]
<1>1. f[q] \in Seq(S) /\ g[q] = Append(f[q], e) /\ \A p \in Peers : p # q => g[p] = f[p]
  BY SMTT(60)
<1>2. /\ DOMAIN g[q] = 1..Len(f[q]) + 1 /\ DOMAIN f[q] = 1..Len(f[q]) /\ Len(f[q]) \in Nat
      /\ \A i \in 1..Len(f[q]) : g[q][i] = f[q][i]
      /\ g[q][Len(f[q]) + 1] = e
  BY <1>1, AppendProperties
<1>3. PICK k \in Nat : k = Len(f[q]) + 1
  BY ONLY <1>2, SMTT(60)
<1>4. /\ k \notin DOMAIN f[q] /\ DOMAIN g[q] = DOMAIN f[q] \cup {k}
      /\ \A i \in DOMAIN f[q] : i \in Nat /\ i < k /\ g[q][i] = f[q][i]
  BY ONLY <1>2, <1>3, SMTT(60)
<1>5. g[q][k] = e
  BY ONLY <1>2, <1>3
<1> QED
  BY <1>1, <1>4, <1>5, Zenon

(* What adding an entry does to the texts and the messages of the logs. *)
LEMMA EntryAdded ==
    ASSUME TypeOK, NEW q \in Peers, NEW e \in Entries, AddMessage(q, e)
    PROVE  \E k \in Nat :
             /\ chatLogsM'[q][k] = e
             /\ e.by = "me" /\ e.kind = "text" => Mine(q)' = Mine(q) \cup {k}
             /\ e.by # "me" \/ e.kind # "text" => Mine(q)' = Mine(q)
             /\ e.by = "peer" => Theirs(q)' = Theirs(q) \cup {k}
             /\ e.by # "peer" => Theirs(q)' = Theirs(q)
             /\ \A i \in Mine(q) \cup Theirs(q) :
                  i \in Nat /\ i < k /\ chatLogsM'[q][i] = chatLogsM[q][i]
             /\ \A p \in Peers : p # q =>
                  chatLogsM'[p] = chatLogsM[p] /\ Mine(p)' = Mine(p) /\ Theirs(p)' = Theirs(p)
<1>0. /\ chatLogsM \in [Peers -> Seq(Entries)] /\ q \in Peers /\ e \in Entries
      /\ chatLogsM' = [chatLogsM EXCEPT ![q] = Append(@, e)]
  BY Zenon DEF TypeOK, LogsOK, AddMessage
<1>1. PICK k \in Nat :
        /\ k \notin DOMAIN chatLogsM[q]
        /\ DOMAIN chatLogsM'[q] = DOMAIN chatLogsM[q] \cup {k}
        /\ chatLogsM'[q][k] = e
        /\ \A i \in DOMAIN chatLogsM[q] :
             i \in Nat /\ i < k /\ chatLogsM'[q][i] = chatLogsM[q][i]
        /\ \A p \in Peers : p # q => chatLogsM'[p] = chatLogsM[p]
  BY ONLY <1>0, Added, SMTT(60)
<1>2. /\ e.by = "me" /\ e.kind = "text" => Mine(q)' = Mine(q) \cup {k}
      /\ e.by # "me" \/ e.kind # "text" => Mine(q)' = Mine(q)
  BY ONLY <1>1, Zenon DEF Mine
<1>3. /\ e.by = "peer" => Theirs(q)' = Theirs(q) \cup {k}
      /\ e.by # "peer" => Theirs(q)' = Theirs(q)
  BY ONLY <1>1, Zenon DEF Theirs
<1>4. \A i \in Mine(q) \cup Theirs(q) :
        i \in Nat /\ i < k /\ chatLogsM'[q][i] = chatLogsM[q][i]
  BY ONLY <1>1, Zenon DEF Mine, Theirs
<1>5. \A p \in Peers : p # q =>
        chatLogsM'[p] = chatLogsM[p] /\ Mine(p)' = Mine(p) /\ Theirs(p)' = Theirs(p)
  BY ONLY <1>1, Zenon DEF Mine, Theirs
<1> QED
  BY <1>1, <1>2, <1>3, <1>4, <1>5, Zenon
-----------------------------------------------------------------------------
(* The texts of the logs are as before. *)
TextsSame ==
    \A q \in Peers :
      /\ sent'[q] = sent[q] /\ Mine(q)' = Mine(q)
      /\ \A i \in Mine(q) : chatLogsM'[q][i] = chatLogsM[q][i]

(* Then they stay exact, and below what they were below. *)
LEMMA TextsStill ==
    ASSUME TextsExact, TextsSame
    PROVE  TextsExact' /\ \A n : Below(n) => Below(n)'
<1>1. \A n : Below(n) => Below(n)'
  BY ZenonT(60) DEF TextsSame, Below
<1>2. ASSUME NEW q \in Peers
      PROVE  /\ \A i, j \in Mine(q)' : i < j => chatLogsM'[q][i].n < chatLogsM'[q][j].n
             /\ \A i, j \in DOMAIN sent'[q] : i < j => sent'[q][i].n < sent'[q][j].n
  BY <1>2, ZenonT(60) DEF TextsSame, TextsExact
<1>3. ASSUME NEW q \in Peers, NEW i \in Mine(q)'
      PROVE  \E j \in DOMAIN sent'[q] : Written(chatLogsM'[q][i], sent'[q][j])
  <2>1. sent'[q] = sent[q] /\ i \in Mine(q) /\ chatLogsM'[q][i] = chatLogsM[q][i]
    BY <1>3, Zenon DEF TextsSame
  <2>2. \E j \in DOMAIN sent[q] : Written(chatLogsM[q][i], sent[q][j])
    BY <2>1, Zenon DEF TextsExact
  <2> QED
    BY ONLY <2>1, <2>2, Zenon
<1>4. ASSUME NEW q \in Peers, NEW j \in DOMAIN sent'[q]
      PROVE  \E i \in Mine(q)' : Written(chatLogsM'[q][i], sent'[q][j])
  <2>1. /\ sent'[q] = sent[q] /\ Mine(q)' = Mine(q)
        /\ \A i \in Mine(q) : chatLogsM'[q][i] = chatLogsM[q][i]
    BY <1>4, Zenon DEF TextsSame
  <2>2. \E i \in Mine(q) : Written(chatLogsM[q][i], sent[q][j])
    BY <1>4, <2>1, Zenon DEF TextsExact
  <2> QED
    BY ONLY <2>1, <2>2, Zenon
<1>5. TextsExact'
  BY <1>2, <1>3, <1>4, Zenon DEF TextsExact, Written
<1> QED
  BY <1>1, <1>5

(* A text that is written and logged in one step stays exact, if the ones  *)
(* before it have smaller numbers.                                         *)
LEMMA TextWritten ==
    ASSUME Typed, TextsExact, NEW q \in Peers, NEW e \in Entries,
           e.by = "me", e.kind = "text", Below(e.n), AddMessage(q, e),
           sent' = [sent EXCEPT ![q] = Append(@, ConstructChatMessageFromInput(e))]
    PROVE  TextsExact' /\ \A n \in Nat : Below(n) /\ e.n < n => Below(n)'
<1> DEFINE t == ConstructChatMessageFromInput(e)
<1>1. t \in Entries /\ t.n = e.n /\ Written(e, t)
  BY ClientsAssumption DEF ConstructChatMessageFromInput, Entries, Written
<1> HIDE DEF t
<1>2. PICK k \in Nat :
        /\ chatLogsM'[q][k] = e
        /\ Mine(q)' = Mine(q) \cup {k}
        /\ \A i \in Mine(q) : i \in Nat /\ i < k /\ chatLogsM'[q][i] = chatLogsM[q][i]
        /\ \A p \in Peers : p # q => chatLogsM'[p] = chatLogsM[p] /\ Mine(p)' = Mine(p)
  <2>1. TypeOK /\ q \in Peers /\ e \in Entries /\ AddMessage(q, e)
    BY Zenon DEF Typed
  <2>2. \E k \in Nat :
          /\ chatLogsM'[q][k] = e
          /\ e.by = "me" /\ e.kind = "text" => Mine(q)' = Mine(q) \cup {k}
          /\ \A i \in Mine(q) \cup Theirs(q) :
               i \in Nat /\ i < k /\ chatLogsM'[q][i] = chatLogsM[q][i]
          /\ \A p \in Peers : p # q => chatLogsM'[p] = chatLogsM[p] /\ Mine(p)' = Mine(p)
    BY ONLY <2>1, EntryAdded, ZenonT(60)
  <2> QED
    BY <2>2, Zenon
<1>a. /\ sent \in [Peers -> Seq(Entries)] /\ q \in Peers /\ t \in Entries
      /\ sent' = [sent EXCEPT ![q] = Append(@, t)]
  BY <1>1, Zenon DEF Typed, TypeOK, LogsOK, t
<1>3. PICK l \in Nat :
        /\ l \notin DOMAIN sent[q] /\ DOMAIN sent'[q] = DOMAIN sent[q] \cup {l}
        /\ sent'[q][l] = t
        /\ \A j \in DOMAIN sent[q] : j \in Nat /\ j < l /\ sent'[q][j] = sent[q][j]
        /\ \A p \in Peers : p # q => sent'[p] = sent[p]
  BY ONLY <1>a, Added, SMTT(60)
<1>4. ASSUME NEW n \in Nat, Below(n), e.n < n PROVE Below(n)'
  <2>1. ASSUME NEW p \in Peers, NEW i \in Mine(p)' PROVE chatLogsM'[p][i].n < n
    <3>1. CASE p # q
      BY <1>2, <1>4, <2>1, <3>1, Zenon DEF Below
    <3>2. CASE p = q /\ i = k
      BY ONLY <1>2, <1>4, <3>2, Zenon
    <3>3. CASE p = q /\ i \in Mine(q)
      BY <1>2, <1>4, <3>3, Zenon DEF Below
    <3> QED
      BY ONLY <1>2, <2>1, <3>1, <3>2, <3>3, Zenon
  <2>2. ASSUME NEW p \in Peers, NEW j \in DOMAIN sent'[p] PROVE sent'[p][j].n < n
    <3>1. CASE p # q
      BY <1>3, <1>4, <2>2, <3>1, Zenon DEF Below
    <3>2. CASE p = q /\ j = l
      BY ONLY <1>1, <1>3, <1>4, <3>2, Zenon
    <3>3. CASE p = q /\ j \in DOMAIN sent[q]
      BY <1>3, <1>4, <3>3, ZenonT(60) DEF Below
    <3> QED
      BY ONLY <1>3, <2>2, <3>1, <3>2, <3>3, Zenon
  <2> QED
    BY <2>1, <2>2, Zenon DEF Below
<1>5. ASSUME NEW p \in Peers, NEW i \in Mine(p)', NEW j \in Mine(p)', i < j
      PROVE  chatLogsM'[p][i].n < chatLogsM'[p][j].n
  <2>1. CASE p # q
    BY <1>2, <1>5, <2>1, Zenon DEF TextsExact
  <2>2. CASE p = q
    <3>1. i \in Mine(q)
      BY ONLY <1>2, <1>5, <2>2, LessOnce, Zenon
    <3>2. CASE j = k
      BY <1>2, <2>2, <3>1, <3>2, Zenon DEF Below
    <3>3. CASE j \in Mine(q)
      BY <1>2, <1>5, <2>2, <3>1, <3>3, Zenon DEF TextsExact
    <3> QED
      BY ONLY <1>2, <1>5, <2>2, <3>2, <3>3, Zenon
  <2> QED
    BY <2>1, <2>2
<1>6. ASSUME NEW p \in Peers, NEW i \in DOMAIN sent'[p], NEW j \in DOMAIN sent'[p], i < j
      PROVE  sent'[p][i].n < sent'[p][j].n
  <2>1. CASE p # q
    BY <1>3, <1>6, <2>1, Zenon DEF TextsExact
  <2>2. CASE p = q
    <3>1. i \in DOMAIN sent[q]
      BY ONLY <1>3, <1>6, <2>2, LessOnce, Zenon
    <3>2. CASE j = l
      <4>1. sent[q][i].n < e.n
        BY <3>1, Zenon DEF Below
      <4> QED
        BY ONLY <1>1, <1>3, <2>2, <3>1, <3>2, <4>1, Zenon
    <3>3. CASE j \in DOMAIN sent[q]
      <4>1. sent[q][i].n < sent[q][j].n
        BY <1>6, <3>1, <3>3, Zenon DEF TextsExact
      <4> QED
        BY ONLY <1>3, <2>2, <3>1, <3>3, <4>1, Zenon
    <3> QED
      BY ONLY <1>3, <1>6, <2>2, <3>2, <3>3, Zenon
  <2> QED
    BY <2>1, <2>2, Zenon
<1>7. ASSUME NEW p \in Peers, NEW i \in Mine(p)'
      PROVE  \E j \in DOMAIN sent'[p] : Written(chatLogsM'[p][i], sent'[p][j])
  <2>1. CASE p # q
    <3>1. i \in Mine(p) /\ chatLogsM'[p] = chatLogsM[p] /\ sent'[p] = sent[p]
      BY ONLY <1>2, <1>3, <1>7, <2>1, Zenon
    <3>2. PICK j \in DOMAIN sent[p] : Written(chatLogsM[p][i], sent[p][j])
      BY <3>1, Zenon DEF TextsExact
    <3> QED
      BY ONLY <3>1, <3>2, Zenon
  <2>2. CASE p = q /\ i = k
    BY <1>1, <1>2, <1>3, <2>2, Zenon
  <2>3. CASE p = q /\ i \in Mine(q)
    <3>1. PICK j \in DOMAIN sent[q] : Written(chatLogsM[q][i], sent[q][j])
      BY <2>3, Zenon DEF TextsExact
    <3> QED
      BY ONLY <1>2, <1>3, <2>3, <3>1, Zenon
  <2> QED
    BY ONLY <1>2, <1>7, <2>1, <2>2, <2>3, Zenon
<1>8. ASSUME NEW p \in Peers, NEW j \in DOMAIN sent'[p]
      PROVE  \E i \in Mine(p)' : Written(chatLogsM'[p][i], sent'[p][j])
  <2>1. CASE p # q
    <3>1. Mine(p)' = Mine(p) /\ chatLogsM'[p] = chatLogsM[p] /\ sent'[p] = sent[p]
      BY ONLY <1>2, <1>3, <1>8, <2>1, Zenon
    <3>2. PICK i \in Mine(p) : Written(chatLogsM[p][i], sent[p][j])
      BY <1>8, <3>1, Zenon DEF TextsExact
    <3> QED
      BY ONLY <3>1, <3>2, Zenon
  <2>2. CASE p = q /\ j = l
    BY <1>1, <1>2, <1>3, <2>2, Zenon
  <2>3. CASE p = q /\ j \in DOMAIN sent[q]
    <3>1. PICK i \in Mine(q) : Written(chatLogsM[q][i], sent[q][j])
      BY <2>3, Zenon DEF TextsExact
    <3> QED
      BY ONLY <1>2, <1>3, <2>3, <3>1, Zenon
  <2> QED
    BY ONLY <1>3, <1>8, <2>1, <2>2, <2>3, Zenon
<1>9. TextsExact'
  BY <1>5, <1>6, <1>7, <1>8, Zenon DEF TextsExact, Written
<1> QED
  BY <1>4, <1>9
-----------------------------------------------------------------------------
(* What is below a number is below a greater one. *)
LEMMA BelowUp ==
    ASSUME TypeOK, NEW m \in Nat, NEW n \in Nat, m <= n, Below(m)
    PROVE  Below(n)
<1>1. ASSUME NEW q \in Peers, NEW i \in Mine(q) PROVE chatLogsM[q][i].n < n
  <2>1. chatLogsM[q] \in Seq(Entries) /\ i \in DOMAIN chatLogsM[q]
    BY <1>1, Zenon DEF TypeOK, LogsOK, Mine
  <2>2. chatLogsM[q][i] \in Entries
    BY ONLY <2>1
  <2>3. chatLogsM[q][i].n \in Nat
    BY ONLY <2>2 DEF Entries
  <2>4. chatLogsM[q][i].n < m
    BY <1>1, Zenon DEF Below
  <2> QED
    BY ONLY <2>3, <2>4, m \in Nat, n \in Nat, m <= n
<1>2. ASSUME NEW q \in Peers, NEW j \in DOMAIN sent[q] PROVE sent[q][j].n < n
  <2>1. sent[q] \in Seq(Entries) /\ j \in DOMAIN sent[q]
    BY <1>2, Zenon DEF TypeOK, LogsOK
  <2>2. sent[q][j] \in Entries
    BY ONLY <2>1
  <2>3. sent[q][j].n \in Nat
    BY ONLY <2>2 DEF Entries
  <2>4. sent[q][j].n < m
    BY <1>2, Zenon DEF Below
  <2> QED
    BY ONLY <2>3, <2>4, m \in Nat, n \in Nat, m <= n
<1> QED
  BY <1>1, <1>2, Zenon DEF Below

(* The sendings still posted are ones that were, in the order they were. *)
JobsMoved(h) ==
    /\ \A i \in DOMAIN posted' : posted'[i].event = "SEND" =>
         h[i] \in DOMAIN posted /\ posted'[i] = posted[h[i]]
    /\ \A i, j \in DOMAIN posted' : i < j => h[i] < h[j]

(* So it is when what is posted is no sending, *)
LEMMA JobsAppend ==
    ASSUME TypeOK, NEW m \in Mails, posted' = Append(posted, m)
    PROVE  \E h : JobsMoved(h)
<1>1. posted \in Seq(Mails \cup Jobs) /\ m.event # "SEND" /\ m \in Mails \cup Jobs
  BY DEF TypeOK, QueuesOK, Mails
<1>2. PICK h : h = [i \in DOMAIN posted' |-> i]
  BY Zenon
<1>3. \A i \in DOMAIN posted' : h[i] = i
  BY ONLY <1>2, Zenon
<1>4. \A i \in DOMAIN posted' : posted'[i] = m \/ (i \in DOMAIN posted /\ posted'[i] = posted[i])
  BY <1>1, InAppend
<1>5. JobsMoved(h)
  BY ONLY <1>1, <1>3, <1>4, Zenon DEF JobsMoved
<1> QED
  BY <1>5, Zenon

(* and when the head is taken. *)
LEMMA JobsTail ==
    ASSUME TypeOK, NEW event, Posted(event)
    PROVE  /\ posted # <<>> /\ 1 \in DOMAIN posted /\ Head(posted) = posted[1]
           /\ \E h : /\ JobsMoved(h)
                     /\ \A i \in DOMAIN posted' : h[i] \in DOMAIN posted /\ 1 < h[i]
<1>1. posted \in Seq(Mails \cup Jobs) /\ posted # <<>> /\ posted' = Tail(posted)
  BY Zenon DEF TypeOK, QueuesOK, Posted
<1>2. 1 \in DOMAIN posted /\ Head(posted) = posted[1]
  BY ONLY <1>1
<1>3. DOMAIN Tail(posted) \subseteq Nat \ {0}
  BY ONLY <1>1
<1>4. PICK h : h = [i \in DOMAIN Tail(posted) |-> i + 1]
  BY Zenon
<1>5. \A i \in DOMAIN Tail(posted) : h[i] = i + 1
  BY ONLY <1>4, Zenon
<1>6. \A i \in DOMAIN Tail(posted) : h[i] \in DOMAIN posted /\ Tail(posted)[i] = posted[h[i]]
  BY ONLY <1>1, <1>5, OfTail, Zenon
<1>7. /\ \A i, j \in DOMAIN Tail(posted) : i < j => h[i] < h[j]
      /\ \A i \in DOMAIN Tail(posted) : 1 < h[i]
  BY ONLY <1>3, <1>5
<1>8. JobsMoved(h)
  BY ONLY <1>1, <1>6, <1>7, Zenon DEF JobsMoved
<1> QED
  BY ONLY <1>1, <1>2, <1>6, <1>7, <1>8, Zenon

(* The numbers of the texts stay right while nothing is written and        *)
(* nothing is sent off.                                                    *)
LEMMA NumbersStill ==
    ASSUME TextsNumbered, \A n : Below(n) => Below(n)', used'.texts = used.texts,
           io' = None \/ io' = io, NEW h, JobsMoved(h)
    PROVE  TextsNumbered'
<1>1. ASSUME NEW e, Waits(e) PROVE Waits(e)'
  BY <1>1, Zenon DEF Waits
<1>2. Below(used.texts + 1)'
  BY Zenon DEF TextsNumbered
<1>3. io' # None => Waits(io.entry)'
  BY <1>1, Zenon DEF TextsNumbered, Waits
<1>4. ASSUME NEW i \in DOMAIN posted', posted'[i].event = "SEND"
      PROVE  Waits(posted[i].entry)' /\ (io' # None => io'.entry.n < posted'[i].entry.n)
  <2>1. h[i] \in DOMAIN posted /\ posted'[i] = posted[h[i]]
    BY <1>4, Zenon DEF JobsMoved
  <2>2. Waits(posted[h[i]].entry) /\ (io # None => io.entry.n < posted[h[i]].entry.n)
    BY <1>4, <2>1, Zenon DEF TextsNumbered
  <2> QED
    BY <2>1, <2>2, Zenon DEF Waits
<1>5. ASSUME NEW i \in DOMAIN posted', NEW j \in DOMAIN posted', i < j,
             posted'[i].event = "SEND", posted'[j].event = "SEND"
      PROVE  posted'[i].entry.n < posted'[j].entry.n
  <2>1. /\ h[i] \in DOMAIN posted /\ posted'[i] = posted[h[i]]
        /\ h[j] \in DOMAIN posted /\ posted'[j] = posted[h[j]] /\ h[i] < h[j]
    BY <1>5, Zenon DEF JobsMoved
  <2>2. posted[h[i]].entry.n < posted[h[j]].entry.n
    BY <1>5, <2>1, Zenon DEF TextsNumbered
  <2> QED
    BY ONLY <2>1, <2>2, Zenon
<1> QED
  BY <1>2, <1>3, <1>4, <1>5, Zenon DEF TextsNumbered

(* What is posted stays as it is. *)
LEMMA JobsSame ==
    ASSUME posted' = posted
    PROVE  \E h : JobsMoved(h)
<1>1. PICK h : h = [i \in DOMAIN posted |-> i]
  BY Zenon
<1>2. \A i \in DOMAIN posted : h[i] = i
  BY ONLY <1>1, Zenon
<1>3. JobsMoved(h)
  BY <1>2, Zenon DEF JobsMoved
<1> QED
  BY <1>3, Zenon

(* A step that sends nothing off and writes nothing. *)
LEMMA TextsStep ==
    ASSUME TextsExact, TextsNumbered, TextsSame, used'.texts = used.texts,
           io' = None \/ io' = io, \E h : JobsMoved(h)
    PROVE  TextsExact' /\ TextsNumbered'
<1>1. TextsExact' /\ \A n : Below(n) => Below(n)'
  BY TextsStill, Zenon
<1>2. PICK h : JobsMoved(h)
  BY Zenon
<1>3. TextsNumbered'
  BY <1>1, <1>2, NumbersStill, Zenon
<1> QED
  BY <1>1, <1>3, Zenon

(* Logs that are left alone. *)
LEMMA TextsUnlogged ==
    ASSUME UNCHANGED <<chatLogsM, sent>>
    PROVE  TextsSame
BY Zenon DEF TextsSame, Mine

(* An entry that is no text of this machine's. *)
LEMMA TextsAside ==
    ASSUME TypeOK, NEW q \in Peers, NEW e \in Entries, AddMessage(q, e),
           e.by # "me" \/ e.kind # "text", sent' = sent
    PROVE  TextsSame
<1>1. TypeOK /\ q \in Peers /\ e \in Entries /\ AddMessage(q, e)
  OBVIOUS
<1>2. PICK k \in Nat :
        /\ e.by # "me" \/ e.kind # "text" => Mine(q)' = Mine(q)
        /\ \A i \in Mine(q) \cup Theirs(q) :
             i \in Nat /\ i < k /\ chatLogsM'[q][i] = chatLogsM[q][i]
        /\ \A p \in Peers : p # q => chatLogsM'[p] = chatLogsM[p] /\ Mine(p)' = Mine(p)
  BY ONLY <1>1, EntryAdded, Zenon
<1>3. ASSUME NEW p \in Peers
      PROVE  Mine(p)' = Mine(p) /\ \A i \in Mine(p) : chatLogsM'[p][i] = chatLogsM[p][i]
  <2>1. CASE p = q
    BY <1>2, <2>1, Zenon
  <2>2. CASE p # q
    BY <1>2, <1>3, <2>2, Zenon
  <2> QED
    BY <2>1, <2>2
<1> QED
  BY <1>3, Zenon DEF TextsSame

(* The entry of a sending that is posted. *)
LEMMA JobEntry ==
    ASSUME TypeOK, NEW i \in DOMAIN posted, posted[i].event = "SEND"
    PROVE  /\ posted[i].peer \in Peers /\ posted[i].entry \in Entries
           /\ posted[i].entry.n \in Nat
<1>1. posted \in Seq(Mails \cup Jobs)
  BY Zenon DEF TypeOK, QueuesOK
<1>2. posted[i] \in Mails \cup Jobs
  BY ONLY <1>1, i \in DOMAIN posted
<1>3. posted[i] \in Jobs
  BY ONLY <1>2, posted[i].event = "SEND" DEF Mails
<1>4. posted[i].peer \in Peers /\ posted[i].entry \in Entries
  BY ONLY <1>3 DEF Jobs
<1>5. posted[i].entry.n \in Nat
  BY ONLY <1>4 DEF Entries
<1> QED
  BY <1>4, <1>5

(* The entry of the text or the file a session was found for. *)
LEMMA IoEntry ==
    ASSUME TypeOK, io # None
    PROVE  io.peer \in Peers /\ io.entry \in Entries /\ io.entry.n \in Nat
<1>1. io \in [peer : Peers, entry : Entries]
  BY Zenon DEF TypeOK, LogsOK
<1>2. io.peer \in Peers /\ io.entry \in Entries
  BY ONLY <1>1
<1> QED
  BY <1>2 DEF Entries

(* How the texts are counted. *)
LEMMA TextUsed ==
    ASSUME TypeOK
    PROVE  /\ used.texts \in Nat
           /\ Use("texts") => used'.texts = used.texts + 1
           /\ \A k \in Kinds : k # "texts" /\ Use(k) => used'.texts = used.texts
BY DEF TypeOK, ProcessOK, Use, Kinds

(* A text that waits goes on waiting when another is counted. *)
LEMMA WaitsOn ==
    ASSUME TypeOK, Use("texts"), \A n : Below(n) => Below(n)', NEW e \in Entries, Waits(e)
    PROVE  Waits(e)' /\ e.n < used'.texts
<1>1. e.n \in Nat /\ used.texts \in Nat /\ used'.texts = used.texts + 1
  BY TextUsed DEF Entries
<1>2. e.by = "me" /\ e.n <= used.texts /\ Below(e.n)'
  BY Zenon DEF Waits
<1>3. e.n <= used'.texts /\ e.n < used'.texts
  BY ONLY <1>1, <1>2
<1> QED
  BY <1>2, <1>3, Zenon DEF Waits

(* The number of the next text is above all that are in the logs, and the  *)
(* one after it is.                                                        *)
LEMMA NextNumber ==
    ASSUME TypeOK, TextsNumbered, Use("texts"), \A n : Below(n) => Below(n)'
    PROVE  Below(used.texts)' /\ Below(used.texts + 1)'
<1>1. used.texts \in Nat /\ used'.texts = used.texts + 1 /\ Below(used.texts + 1)
  BY TextUsed, Zenon DEF TextsNumbered
<1>2. /\ used.texts + 1 \in Nat /\ (used.texts + 1) + 1 \in Nat
      /\ used.texts + 1 <= (used.texts + 1) + 1
  BY ONLY <1>1
<1>3. Below((used.texts + 1) + 1)
  BY ONLY TypeOK, <1>1, <1>2, BelowUp, Zenon
<1>4. PICK m : m = used.texts + 1
  BY Zenon
<1>5. Below(m)' /\ Below(m + 1)' /\ used'.texts = m
  BY <1>1, <1>3, <1>4, Zenon
<1> QED
  BY ONLY <1>5, Zenon DEF Below
-----------------------------------------------------------------------------
(* The mailbox thread keeps the texts exact: what it logs is the peers'. *)
LEMMA MailboxTexts ==
    ASSUME Typed, TextsExact, TextsNumbered, MailboxThread
    PROVE  TextsExact' /\ TextsNumbered'
<1>1. used'.texts = used.texts /\ io' = io /\ sent' = sent
  BY Zenon DEF MailboxThread, HandlePublishedServices, HandleResolvedServices,
     HandleServiceDeregistration, HandleMessageIncoming, HandleFileOffer,
     HandleFileTransferEnd, PrintFromMailbox, PostMessage, Notify, logs
<1>2. TextsSame
  <2>1. CASE HandleMessageIncoming \/ HandleFileTransferEnd
    <3>1. PICK kind \in {"text", "file"} :
            /\ Head(inMailBox).peer \in Peers /\ Head(inMailBox).n \in Nat
            /\ AddMessage(Head(inMailBox).peer, Entry("peer", kind, Head(inMailBox).n, 0))
      BY <2>1, HandlesType, Zenon DEF Typed, HandleMessageIncoming, HandleFileTransferEnd
    <3>2. PICK e : e = Entry("peer", kind, Head(inMailBox).n, 0)
      BY Zenon
    <3>3. e \in Entries /\ e.by # "me"
      BY <3>1, <3>2 DEF Entry, Entries
    <3> QED
      BY <1>1, <3>1, <3>2, <3>3, TextsAside, Zenon DEF Typed
  <2>2. CASE ~HandleMessageIncoming /\ ~HandleFileTransferEnd
    <3>1. UNCHANGED <<chatLogsM, sent>>
      BY <2>2, Zenon DEF MailboxThread, HandlePublishedServices, HandleResolvedServices,
         HandleServiceDeregistration, HandleFileOffer, PrintFromMailbox, PostMessage,
         Notify, logs
    <3> QED
      BY <3>1, TextsUnlogged, Zenon
  <2> QED
    BY <2>1, <2>2
<1>3. \E h : JobsMoved(h)
  <2>1. CASE HandleFileOffer
    <3>1. Head(inMailBox) \in Mails /\ posted' = Append(posted, Head(inMailBox))
      BY <2>1, HandlesType, Zenon DEF Typed, HandleFileOffer
    <3> QED
      BY <3>1, JobsAppend, Zenon DEF Typed
  <2>2. CASE PostMessage
    <3>1. Head(todo) \in Events \cup Mails /\ Head(todo).event = "MESSAGE"
      BY <2>2, ThenType DEF Typed, PostMessage, Then
    <3>2. Head(todo) \in Mails /\ posted' = Append(posted, Head(todo))
      BY <2>2, <3>1 DEF PostMessage, Events
    <3> QED
      BY <3>2, JobsAppend, Zenon DEF Typed
  <2>3. CASE ~HandleFileOffer /\ ~PostMessage
    <3>1. posted' = posted
      BY <2>3, Zenon DEF MailboxThread, HandlePublishedServices, HandleResolvedServices,
         HandleServiceDeregistration, HandleMessageIncoming, HandleFileTransferEnd,
         PrintFromMailbox, Notify
    <3> QED
      BY <3>1, JobsSame, Zenon
  <2> QED
    BY <2>1, <2>2, <2>3
<1> QED
  BY <1>1, <1>2, <1>3, TextsStep, Zenon

(* SendText takes the posted sending with the smallest number. *)
LEMMA SendTextTexts ==
    ASSUME Typed, TextsExact, TextsNumbered, SendText
    PROVE  TextsExact' /\ TextsNumbered'
<1>1. Posted("SEND") /\ UNCHANGED <<used, chatLogsM, sent>> /\ TypeOK
  BY Zenon DEF SendText, logs, Typed
<1>2. TextsExact' /\ \A n : Below(n) => Below(n)'
  BY <1>1, TextsStill, TextsUnlogged, Zenon
<1>3. /\ 1 \in DOMAIN posted /\ Head(posted) = posted[1]
      /\ \E h : /\ JobsMoved(h)
                /\ \A i \in DOMAIN posted' : h[i] \in DOMAIN posted /\ 1 < h[i]
  BY <1>1, JobsTail, Zenon
<1>4. PICK h : /\ JobsMoved(h)
               /\ \A i \in DOMAIN posted' : h[i] \in DOMAIN posted /\ 1 < h[i]
  BY <1>3, Zenon
<1>5. posted[1].event = "SEND" /\ (io' = None \/ io'.entry = posted[1].entry)
  BY <1>3 DEF SendText, Posted
<1>6. ASSUME NEW e, Waits(e) PROVE Waits(e)'
  BY <1>1, <1>2, <1>6, Zenon DEF Waits
<1>7. Below(used.texts + 1)'
  BY <1>1, <1>2, Zenon DEF TextsNumbered
<1>8. io' # None => Waits(io.entry)'
  <2>1. Waits(posted[1].entry)
    BY <1>3, <1>5, Zenon DEF TextsNumbered
  <2>2. PICK e : e = posted[1].entry
    BY Zenon
  <2>3. Waits(e)'
    BY <1>6, <2>1, <2>2, Zenon
  <2>4. io' # None => io'.entry = e
    BY <1>5, <2>2, Zenon
  <2> QED
    BY ONLY <2>3, <2>4, Zenon DEF Waits, Below
<1>9. ASSUME NEW i \in DOMAIN posted', posted'[i].event = "SEND"
      PROVE  Waits(posted[i].entry)' /\ (io' # None => io'.entry.n < posted'[i].entry.n)
  <2>1. h[i] \in DOMAIN posted /\ posted'[i] = posted[h[i]] /\ 1 < h[i]
    BY <1>4, <1>9, Zenon DEF JobsMoved
  <2>2. Waits(posted[h[i]].entry) /\ posted[1].entry.n < posted[h[i]].entry.n
    BY <1>3, <1>5, <1>9, <2>1, Zenon DEF TextsNumbered
  <2>3. PICK e : e = posted[h[i]].entry
    BY Zenon
  <2>4. Waits(e)' /\ posted'[i].entry = e
    BY <1>6, <2>1, <2>2, <2>3, Zenon
  <2>5. Waits(posted[i].entry)'
    BY ONLY <2>4, Zenon DEF Waits, Below
  <2>6. io' # None => io'.entry.n < posted'[i].entry.n
    BY ONLY <1>5, <2>1, <2>2, Zenon
  <2> QED
    BY <2>5, <2>6
<1>10. ASSUME NEW i \in DOMAIN posted', NEW j \in DOMAIN posted', i < j,
              posted'[i].event = "SEND", posted'[j].event = "SEND"
       PROVE  posted'[i].entry.n < posted'[j].entry.n
  <2>1. /\ h[i] \in DOMAIN posted /\ posted'[i] = posted[h[i]]
        /\ h[j] \in DOMAIN posted /\ posted'[j] = posted[h[j]] /\ h[i] < h[j]
    BY <1>4, <1>10, Zenon DEF JobsMoved
  <2>2. posted[h[i]].entry.n < posted[h[j]].entry.n
    BY <1>10, <2>1, Zenon DEF TextsNumbered
  <2> QED
    BY ONLY <2>1, <2>2, Zenon
<1> QED
  BY <1>2, <1>7, <1>8, <1>9, <1>10, Zenon DEF TextsNumbered

(* SendDataToNode writes and logs the text that was found a session for,   *)
(* or neither.                                                             *)
LEMMA SendDataToNodeTexts ==
    ASSUME Typed, TextsExact, TextsNumbered, SendDataToNode
    PROVE  TextsExact' /\ TextsNumbered'
<1>1. UNCHANGED <<used, posted>> /\ io' = None /\ io # None /\ io.entry.kind = "text" /\ TypeOK
  BY Zenon DEF SendDataToNode, Typed
<1>2. CASE ~GetSessionIDFromServiceName(io.peer)
  <2>1. UNCHANGED <<chatLogsM, sent>>
    BY <1>2, Zenon DEF SendDataToNode, logs
  <2> QED
    BY <1>1, <2>1, TextsUnlogged, JobsSame, TextsStep, Zenon
<1>3. CASE GetSessionIDFromServiceName(io.peer)
  <2>1. io.peer \in Peers /\ io.entry \in Entries /\ io.entry.n \in Nat
    BY <1>1, IoEntry, Zenon
  <2>2. io.entry.by = "me" /\ io.entry.n <= used.texts /\ Below(io.entry.n)
    BY <1>1, Zenon DEF TextsNumbered, Waits
  <2>3. /\ AddMessage(io.peer, io.entry)
        /\ sent' = [sent EXCEPT ![io.peer] = Append(@, ConstructChatMessageFromInput(io.entry))]
    BY <1>3, Zenon DEF SendDataToNode
  <2>4. PICK q, e : q = io.peer /\ e = io.entry
    BY Zenon
  <2>5. TextsExact' /\ \A n \in Nat : Below(n) /\ e.n < n => Below(n)'
    BY <1>1, <2>1, <2>2, <2>3, <2>4, TextWritten, Zenon
  <2>6. used.texts \in Nat /\ used.texts + 1 \in Nat /\ e.n < used.texts + 1
    <3>1. used.texts \in Nat
      BY <1>1, TextUsed, Zenon
    <3> QED
      BY ONLY <3>1, <2>1, <2>2, <2>4
  <2>7. Below(used.texts + 1)'
    <3>1. PICK m : m = used.texts + 1
      BY Zenon
    <3>2. Below(m)' /\ used'.texts + 1 = m
      BY <1>1, <2>5, <2>6, <3>1, Zenon DEF TextsNumbered
    <3> QED
      BY ONLY <3>2, Zenon DEF Below
  <2>8. ASSUME NEW i \in DOMAIN posted, posted[i].event = "SEND"
        PROVE  Waits(posted[i].entry)'
    <3>1. /\ posted[i].entry.n \in Nat /\ Waits(posted[i].entry)
          /\ e.n < posted[i].entry.n
      BY <1>1, <2>4, <2>8, JobEntry, Zenon DEF TextsNumbered
    <3>2. PICK f : f = posted[i].entry
      BY Zenon
    <3>3. Below(f.n)' /\ posted'[i].entry = f /\ f.by = "me" /\ f.n <= used'.texts
      BY <1>1, <2>5, <3>1, <3>2, Zenon DEF Waits
    <3> QED
      BY ONLY <3>3, Zenon DEF Waits, Below
  <2> QED
    BY <1>1, <2>5, <2>7, <2>8, Zenon DEF TextsNumbered
<1> QED
  BY <1>2, <1>3

(* The io thread keeps the texts exact. *)
LEMMA IoTexts ==
    ASSUME Typed, TextsExact, TextsNumbered, IoThread
    PROVE  TextsExact' /\ TextsNumbered'
<1>1. CASE ShowMessage \/ ShowOffer
  <2>1. UNCHANGED <<used, chatLogsM, sent, io>>
    BY <1>1, Zenon DEF ShowMessage, ShowOffer, logs
  <2>2. \E event : Posted(event)
    BY <1>1, Zenon DEF ShowMessage, ShowOffer
  <2>3. \E h : JobsMoved(h)
    BY <2>2, JobsTail, Zenon DEF Typed
  <2> QED
    BY <2>1, <2>3, TextsUnlogged, TextsStep, Zenon
<1>2. CASE InitiateFileTransferWithSession
  <2>1. /\ UNCHANGED <<used, sent, posted>> /\ (io' = None \/ io' = io)
        /\ io # None /\ io.entry.kind = "file"
        /\ AddMessage(io.peer, io.entry) \/ chatLogsM' = chatLogsM
    BY <1>2, Zenon DEF InitiateFileTransferWithSession
  <2>2. io.peer \in Peers /\ io.entry \in Entries
    BY <2>1, IoEntry, Zenon DEF Typed
  <2>3. TextsSame
    <3>1. CASE AddMessage(io.peer, io.entry)
      <4>1. io.entry.kind # "text"
        BY <2>1
      <4> QED
        BY <2>1, <2>2, <3>1, <4>1, TextsAside, Zenon DEF Typed
    <3>2. CASE chatLogsM' = chatLogsM
      BY <2>1, <3>2, TextsUnlogged, Zenon
    <3> QED
      BY <2>1, <3>1, <3>2, Zenon
  <2> QED
    BY <2>1, <2>3, JobsSame, TextsStep, Zenon
<1> QED
  BY <1>1, <1>2, SendTextTexts, SendDataToNodeTexts, Zenon DEF IoThread

(* SendChatLine numbers a text for the session it has found. *)
LEMMA SendChatLineTexts ==
    ASSUME Typed, Sending, TextsExact, TextsNumbered, SendChatLine
    PROVE  TextsExact' /\ TextsNumbered'
<1>1. /\ TypeOK /\ Use("texts") /\ UNCHANGED <<chatLogsM, sent, posted>>
      /\ client = "console" /\ io = None
  BY Zenon DEF SendChatLine, Typed, logs, Key, Turn
<1>2. TextsExact' /\ \A n : Below(n) => Below(n)'
  BY <1>1, TextsStill, TextsUnlogged, Zenon
<1>3. Below(used.texts)' /\ Below(used.texts + 1)'
  BY <1>1, <1>2, NextNumber, Zenon
<1>4. io' # None => io'.entry = Entry("me", inputLine.kind, used'.texts, inputLine.len)
  BY <1>1 DEF SendChatLine
<1>5. used'.texts \in Nat
  BY UseType, <1>1 DEF Kinds
<1>6. io' # None => Waits(io.entry)'
  <2>1. SUFFICES ASSUME io' # None PROVE Waits(io.entry)'
    OBVIOUS
  <2>2. io'.entry.by = "me" /\ io'.entry.n = used'.texts
    BY <1>4, <2>1 DEF Entry
  <2>3. io'.entry.n <= used'.texts
    BY ONLY <1>5, <2>2
  <2> QED
    BY <1>3, <2>2, <2>3, Zenon DEF Waits, Below
<1>7. \A i \in DOMAIN posted' : posted'[i].event # "SEND"
  BY <1>1, Zenon DEF Sending, Sends
<1> QED
  BY <1>2, <1>3, <1>6, <1>7, Zenon DEF TextsNumbered

(* Send posts a text with the next number. *)
LEMMA SendTexts ==
    ASSUME Typed, TextsExact, TextsNumbered, NEW line \in Lines, Send(line)
    PROVE  TextsExact' /\ TextsNumbered'
<1> DEFINE job == [event |-> "SEND", peer |-> selectedPeer,
                   entry |-> Entry("me", line.kind, used'.texts, line.len)]
<1>1. /\ TypeOK /\ Use("texts") /\ UNCHANGED <<chatLogsM, sent, io>>
      /\ posted' = Append(posted, job)
  BY Zenon DEF Send, Typed, logs
<1>2. job.entry.by = "me" /\ job.entry.n = used'.texts
  BY DEF Entry
<1> HIDE DEF job
<1>3. TextsExact' /\ \A n : Below(n) => Below(n)'
  BY <1>1, TextsStill, TextsUnlogged, Zenon
<1>4. Below(used.texts)' /\ Below(used.texts + 1)'
  BY <1>1, <1>3, NextNumber, Zenon
<1>5. used'.texts \in Nat
  BY UseType, <1>1 DEF Kinds
<1>6. /\ posted \in Seq(Mails \cup Jobs)
      /\ DOMAIN posted = 1..Len(posted) /\ Len(posted) \in Nat
  BY <1>1 DEF TypeOK, QueuesOK
<1>7. PICK k \in Nat : k = Len(posted) + 1
  BY ONLY <1>6
<1>8. /\ DOMAIN posted' = DOMAIN posted \cup {k} /\ posted'[k] = job
      /\ \A i \in DOMAIN posted : posted'[i] = posted[i]
  <2>1. posted \in Seq((Mails \cup Jobs) \cup {job}) /\ job \in (Mails \cup Jobs) \cup {job}
    BY ONLY <1>6
  <2>2. /\ DOMAIN Append(posted, job) = 1..Len(posted) + 1
        /\ \A i \in 1..Len(posted) : Append(posted, job)[i] = posted[i]
        /\ Append(posted, job)[Len(posted) + 1] = job
    BY ONLY <2>1, AppendProperties
  <2>3. 1..Len(posted) + 1 = (1..Len(posted)) \cup {k}
    BY ONLY <1>6, <1>7
  <2> QED
    BY ONLY <1>1, <1>6, <1>7, <2>2, <2>3, Zenon
<1>9. ASSUME io # None PROVE Waits(io.entry)' /\ io.entry.n < used'.texts
  <2>1. io.entry \in Entries /\ Waits(io.entry)
    BY <1>1, <1>9, IoEntry, Zenon DEF TextsNumbered
  <2>2. PICK e : e = io.entry
    BY Zenon
  <2>3. Waits(e)' /\ e.n < used'.texts /\ io'.entry = e
    BY <1>1, <1>3, <2>1, <2>2, WaitsOn, Zenon
  <2>4. Waits(io.entry)'
    BY ONLY <2>3, Zenon DEF Waits, Below
  <2> QED
    BY <2>2, <2>3, <2>4, Zenon
<1>10. ASSUME NEW i \in DOMAIN posted, posted[i].event = "SEND"
       PROVE  Waits(posted[i].entry)' /\ posted[i].entry.n < used'.texts
  <2>1. posted[i].entry \in Entries /\ Waits(posted[i].entry)
    BY <1>1, <1>10, JobEntry, Zenon DEF TextsNumbered
  <2>2. PICK e : e = posted[i].entry
    BY Zenon
  <2>3. Waits(e)' /\ e.n < used'.texts /\ posted'[i].entry = e
    BY <1>1, <1>3, <1>8, <1>10, <2>1, <2>2, WaitsOn, Zenon
  <2>4. Waits(posted[i].entry)'
    BY ONLY <2>3, Zenon DEF Waits, Below
  <2> QED
    BY <2>2, <2>3, <2>4, Zenon
<1>11. Waits(posted[k].entry)'
  <2>1. used'.texts <= used'.texts
    BY ONLY <1>5
  <2> QED
    BY <1>2, <1>4, <1>8, <2>1, Zenon DEF Waits, Below
<1>12. ASSUME NEW i \in DOMAIN posted', posted'[i].event = "SEND"
       PROVE  Waits(posted[i].entry)' /\ (io' # None => io'.entry.n < posted'[i].entry.n)
  <2>1. CASE i = k
    BY <1>1, <1>2, <1>8, <1>9, <1>11, <2>1, Zenon
  <2>2. CASE i \in DOMAIN posted
    <3>1. posted'[i] = posted[i] /\ posted[i].event = "SEND"
      BY <1>8, <1>12, <2>2, Zenon
    <3>2. Waits(posted[i].entry)'
      BY <1>10, <2>2, <3>1, Zenon
    <3>3. io # None => io.entry.n < posted[i].entry.n
      BY <2>2, <3>1, Zenon DEF TextsNumbered
    <3> QED
      BY <1>1, <3>1, <3>2, <3>3, Zenon
  <2> QED
    BY ONLY <1>8, <1>12, <2>1, <2>2, Zenon
<1>13. ASSUME NEW i \in DOMAIN posted', NEW j \in DOMAIN posted', i < j,
              posted'[i].event = "SEND", posted'[j].event = "SEND"
       PROVE  posted'[i].entry.n < posted'[j].entry.n
  <2>1. i \in DOMAIN posted
    BY ONLY <1>6, <1>7, <1>8, <1>13
  <2>2. CASE j = k
    BY <1>2, <1>8, <1>10, <1>13, <2>1, <2>2, Zenon
  <2>3. CASE j \in DOMAIN posted
    BY <1>8, <1>13, <2>1, <2>3, Zenon DEF TextsNumbered
  <2> QED
    BY ONLY <1>8, <1>13, <2>2, <2>3, Zenon
<1> QED
  BY <1>1, <1>3, <1>4, <1>9, <1>12, <1>13, Zenon DEF TextsNumbered

(* Every step keeps the texts exact. *)
LEMMA NextTexts ==
    ASSUME Typed, Sending, TextsExact, TextsNumbered, [Next]_vars
    PROVE  TextsExact' /\ TextsNumbered'
<1>1. ASSUME UNCHANGED <<chatLogsM, sent, io, posted>>, used'.texts = used.texts
      PROVE  TextsExact' /\ TextsNumbered'
  BY <1>1, TextsUnlogged, JobsSame, TextsStep, Zenon
<1>2. CASE UNCHANGED vars
  BY <1>1, <1>2, Zenon DEF vars, logs
<1>3. CASE MainThread
  BY <1>1, <1>3, Zenon DEF MainThread, Dispatched, ProgressTimer, logs
<1>4. CASE Environment
  <2>1. \E k \in Kinds : k # "texts" /\ Use(k)
    BY <1>4 DEF Environment, Report, ListSession, Arrive, Kinds
  <2>2. used'.texts = used.texts
    BY <2>1, TextUsed, Zenon DEF Typed
  <2>3. UNCHANGED <<chatLogsM, sent, io, posted>>
    BY <1>4, Zenon DEF Environment, Report, ListSession, Arrive, logs
  <2> QED
    BY <1>1, <2>2, <2>3, Zenon
<1>5. CASE User
  <2>1. CASE OnKey /\ ~SendChatLine
    BY <1>1, <2>1, Zenon DEF OnKey, Redraw, EnterChat, Quit, Type, LeaveChat, RedrawChat,
       HandleFileOfferKey, logs
  <2>2. ASSUME NEW q \in Peers, Click(q) PROVE TextsExact' /\ TextsNumbered'
    BY <1>1, <2>2, Zenon DEF Click, logs
  <2> QED
    BY <1>5, <2>1, <2>2, SendTexts, SendChatLineTexts, Zenon DEF User
<1> QED
  BY <1>2, <1>3, <1>4, <1>5, MailboxTexts, IoTexts, Zenon DEF Next
-----------------------------------------------------------------------------
(* What the peers said: the entries of the logs are as before, *)
TheirsSame ==
    \A q \in Peers :
      /\ Theirs(q)' = Theirs(q)
      /\ \A i \in Theirs(q) : chatLogsM'[q][i] = chatLogsM[q][i]

(* and what waits in the mailbox waited there, in the order it has. *)
MailMoved(h) ==
    \A q \in Peers :
      /\ \A i \in Mailed(q)' : h[i] \in Mailed(q) /\ inMailBox'[i] = inMailBox[h[i]]
      /\ \A i, j \in Mailed(q)' : i < j => h[i] < h[j]

(* Then the messages stay exact. *)
LEMMA MessagesStill ==
    ASSUME MessagesExact, MessagesNumbered, TheirsSame, NEW h, MailMoved(h),
           used'.messages = used.messages
    PROVE  MessagesExact' /\ MessagesNumbered'
<1>1. ASSUME NEW q \in Peers, NEW i \in Theirs(q)', NEW j \in Theirs(q)', i < j
      PROVE  chatLogsM'[q][i].n < chatLogsM'[q][j].n
  BY <1>1, Zenon DEF TheirsSame, MessagesExact
<1>2. ASSUME NEW q \in Peers, NEW i \in Theirs(q)', NEW j \in Mailed(q)'
      PROVE  chatLogsM'[q][i].n < inMailBox'[j].n
  <2>1. i \in Theirs(q) /\ chatLogsM'[q][i] = chatLogsM[q][i]
    BY <1>2, Zenon DEF TheirsSame
  <2>2. h[j] \in Mailed(q) /\ inMailBox'[j] = inMailBox[h[j]]
    BY <1>2, Zenon DEF MailMoved
  <2>3. chatLogsM[q][i].n < inMailBox[h[j]].n
    BY <2>1, <2>2, Zenon DEF MessagesExact
  <2> QED
    BY ONLY <2>1, <2>2, <2>3, Zenon
<1>3. ASSUME NEW q \in Peers, NEW i \in Mailed(q)', NEW j \in Mailed(q)', i < j
      PROVE  inMailBox'[i].n < inMailBox'[j].n
  <2>1. /\ h[i] \in Mailed(q) /\ inMailBox'[i] = inMailBox[h[i]]
        /\ h[j] \in Mailed(q) /\ inMailBox'[j] = inMailBox[h[j]] /\ h[i] < h[j]
    BY <1>3, Zenon DEF MailMoved
  <2>2. inMailBox[h[i]].n < inMailBox[h[j]].n
    BY <2>1, Zenon DEF MessagesExact
  <2> QED
    BY ONLY <2>1, <2>2, Zenon
<1>4. ASSUME NEW q \in Peers
      PROVE  /\ \A i \in Theirs(q)' : chatLogsM'[q][i].n <= used'.messages
             /\ \A i \in Mailed(q)' : inMailBox'[i].n <= used'.messages
  <2>1. ASSUME NEW i \in Theirs(q)' PROVE chatLogsM'[q][i].n <= used'.messages
    BY <1>4, <2>1, Zenon DEF TheirsSame, MessagesNumbered
  <2>2. ASSUME NEW i \in Mailed(q)' PROVE inMailBox'[i].n <= used'.messages
    BY <1>4, <2>2, Zenon DEF MailMoved, MessagesNumbered
  <2> QED
    BY <2>1, <2>2
<1> QED
  BY <1>1, <1>2, <1>3, <1>4, Zenon DEF MessagesExact, MessagesNumbered

(* Logs that are left alone. *)
LEMMA TheirsUnlogged ==
    ASSUME chatLogsM' = chatLogsM
    PROVE  TheirsSame
BY Zenon DEF TheirsSame, Theirs

(* An entry of this machine's. *)
LEMMA TheirsAside ==
    ASSUME TypeOK, NEW q \in Peers, NEW e \in Entries, AddMessage(q, e), e.by # "peer"
    PROVE  TheirsSame
<1>1. TypeOK /\ q \in Peers /\ e \in Entries /\ AddMessage(q, e)
  OBVIOUS
<1>2. PICK k \in Nat :
        /\ e.by # "peer" => Theirs(q)' = Theirs(q)
        /\ \A i \in Mine(q) \cup Theirs(q) :
             i \in Nat /\ i < k /\ chatLogsM'[q][i] = chatLogsM[q][i]
        /\ \A p \in Peers : p # q => chatLogsM'[p] = chatLogsM[p] /\ Theirs(p)' = Theirs(p)
  BY ONLY <1>1, EntryAdded, Zenon
<1>3. ASSUME NEW p \in Peers
      PROVE  Theirs(p)' = Theirs(p) /\ \A i \in Theirs(p) : chatLogsM'[p][i] = chatLogsM[p][i]
  <2>1. CASE p = q
    BY <1>2, <2>1, Zenon
  <2>2. CASE p # q
    BY <1>2, <1>3, <2>2, Zenon
  <2> QED
    BY <2>1, <2>2
<1> QED
  BY <1>3, Zenon DEF TheirsSame

(* The mailbox is left alone. *)
LEMMA MailSame ==
    ASSUME inMailBox' = inMailBox
    PROVE  \E h : MailMoved(h)
<1>1. PICK h : h = [i \in DOMAIN inMailBox |-> i]
  BY Zenon
<1>2. \A i \in DOMAIN inMailBox : h[i] = i
  BY ONLY <1>1, Zenon
<1>3. \A q \in Peers : Mailed(q)' = Mailed(q) /\ Mailed(q) \subseteq DOMAIN inMailBox
  BY Zenon DEF Mailed
<1>4. MailMoved(h)
  BY <1>2, <1>3, Zenon DEF MailMoved
<1> QED
  BY <1>4, Zenon

(* Its head is taken. *)
LEMMA MailTaken ==
    ASSUME TypeOK, NEW event, Handles(event)
    PROVE  /\ 1 \in DOMAIN inMailBox /\ Head(inMailBox) = inMailBox[1]
           /\ \E h : MailMoved(h) /\ \A q \in Peers : \A i \in Mailed(q)' : 1 < h[i]
<1>1. /\ inMailBox \in Seq(Mails) /\ inMailBox # <<>> /\ inMailBox' = Tail(inMailBox)
  BY Zenon DEF TypeOK, QueuesOK, Handles
<1>2. 1 \in DOMAIN inMailBox /\ Head(inMailBox) = inMailBox[1]
  BY ONLY <1>1
<1>3. DOMAIN Tail(inMailBox) \subseteq Nat \ {0}
  BY ONLY <1>1
<1>4. PICK h : h = [i \in DOMAIN Tail(inMailBox) |-> i + 1]
  BY Zenon
<1>5. \A i \in DOMAIN Tail(inMailBox) : h[i] = i + 1
  BY ONLY <1>4, Zenon
<1>6. \A i \in DOMAIN Tail(inMailBox) :
        h[i] \in DOMAIN inMailBox /\ Tail(inMailBox)[i] = inMailBox[h[i]]
  BY ONLY <1>1, <1>5, OfTail, Zenon
<1>7. /\ \A i, j \in DOMAIN Tail(inMailBox) : i < j => h[i] < h[j]
      /\ \A i \in DOMAIN Tail(inMailBox) : 1 < h[i]
  BY ONLY <1>3, <1>5
<1>8. ASSUME NEW q \in Peers, NEW i \in Mailed(q)'
      PROVE  /\ i \in DOMAIN Tail(inMailBox) /\ h[i] \in Mailed(q)
             /\ inMailBox'[i] = inMailBox[h[i]]
  <2>1. /\ i \in DOMAIN Tail(inMailBox) /\ inMailBox'[i].peer = q
        /\ inMailBox'[i].event \in {"MESSAGE", "END"}
    BY <1>1, <1>8, Zenon DEF Mailed
  <2>2. h[i] \in DOMAIN inMailBox /\ inMailBox'[i] = inMailBox[h[i]]
    BY ONLY <1>1, <1>6, <2>1, Zenon
  <2> QED
    BY ONLY <2>1, <2>2, Zenon DEF Mailed
<1>9. MailMoved(h)
  BY ONLY <1>7, <1>8, Zenon DEF MailMoved
<1> QED
  BY ONLY <1>2, <1>7, <1>8, <1>9, Zenon

(* What comes is put behind the rest. *)
LEMMA MailCome ==
    ASSUME TypeOK, NEW n \in Nat, NEW p \in Peers,
           NEW event \in {"PUBLISHED", "RESOLVED", "DEREGISTERED", "MESSAGE", "END", "OFFER"},
           Mail(event, p, n)
    PROVE  \E k \in Nat :
             /\ inMailBox'[k].n = n
             /\ \A q \in Peers : \A i \in Mailed(q)' :
                  \/ i \in Mailed(q) /\ i \in Nat /\ i < k /\ inMailBox'[i] = inMailBox[i]
                  \/ i = k /\ event \in {"MESSAGE", "END"}
<1>1. PICK m : m = [event |-> event, peer |-> p, n |-> n]
  BY Zenon
<1>2. m \in Mails /\ m.event = event /\ m.n = n
  BY <1>1 DEF Mails
<1>3. inMailBox \in Seq(Mails) /\ inMailBox' = Append(inMailBox, m)
  BY <1>1, Zenon DEF TypeOK, QueuesOK, Mail
<1>4. /\ DOMAIN inMailBox' = 1..Len(inMailBox) + 1 /\ Len(inMailBox) \in Nat
      /\ \A i \in 1..Len(inMailBox) : inMailBox'[i] = inMailBox[i]
      /\ inMailBox'[Len(inMailBox) + 1] = m
      /\ DOMAIN inMailBox = 1..Len(inMailBox)
  BY ONLY <1>2, <1>3, AppendProperties
<1>5. PICK k \in Nat : k = Len(inMailBox) + 1
  BY ONLY <1>4
<1>6. \A i \in DOMAIN inMailBox' :
        \/ i = k
        \/ i \in DOMAIN inMailBox /\ i \in Nat /\ i < k /\ inMailBox'[i] = inMailBox[i]
  <2>1. \A i \in 1..Len(inMailBox) + 1 : i = k \/ (i \in 1..Len(inMailBox) /\ i \in Nat /\ i < k)
    BY ONLY <1>4, <1>5
  <2> QED
    BY ONLY <1>4, <2>1, Zenon
<1>7. inMailBox'[k] = m
  BY ONLY <1>4, <1>5
<1>8. ASSUME NEW q \in Peers, NEW i \in Mailed(q)'
      PROVE  \/ i \in Mailed(q) /\ i \in Nat /\ i < k /\ inMailBox'[i] = inMailBox[i]
             \/ i = k /\ event \in {"MESSAGE", "END"}
  <2>1. /\ i \in DOMAIN inMailBox' /\ inMailBox'[i].peer = q
        /\ inMailBox'[i].event \in {"MESSAGE", "END"}
    BY <1>8, Zenon DEF Mailed
  <2> QED
    BY ONLY <1>2, <1>6, <1>7, <2>1, Zenon DEF Mailed
<1> QED
  BY ONLY <1>2, <1>7, <1>8, Zenon

(* The first of the mailbox goes into its sender's log. *)
LEMMA MessageLogged ==
    ASSUME Typed, MessagesExact, MessagesNumbered, used' = used,
           HandleMessageIncoming \/ HandleFileTransferEnd
    PROVE  MessagesExact' /\ MessagesNumbered'
<1>1. PICK event \in {"MESSAGE", "END"}, kind \in {"text", "file"} :
        /\ Handles(event)
        /\ AddMessage(Head(inMailBox).peer, Entry("peer", kind, Head(inMailBox).n, 0))
  BY Zenon DEF HandleMessageIncoming, HandleFileTransferEnd
<1>2. /\ TypeOK /\ Head(inMailBox).peer \in Peers /\ Head(inMailBox).n \in Nat
      /\ Head(inMailBox).event = event
  BY <1>1, HandlesType, Zenon DEF Typed, Handles
<1>3. /\ 1 \in DOMAIN inMailBox /\ Head(inMailBox) = inMailBox[1]
      /\ \E h : MailMoved(h) /\ \A q \in Peers : \A i \in Mailed(q)' : 1 < h[i]
  BY <1>1, <1>2, MailTaken, Zenon
<1>4. PICK h : MailMoved(h) /\ \A q \in Peers : \A i \in Mailed(q)' : 1 < h[i]
  BY <1>3, Zenon
<1>5. PICK p, e : p = inMailBox[1].peer /\ e = Entry("peer", kind, inMailBox[1].n, 0)
  BY Zenon
<1>6. p \in Peers /\ e \in Entries /\ e.by = "peer" /\ e.n = inMailBox[1].n /\ AddMessage(p, e)
  BY <1>1, <1>2, <1>3, <1>5 DEF Entry, Entries
<1>7. 1 \in Mailed(p)
  BY <1>1, <1>2, <1>3, <1>5, Zenon DEF Mailed
<1>8. PICK k \in Nat :
        /\ chatLogsM'[p][k] = e
        /\ e.by = "peer" => Theirs(p)' = Theirs(p) \cup {k}
        /\ \A i \in Mine(p) \cup Theirs(p) :
             i \in Nat /\ i < k /\ chatLogsM'[p][i] = chatLogsM[p][i]
        /\ \A q \in Peers : q # p => chatLogsM'[q] = chatLogsM[q] /\ Theirs(q)' = Theirs(q)
  BY ONLY <1>2, <1>6, EntryAdded, ZenonT(60)
<1>9. ASSUME NEW q \in Peers, NEW i \in Theirs(q)'
      PROVE  \/ q = p /\ i = k /\ chatLogsM'[q][i] = e
             \/ i \in Theirs(q) /\ chatLogsM'[q][i] = chatLogsM[q][i] /\ (q = p => i < k /\ i \in Nat)
  <2>1. CASE q = p
    BY <1>6, <1>8, <1>9, <2>1, Zenon
  <2>2. CASE q # p
    BY <1>8, <1>9, <2>2, Zenon
  <2> QED
    BY <2>1, <2>2
<1>10. ASSUME NEW q \in Peers, NEW i \in Theirs(q)', NEW j \in Theirs(q)', i < j
       PROVE  chatLogsM'[q][i].n < chatLogsM'[q][j].n
  <2>1. CASE q = p /\ j = k
    <3>1. i # k
      BY ONLY <1>10, <2>1, k \in Nat
    <3>2. i \in Theirs(q) /\ chatLogsM'[q][i] = chatLogsM[q][i]
      BY <1>9, <1>10, <3>1, Zenon
    <3>3. chatLogsM[p][i].n < inMailBox[1].n
      BY <1>6, <1>7, <2>1, <3>2, Zenon DEF MessagesExact
    <3> QED
      BY ONLY <1>6, <1>8, <2>1, <3>2, <3>3, Zenon
  <2>2. CASE ~(q = p /\ j = k)
    <3>1. j \in Theirs(q) /\ chatLogsM'[q][j] = chatLogsM[q][j] /\ (q = p => j < k /\ j \in Nat)
      BY <1>9, <1>10, <2>2, Zenon
    <3>2. ~(q = p /\ i = k)
      BY ONLY <1>10, <3>1, k \in Nat
    <3>3. i \in Theirs(q) /\ chatLogsM'[q][i] = chatLogsM[q][i]
      BY <1>9, <1>10, <3>2, Zenon
    <3>4. chatLogsM[q][i].n < chatLogsM[q][j].n
      BY <1>10, <3>1, <3>3, Zenon DEF MessagesExact
    <3> QED
      BY ONLY <3>1, <3>3, <3>4, Zenon
  <2> QED
    BY <2>1, <2>2
<1>11. ASSUME NEW q \in Peers, NEW j \in Mailed(q)'
       PROVE  h[j] \in Mailed(q) /\ inMailBox'[j] = inMailBox[h[j]] /\ 1 < h[j]
  BY <1>4, <1>11, Zenon DEF MailMoved
<1>12. ASSUME NEW q \in Peers, NEW i \in Theirs(q)', NEW j \in Mailed(q)'
       PROVE  chatLogsM'[q][i].n < inMailBox'[j].n
  <2>1. h[j] \in Mailed(q) /\ inMailBox'[j] = inMailBox[h[j]] /\ 1 < h[j]
    BY <1>11, <1>12, Zenon
  <2>2. CASE q = p /\ i = k /\ chatLogsM'[q][i] = e
    <3>1. inMailBox[1].n < inMailBox[h[j]].n
      BY <1>6, <1>7, <2>1, <2>2, Zenon DEF MessagesExact
    <3> QED
      BY ONLY <1>6, <2>1, <2>2, <3>1, Zenon
  <2>3. CASE i \in Theirs(q) /\ chatLogsM'[q][i] = chatLogsM[q][i]
    <3>1. chatLogsM[q][i].n < inMailBox[h[j]].n
      BY <1>12, <2>1, <2>3, Zenon DEF MessagesExact
    <3> QED
      BY ONLY <2>1, <2>3, <3>1, Zenon
  <2> QED
    BY <1>9, <1>12, <2>2, <2>3, Zenon
<1>13. ASSUME NEW q \in Peers, NEW i \in Mailed(q)', NEW j \in Mailed(q)', i < j
       PROVE  inMailBox'[i].n < inMailBox'[j].n
  <2>1. /\ h[i] \in Mailed(q) /\ inMailBox'[i] = inMailBox[h[i]]
        /\ h[j] \in Mailed(q) /\ inMailBox'[j] = inMailBox[h[j]] /\ h[i] < h[j]
    BY <1>4, <1>13, Zenon DEF MailMoved
  <2>2. inMailBox[h[i]].n < inMailBox[h[j]].n
    BY <2>1, Zenon DEF MessagesExact
  <2> QED
    BY ONLY <2>1, <2>2, Zenon
<1>14. ASSUME NEW q \in Peers, NEW i \in Theirs(q)'
       PROVE  chatLogsM'[q][i].n <= used'.messages
  <2>1. inMailBox[1].n <= used.messages
    BY <1>6, <1>7, Zenon DEF MessagesNumbered
  <2>2. i \in Theirs(q) => chatLogsM[q][i].n <= used.messages
    BY <1>14, Zenon DEF MessagesNumbered
  <2> QED
    BY <1>6, <1>9, <1>14, <2>1, <2>2, Zenon
<1>15. ASSUME NEW q \in Peers, NEW i \in Mailed(q)'
       PROVE  inMailBox'[i].n <= used'.messages
  BY <1>11, <1>15, Zenon DEF MessagesNumbered
<1> QED
  BY <1>10, <1>12, <1>13, <1>14, <1>15, Zenon DEF MessagesExact, MessagesNumbered

(* How the messages are counted. *)
LEMMA MessageUsed ==
    ASSUME TypeOK
    PROVE  /\ used.messages \in Nat
           /\ Use("messages") => used'.messages = used.messages + 1
           /\ \A k \in Kinds : k # "messages" /\ Use(k) => used'.messages = used.messages
BY DEF TypeOK, ProcessOK, Use, Kinds

(* The numbers of the messages that are logged and mailed are numbers. *)
LEMMA MessageNumbers ==
    ASSUME TypeOK, NEW q \in Peers
    PROVE  /\ \A i \in Theirs(q) : chatLogsM[q][i].n \in Nat
           /\ \A i \in Mailed(q) : inMailBox[i].n \in Nat
<1>1. chatLogsM[q] \in Seq(Entries) /\ inMailBox \in Seq(Mails)
  BY Zenon DEF TypeOK, LogsOK, QueuesOK
<1>2. \A i \in DOMAIN chatLogsM[q] : chatLogsM[q][i].n \in Nat
  <2>1. \A i \in DOMAIN chatLogsM[q] : chatLogsM[q][i] \in Entries
    BY ONLY <1>1
  <2>2. \A e \in Entries : e.n \in Nat
    BY DEF Entries
  <2> QED
    BY ONLY <2>1, <2>2, Zenon
<1>3. \A i \in DOMAIN inMailBox : inMailBox[i].n \in Nat
  <2>1. \A i \in DOMAIN inMailBox : inMailBox[i] \in Mails
    BY ONLY <1>1
  <2>2. \A m \in Mails : m.n \in Nat
    BY DEF Mails
  <2> QED
    BY ONLY <2>1, <2>2, Zenon
<1> QED
  BY <1>2, <1>3, Zenon DEF Theirs, Mailed

(* Mail that is no message. *)
LEMMA MailAside ==
    ASSUME TypeOK, NEW event \in {"PUBLISHED", "RESOLVED", "DEREGISTERED", "OFFER"},
           NEW p \in Peers, NEW n \in Nat, Mail(event, p, n)
    PROVE  \E h : MailMoved(h)
<1>1. /\ event \in {"PUBLISHED", "RESOLVED", "DEREGISTERED", "MESSAGE", "END", "OFFER"}
      /\ event \notin {"MESSAGE", "END"}
      /\ TypeOK /\ n \in Nat /\ p \in Peers /\ Mail(event, p, n)
  OBVIOUS
<1>2. PICK k \in Nat :
        /\ inMailBox'[k].n = n
        /\ \A q \in Peers : \A i \in Mailed(q)' :
             \/ i \in Mailed(q) /\ i \in Nat /\ i < k /\ inMailBox'[i] = inMailBox[i]
             \/ i = k /\ event \in {"MESSAGE", "END"}
  BY ONLY <1>1, MailCome
<1>3. PICK h : h = [i \in DOMAIN inMailBox |-> i]
  BY Zenon
<1>4. \A q \in Peers : \A i \in Mailed(q) : h[i] = i
  BY ONLY <1>3, Zenon DEF Mailed
<1>5. MailMoved(h)
  BY ONLY <1>1, <1>2, <1>4, Zenon DEF MailMoved
<1> QED
  BY <1>5, Zenon

(* A message that comes has the next number. *)
LEMMA MessageCome ==
    ASSUME Typed, MessagesExact, MessagesNumbered, NEW event \in {"MESSAGE", "END"},
           NEW p \in Peers, Use("messages"), Mail(event, p, used'.messages),
           chatLogsM' = chatLogsM
    PROVE  MessagesExact' /\ MessagesNumbered'
<1>1. /\ TypeOK /\ used.messages \in Nat /\ used'.messages = used.messages + 1
      /\ event \in {"PUBLISHED", "RESOLVED", "DEREGISTERED", "MESSAGE", "END", "OFFER"}
  BY MessageUsed DEF Typed
<1>2. PICK m \in Nat : m = used'.messages /\ p \in Peers /\ Mail(event, p, m)
  BY <1>1
<1>3. PICK k \in Nat :
        /\ inMailBox'[k].n = m
        /\ \A q \in Peers : \A i \in Mailed(q)' :
             \/ i \in Mailed(q) /\ i \in Nat /\ i < k /\ inMailBox'[i] = inMailBox[i]
             \/ i = k /\ event \in {"MESSAGE", "END"}
  BY ONLY <1>1, <1>2, MailCome, SMTT(60)
<1>4. ASSUME NEW q \in Peers, NEW i \in Theirs(q)
      PROVE  chatLogsM[q][i].n < m
  <2>1. chatLogsM[q][i].n \in Nat /\ chatLogsM[q][i].n <= used.messages
    BY <1>1, <1>4, MessageNumbers, Zenon DEF MessagesNumbered
  <2> QED
    BY ONLY <1>1, <1>2, <2>1
<1>5. ASSUME NEW q \in Peers, NEW i \in Mailed(q)
      PROVE  inMailBox[i].n < m
  <2>1. inMailBox[i].n \in Nat /\ inMailBox[i].n <= used.messages
    BY <1>1, <1>5, MessageNumbers, Zenon DEF MessagesNumbered
  <2> QED
    BY ONLY <1>1, <1>2, <2>1
<1>6. TheirsSame
  BY TheirsUnlogged, Zenon
<1>7. \A n \in Nat : n < m => n <= m
  BY ONLY <1>2
<1>8. ASSUME NEW q \in Peers
      PROVE  /\ \A i, j \in Theirs(q)' : i < j => chatLogsM'[q][i].n < chatLogsM'[q][j].n
             /\ \A i \in Theirs(q)' : chatLogsM'[q][i].n <= used'.messages
  <2>1. \A i \in Theirs(q) : chatLogsM[q][i].n <= m
    BY <1>1, <1>4, <1>7, <1>8, MessageNumbers, Zenon
  <2> QED
    BY <1>2, <1>6, <1>8, <2>1, Zenon DEF TheirsSame, MessagesExact
<1>9. ASSUME NEW q \in Peers, NEW i \in Theirs(q)', NEW j \in Mailed(q)'
      PROVE  chatLogsM'[q][i].n < inMailBox'[j].n
  <2>1. i \in Theirs(q) /\ chatLogsM'[q][i] = chatLogsM[q][i]
    BY <1>6, <1>9, Zenon DEF TheirsSame
  <2>2. CASE j = k
    BY <1>3, <1>4, <2>1, <2>2, Zenon
  <2>3. CASE j \in Mailed(q) /\ inMailBox'[j] = inMailBox[j]
    BY <2>1, <2>3, Zenon DEF MessagesExact
  <2> QED
    BY <1>3, <1>9, <2>2, <2>3, Zenon
<1>10. ASSUME NEW q \in Peers, NEW i \in Mailed(q)', NEW j \in Mailed(q)', i < j
       PROVE  inMailBox'[i].n < inMailBox'[j].n
  <2>1. CASE i = k
    <3>1. j # k /\ ~(j \in Nat /\ j < k)
      BY ONLY <1>10, <2>1, k \in Nat
    <3> QED
      BY <1>3, <1>10, <3>1, Zenon
  <2>2. CASE i \in Mailed(q) /\ inMailBox'[i] = inMailBox[i]
    <3>1. CASE j = k
      BY <1>3, <1>5, <2>2, <3>1, Zenon
    <3>2. CASE j \in Mailed(q) /\ inMailBox'[j] = inMailBox[j]
      BY <1>10, <2>2, <3>2, Zenon DEF MessagesExact
    <3> QED
      BY <1>3, <1>10, <3>1, <3>2, Zenon
  <2> QED
    BY <1>3, <1>10, <2>1, <2>2, Zenon
<1>11. ASSUME NEW q \in Peers, NEW i \in Mailed(q)'
       PROVE  inMailBox'[i].n <= used'.messages
  <2>1. CASE i = k
    BY ONLY <1>2, <1>3, <2>1
  <2>2. CASE i \in Mailed(q) /\ inMailBox'[i] = inMailBox[i]
    BY <1>1, <1>2, <1>5, <1>7, <2>2, MessageNumbers, Zenon
  <2> QED
    BY <1>3, <1>11, <2>1, <2>2, Zenon
<1> QED
  BY <1>8, <1>9, <1>10, <1>11, Zenon DEF MessagesExact, MessagesNumbered
-----------------------------------------------------------------------------
(* Every step keeps the messages exact. *)
LEMMA NextMessages ==
    ASSUME Typed, TextsNumbered, MessagesExact, MessagesNumbered, [Next]_vars
    PROVE  MessagesExact' /\ MessagesNumbered'
<1>1. ASSUME TheirsSame, \E h : MailMoved(h), used'.messages = used.messages
      PROVE  MessagesExact' /\ MessagesNumbered'
  BY <1>1, MessagesStill, Zenon
<1>2. ASSUME UNCHANGED <<chatLogsM, inMailBox>>, used'.messages = used.messages
      PROVE  MessagesExact' /\ MessagesNumbered'
  BY <1>1, <1>2, TheirsUnlogged, MailSame, Zenon
<1>3. CASE UNCHANGED vars
  BY <1>2, <1>3, Zenon DEF vars, logs
<1>4. CASE MailboxThread
  <2>1. used' = used
    BY <1>4, Zenon DEF MailboxThread, HandlePublishedServices, HandleResolvedServices,
       HandleServiceDeregistration, HandleMessageIncoming, HandleFileOffer,
       HandleFileTransferEnd, PrintFromMailbox, PostMessage, Notify
  <2>2. CASE HandlePublishedServices \/ HandleResolvedServices \/ HandleServiceDeregistration
             \/ HandleFileOffer
    <3>1. chatLogsM' = chatLogsM /\ \E event : Handles(event)
      BY <2>2, Zenon DEF HandlePublishedServices, HandleResolvedServices,
         HandleServiceDeregistration, HandleFileOffer, logs
    <3> QED
      BY <1>1, <2>1, <3>1, TheirsUnlogged, MailTaken, Zenon DEF Typed
  <2>3. CASE HandleMessageIncoming \/ HandleFileTransferEnd
    BY <2>1, <2>3, MessageLogged, Zenon
  <2>4. CASE PrintFromMailbox \/ PostMessage \/ Notify
    BY <1>2, <2>1, <2>4, Zenon DEF PrintFromMailbox, PostMessage, Notify, logs
  <2> QED
    BY <1>4, <2>2, <2>3, <2>4, Zenon DEF MailboxThread
<1>5. CASE IoThread
  <2>1. used' = used /\ inMailBox' = inMailBox
    BY <1>5, Zenon DEF IoThread, ShowMessage, ShowOffer, SendText, SendDataToNode,
       InitiateFileTransferWithSession
  <2>2. \/ chatLogsM' = chatLogsM
        \/ io # None /\ AddMessage(io.peer, io.entry)
    BY <1>5, Zenon DEF IoThread, ShowMessage, ShowOffer, SendText, SendDataToNode,
       InitiateFileTransferWithSession, logs
  <2>3. CASE io # None /\ AddMessage(io.peer, io.entry)
    <3>1. io.peer \in Peers /\ io.entry \in Entries /\ io.entry.by = "me"
      BY <2>3, IoEntry, Zenon DEF Typed, TextsNumbered, Waits
    <3>2. io.entry.by # "peer"
      BY <3>1
    <3> QED
      BY <1>1, <2>1, <2>3, <3>1, <3>2, TheirsAside, MailSame, Zenon DEF Typed
  <2> QED
    BY <1>2, <2>1, <2>2, <2>3, Zenon
<1>6. CASE MainThread
  BY <1>2, <1>6, Zenon DEF MainThread, Dispatched, ProgressTimer, logs
<1>7. CASE Environment
  <2>1. ASSUME NEW q \in Peers, NEW event \in {"PUBLISHED", "RESOLVED", "DEREGISTERED"},
               Report(event, q)
        PROVE  MessagesExact' /\ MessagesNumbered'
    <3>1. /\ Use("reports") /\ Mail(event, q, 0) /\ chatLogsM' = chatLogsM
      BY <2>1, Zenon DEF Report, logs
    <3>2. used'.messages = used.messages
      BY <3>1, MessageUsed DEF Typed, Kinds
    <3>3. 0 \in Nat /\ event \in {"PUBLISHED", "RESOLVED", "DEREGISTERED", "OFFER"}
      BY <2>1
    <3> QED
      BY <1>1, <3>1, <3>2, <3>3, TheirsUnlogged, MailAside, Zenon DEF Typed
  <2>2. ASSUME NEW q \in Peers, NEW i, ListSession(q, i)
        PROVE  MessagesExact' /\ MessagesNumbered'
    <3>1. Use("sessions") /\ UNCHANGED <<chatLogsM, inMailBox>>
      BY <2>2, Zenon DEF ListSession, logs
    <3>2. used'.messages = used.messages
      BY <3>1, MessageUsed DEF Typed, Kinds
    <3> QED
      BY <1>2, <3>1, <3>2, Zenon
  <2>3. ASSUME NEW q \in Peers, NEW event \in {"MESSAGE", "END", "OFFER"}, Arrive(event, q)
        PROVE  MessagesExact' /\ MessagesNumbered'
    <3>1. Mail(event, q, used'.messages) /\ chatLogsM' = chatLogsM
      BY <2>3, Zenon DEF Arrive, logs
    <3>2. CASE event \in {"MESSAGE", "END"} /\ Use("messages")
      BY <3>1, <3>2, MessageCome, Zenon
    <3>3. CASE event = "OFFER" /\ Use("offers")
      <4>1. used'.messages = used.messages /\ used.messages \in Nat
        BY <3>3, MessageUsed DEF Typed, Kinds
      <4>2. \E h : MailMoved(h)
        BY <3>1, <3>3, <4>1, MailAside, Zenon DEF Typed
      <4> QED
        BY <1>1, <3>1, <4>1, <4>2, TheirsUnlogged, Zenon
    <3> QED
      BY <2>3, <3>2, <3>3, Zenon DEF Arrive
  <2> QED
    BY <1>7, <2>1, <2>2, <2>3, Zenon DEF Environment
<1>8. CASE User
  <2>1. UNCHANGED <<chatLogsM, inMailBox>>
    BY <1>8, Zenon DEF User, OnKey, Redraw, EnterChat, Quit, Type, LeaveChat, RedrawChat,
       SendChatLine, HandleFileOfferKey, Click, Send, logs
  <2>2. used' = used \/ Use("texts")
    BY <1>8, Zenon DEF User, OnKey, Redraw, EnterChat, Quit, Type, LeaveChat, RedrawChat,
       SendChatLine, HandleFileOfferKey, Click, Send
  <2>3. used'.messages = used.messages
    BY <2>2, MessageUsed DEF Typed, Kinds
  <2> QED
    BY <1>2, <2>1, <2>3, Zenon
<1> QED
  BY <1>3, <1>4, <1>5, <1>6, <1>7, <1>8, Zenon DEF Next

-----------------------------------------------------------------------------
(* No message is lost: what waits when the head of the mailbox is taken, *)
LEMMA WaitingTaken ==
    ASSUME TypeOK, NEW event, Handles(event), NEW q \in Peers, NEW x
    PROVE  x \in Waiting(q) <=>
             \/ x \in Waiting(q)'
             \/ /\ Head(inMailBox).peer = q /\ event \in {"MESSAGE", "END"}
                /\ x = Coming(event, Head(inMailBox).n)
<1>1. /\ inMailBox \in Seq(Mails) /\ inMailBox # <<>> /\ inMailBox' = Tail(inMailBox)
      /\ Head(inMailBox).event = event
  BY Zenon DEF TypeOK, QueuesOK, Handles
<1>2. 1 \in DOMAIN inMailBox /\ Head(inMailBox) = inMailBox[1]
  BY ONLY <1>1
<1>3. \A i \in DOMAIN inMailBox :
        \/ inMailBox[i] = Head(inMailBox)
        \/ \E j \in DOMAIN inMailBox' : inMailBox'[j] = inMailBox[i]
  BY ONLY <1>1, InTail, Zenon
<1>4. \A j \in DOMAIN inMailBox' : \E i \in DOMAIN inMailBox : inMailBox'[j] = inMailBox[i]
  BY ONLY <1>1, OfTail, Zenon
<1>5. ASSUME x \in Waiting(q)
      PROVE  \/ x \in Waiting(q)'
             \/ /\ Head(inMailBox).peer = q /\ event \in {"MESSAGE", "END"}
                /\ x = Coming(event, Head(inMailBox).n)
  BY <1>1, <1>3, <1>5, Zenon DEF Waiting, Mailed
<1>6. ASSUME x \in Waiting(q)' PROVE x \in Waiting(q)
  BY <1>4, <1>6, Zenon DEF Waiting, Mailed
<1>7. ASSUME Head(inMailBox).peer = q, event \in {"MESSAGE", "END"},
             x = Coming(event, Head(inMailBox).n)
      PROVE  x \in Waiting(q)
  BY <1>1, <1>2, <1>7, Zenon DEF Waiting, Mailed
<1> QED
  BY <1>5, <1>6, <1>7, Zenon

(* and when something comes. *)
LEMMA WaitingCome ==
    ASSUME TypeOK, NEW n \in Nat, NEW p \in Peers,
           NEW event \in {"PUBLISHED", "RESOLVED", "DEREGISTERED", "MESSAGE", "END", "OFFER"},
           Mail(event, p, n), NEW q \in Peers, NEW x
    PROVE  x \in Waiting(q)' <=>
             \/ x \in Waiting(q)
             \/ p = q /\ event \in {"MESSAGE", "END"} /\ x = Coming(event, n)
<1>1. PICK m : m = [event |-> event, peer |-> p, n |-> n]
  BY Zenon
<1>2. m \in Mails /\ m.event = event /\ m.n = n /\ m.peer = p
  BY <1>1 DEF Mails
<1>3. inMailBox \in Seq(Mails) /\ inMailBox' = Append(inMailBox, m)
  BY <1>1, Zenon DEF TypeOK, QueuesOK, Mail
<1>4. /\ \A i \in DOMAIN inMailBox : i \in DOMAIN inMailBox' /\ inMailBox'[i] = inMailBox[i]
      /\ \E i \in DOMAIN inMailBox' : inMailBox'[i] = m
      /\ \A i \in DOMAIN inMailBox' :
           inMailBox'[i] = m \/ (i \in DOMAIN inMailBox /\ inMailBox'[i] = inMailBox[i])
  <2>1. /\ \A i \in DOMAIN inMailBox :
             i \in DOMAIN Append(inMailBox, m) /\ Append(inMailBox, m)[i] = inMailBox[i]
        /\ Len(inMailBox) + 1 \in DOMAIN Append(inMailBox, m)
        /\ Append(inMailBox, m)[Len(inMailBox) + 1] = m
        /\ \A i \in DOMAIN Append(inMailBox, m) :
             \/ Append(inMailBox, m)[i] = m
             \/ i \in DOMAIN inMailBox /\ Append(inMailBox, m)[i] = inMailBox[i]
    BY ONLY <1>2, <1>3, InAppend
  <2> QED
    BY ONLY <1>3, <2>1, Zenon
<1>5. ASSUME x \in Waiting(q)'
      PROVE  \/ x \in Waiting(q)
             \/ p = q /\ event \in {"MESSAGE", "END"} /\ x = Coming(event, n)
  BY <1>2, <1>4, <1>5, Zenon DEF Waiting, Mailed
<1>6. ASSUME x \in Waiting(q) PROVE x \in Waiting(q)'
  BY <1>4, <1>6, Zenon DEF Waiting, Mailed
<1>7. ASSUME p = q, event \in {"MESSAGE", "END"}, x = Coming(event, n) PROVE x \in Waiting(q)'
  BY <1>2, <1>4, <1>7, Zenon DEF Waiting, Mailed
<1> QED
  BY <1>5, <1>6, <1>7, Zenon

(* The first of the mailbox is in its sender's log now. *)
LEMMA MessageKept ==
    ASSUME Typed, MessagesKept, HandleMessageIncoming \/ HandleFileTransferEnd
    PROVE  MessagesKept'
<1>1. PICK event \in {"MESSAGE", "END"} :
        /\ Handles(event)
        /\ AddMessage(Head(inMailBox).peer, Coming(event, Head(inMailBox).n))
  <2>1. CASE HandleMessageIncoming
    <3>1. Coming("MESSAGE", Head(inMailBox).n) = Entry("peer", "text", Head(inMailBox).n, 0)
      BY DEF Coming
    <3> QED
      BY <2>1, <3>1, Zenon DEF HandleMessageIncoming
  <2>2. CASE HandleFileTransferEnd
    <3>1. Coming("END", Head(inMailBox).n) = Entry("peer", "file", Head(inMailBox).n, 0)
      BY DEF Coming
    <3> QED
      BY <2>2, <3>1, Zenon DEF HandleFileTransferEnd
  <2> QED
    BY <2>1, <2>2
<1>2. PICK p, e : p = Head(inMailBox).peer /\ e = Coming(event, Head(inMailBox).n)
  BY Zenon
<1>3. TypeOK /\ p \in Peers /\ e \in Entries /\ e.by = "peer" /\ AddMessage(p, e)
  <2>1. TypeOK /\ Head(inMailBox).peer \in Peers /\ Head(inMailBox).n \in Nat
    BY <1>1, HandlesType, Zenon DEF Typed
  <2>2. e \in Entries /\ e.by = "peer"
    BY <1>2, <2>1 DEF Coming, Entry, Entries
  <2> QED
    BY <1>1, <1>2, <2>1, <2>2, Zenon
<1>4. PICK k \in Nat :
        /\ chatLogsM'[p][k] = e
        /\ e.by = "peer" => Theirs(p)' = Theirs(p) \cup {k}
        /\ \A i \in Mine(p) \cup Theirs(p) :
             i \in Nat /\ i < k /\ chatLogsM'[p][i] = chatLogsM[p][i]
        /\ \A q \in Peers : q # p => chatLogsM'[q] = chatLogsM[q] /\ Theirs(q)' = Theirs(q)
  BY ONLY <1>3, EntryAdded, ZenonT(60)
<1>5. arrived' = arrived
  BY Zenon DEF HandleMessageIncoming, HandleFileTransferEnd, past
<1>6. ASSUME NEW q \in Peers, NEW x PROVE x \in arrived'[q] <=> x \in Logged(q)' \cup Waiting(q)'
  <2>1. x \in Waiting(q) <=> x \in Waiting(q)' \/ (p = q /\ x = e)
    BY <1>1, <1>2, <1>3, WaitingTaken, Zenon
  <2>2. x \in arrived[q] <=> x \in Logged(q) \/ x \in Waiting(q)
    BY Zenon DEF MessagesKept
  <2>3. x \in Logged(q)' <=> x \in Logged(q) \/ (p = q /\ x = e)
    <3>1. CASE q = p
      BY <1>3, <1>4, <3>1, Zenon DEF Logged
    <3>2. CASE q # p
      BY <1>4, <3>2, Zenon DEF Logged
    <3> QED
      BY <3>1, <3>2
  <2> QED
    BY <1>5, <2>1, <2>2, <2>3, Zenon
<1> QED
  BY <1>6, Zenon DEF MessagesKept

(* A message that comes waits. *)
LEMMA ArriveKept ==
    ASSUME Typed, MessagesKept, NEW event \in {"MESSAGE", "END", "OFFER"}, NEW p \in Peers,
           Arrive(event, p)
    PROVE  MessagesKept'
<1>1. PICK n \in Nat : n = used'.messages
  BY MessageUsed, UseType DEF Typed, Arrive, Kinds
<1>2. /\ Mail(event, p, n) /\ chatLogsM' = chatLogsM
      /\ arrived' = IF event = "OFFER" THEN arrived
                    ELSE [arrived EXCEPT ![p] = @ \cup {Coming(event, n)}]
  BY <1>1, Zenon DEF Arrive, logs
<1>3. TypeOK /\ arrived \in [Peers -> SUBSET Entries]
  BY Zenon DEF Typed, TypeOK, ProcessOK
<1>4. event \in {"PUBLISHED", "RESOLVED", "DEREGISTERED", "MESSAGE", "END", "OFFER"}
  OBVIOUS
<1>5. ASSUME NEW q \in Peers, NEW x PROVE x \in arrived'[q] <=> x \in Logged(q)' \cup Waiting(q)'
  <2>1. x \in Waiting(q)' <=>
          x \in Waiting(q) \/ (p = q /\ event \in {"MESSAGE", "END"} /\ x = Coming(event, n))
    BY <1>2, <1>3, <1>4, WaitingCome, Zenon
  <2>2. x \in arrived[q] <=> x \in Logged(q) \/ x \in Waiting(q)
    BY Zenon DEF MessagesKept
  <2>3. Logged(q)' = Logged(q)
    BY <1>2, Zenon DEF Logged, Theirs
  <2>4. x \in arrived'[q] <=>
          x \in arrived[q] \/ (p = q /\ event \in {"MESSAGE", "END"} /\ x = Coming(event, n))
    <3>1. event # "OFFER" <=> event \in {"MESSAGE", "END"}
      OBVIOUS
    <3>2. PICK y : y = Coming(event, n)
      BY Zenon
    <3> QED
      BY ONLY <1>2, <1>3, <3>1, <3>2, p \in Peers, q \in Peers
  <2> QED
    BY <2>1, <2>2, <2>3, <2>4, Zenon
<1> QED
  BY <1>5, Zenon DEF MessagesKept

(* Every step keeps the messages. *)
LEMMA NextKept ==
    ASSUME Typed, TextsNumbered, MessagesKept, [Next]_vars
    PROVE  MessagesKept'
<1>1. ASSUME TheirsSame, arrived' = arrived,
             \A q \in Peers : \A x : x \in Waiting(q) <=> x \in Waiting(q)'
      PROVE  MessagesKept'
  <2>1. \A q \in Peers : Logged(q)' = Logged(q)
    BY <1>1, Zenon DEF TheirsSame, Logged
  <2>2. \A q \in Peers : Waiting(q)' = Waiting(q)
    BY <1>1, Zenon
  <2> QED
    BY <1>1, <2>1, <2>2, Zenon DEF MessagesKept
<1>2. ASSUME UNCHANGED <<chatLogsM, inMailBox, arrived>>
      PROVE  MessagesKept'
  BY <1>2, Zenon DEF MessagesKept, Logged, Waiting, Theirs, Mailed
<1>3. CASE UNCHANGED vars
  BY <1>2, <1>3, Zenon DEF vars, logs, past
<1>4. CASE MailboxThread
  <2>1. arrived' = arrived
    BY <1>4, Zenon DEF MailboxThread, HandlePublishedServices, HandleResolvedServices,
       HandleServiceDeregistration, HandleMessageIncoming, HandleFileOffer,
       HandleFileTransferEnd, PrintFromMailbox, PostMessage, Notify, past
  <2>2. CASE HandlePublishedServices \/ HandleResolvedServices \/ HandleServiceDeregistration
             \/ HandleFileOffer
    <3>1. chatLogsM' = chatLogsM
      BY <2>2, Zenon DEF HandlePublishedServices, HandleResolvedServices,
         HandleServiceDeregistration, HandleFileOffer, logs
    <3>2. PICK event \in {"PUBLISHED", "RESOLVED", "DEREGISTERED", "OFFER"} : Handles(event)
      BY <2>2, Zenon DEF HandlePublishedServices, HandleResolvedServices,
         HandleServiceDeregistration, HandleFileOffer
    <3>3. event \notin {"MESSAGE", "END"}
      BY <3>2
    <3>4. \A q \in Peers : \A x : x \in Waiting(q) <=> x \in Waiting(q)'
      BY <3>2, <3>3, WaitingTaken, Zenon DEF Typed
    <3> QED
      BY <1>1, <2>1, <3>1, <3>4, TheirsUnlogged, Zenon
  <2>3. CASE HandleMessageIncoming \/ HandleFileTransferEnd
    BY <2>3, MessageKept, Zenon
  <2>4. CASE PrintFromMailbox \/ PostMessage \/ Notify
    BY <1>2, <2>1, <2>4, Zenon DEF PrintFromMailbox, PostMessage, Notify, logs
  <2> QED
    BY <1>4, <2>2, <2>3, <2>4, Zenon DEF MailboxThread
<1>5. CASE IoThread
  <2>1. arrived' = arrived /\ inMailBox' = inMailBox
    BY <1>5, Zenon DEF IoThread, ShowMessage, ShowOffer, SendText, SendDataToNode,
       InitiateFileTransferWithSession, past
  <2>2. \/ chatLogsM' = chatLogsM
        \/ io # None /\ AddMessage(io.peer, io.entry)
    BY <1>5, Zenon DEF IoThread, ShowMessage, ShowOffer, SendText, SendDataToNode,
       InitiateFileTransferWithSession, logs
  <2>3. CASE io # None /\ AddMessage(io.peer, io.entry)
    <3>1. io.peer \in Peers /\ io.entry \in Entries /\ io.entry.by = "me"
      BY <2>3, IoEntry, Zenon DEF Typed, TextsNumbered, Waits
    <3>2. io.entry.by # "peer"
      BY <3>1
    <3>3. TheirsSame
      BY <2>3, <3>1, <3>2, TheirsAside, Zenon DEF Typed
    <3>4. \A q \in Peers : Waiting(q)' = Waiting(q)
      BY <2>1, Zenon DEF Waiting, Mailed
    <3> QED
      BY <1>1, <2>1, <3>3, <3>4, Zenon
  <2> QED
    BY <1>2, <2>1, <2>2, <2>3, Zenon
<1>6. CASE MainThread
  BY <1>2, <1>6, Zenon DEF MainThread, Dispatched, ProgressTimer, logs, past
<1>7. CASE Environment
  <2>1. ASSUME NEW q \in Peers, NEW event \in {"PUBLISHED", "RESOLVED", "DEREGISTERED"},
               Report(event, q)
        PROVE  MessagesKept'
    <3>1. /\ Mail(event, q, 0) /\ chatLogsM' = chatLogsM /\ arrived' = arrived
      BY <2>1, Zenon DEF Report, logs, past
    <3>2. /\ 0 \in Nat /\ event \notin {"MESSAGE", "END"}
          /\ event \in {"PUBLISHED", "RESOLVED", "DEREGISTERED", "MESSAGE", "END", "OFFER"}
      BY <2>1
    <3>3. ASSUME NEW r \in Peers, NEW x PROVE x \in Waiting(r) <=> x \in Waiting(r)'
      <4>1. TypeOK
        BY DEF Typed
      <4>2. x \in Waiting(r)' <=>
              x \in Waiting(r) \/ (q = r /\ event \in {"MESSAGE", "END"} /\ x = Coming(event, 0))
        BY ONLY <3>1, <3>2, <4>1, q \in Peers, r \in Peers, WaitingCome, ZenonT(60)
      <4> QED
        BY <3>2, <4>2, Zenon
    <3> QED
      BY <1>1, <3>1, <3>3, TheirsUnlogged, Zenon
  <2>2. ASSUME NEW q \in Peers, NEW i, ListSession(q, i)
        PROVE  MessagesKept'
    BY <1>2, <2>2, Zenon DEF ListSession, logs
  <2> QED
    BY <1>7, <2>1, <2>2, ArriveKept, Zenon DEF Environment
<1>8. CASE User
  BY <1>2, <1>8, Zenon DEF User, OnKey, Redraw, EnterChat, Quit, Type, LeaveChat, RedrawChat,
     SendChatLine, HandleFileOfferKey, Click, Send, logs, past
<1> QED
  BY <1>3, <1>4, <1>5, <1>6, <1>7, <1>8, Zenon DEF Next

(* The logs, for any peers, numbers of messages and lengths: a text is in  *)
(* the log of a chat if and only if its session was given it to write, in  *)
(* the order of the sending, although a session may go between the lookup  *)
(* and the writing and three threads come in between; and every message    *)
(* and file that arrived from a peer is in its log or still in the         *)
(* mailbox, so none is lost, doubled or overtaken between the two.         *)
THEOREM LogsExactHolds == Spec => []LogsExact
<1> DEFINE Inv == /\ Typed /\ Sending
                  /\ TextsExact /\ TextsNumbered
                  /\ MessagesExact /\ MessagesNumbered /\ MessagesKept
<1>1. Init => Inv
  <2>1. ASSUME Init PROVE Sending
    <3>1. posted = <<>> /\ io = None
      BY <2>1, Zenon DEF Init
    <3>2. ~Sends(posted)
      BY ONLY <3>1 DEF Sends
    <3> QED
      BY ONLY <3>1, <3>2, Zenon DEF Sending
  <2>2. ASSUME Init
        PROVE  /\ \A q \in Peers : Mine(q) = {} /\ Theirs(q) = {} /\ Mailed(q) = {}
               /\ \A q \in Peers : DOMAIN sent[q] = {}
               /\ io = None /\ DOMAIN posted = {}
    BY <2>2, SMTT(60) DEF Init, Mine, Theirs, Mailed
  <2>3. ASSUME Init PROVE TextsExact /\ TextsNumbered /\ MessagesExact /\ MessagesNumbered
    BY <2>2, <2>3, Zenon DEF TextsExact, TextsNumbered, MessagesExact, MessagesNumbered, Below
  <2>4. ASSUME Init PROVE MessagesKept
    <3>1. \A q \in Peers : arrived[q] = {}
      BY <2>4 DEF Init
    <3> QED
      BY <2>2, <2>4, <3>1, Zenon DEF MessagesKept, Logged, Waiting
  <2> QED
    BY <2>1, <2>3, <2>4, InitTyped
<1>2. Inv /\ [Next]_vars => Inv'
  BY NextTyped, NextSending, NextTexts, NextMessages, NextKept, Zenon
<1>3. Inv => LogsExact
  BY LogsHalves, Zenon
<1> QED
  BY <1>1, <1>2, <1>3, PTL DEF Spec
=============================================================================
