---------------------------- MODULE FileTransfer ----------------------------
(***************************************************************************)
(* Files on their way to one client, the console or the GUI, from several  *)
(* senders, each over its own session.                                     *)
(*                                                                         *)
(*   sender     InitiateFileTransferWithSession gives the file a key and   *)
(*              offers it; SignalFileTransfer takes the verdict; the worker *)
(*              thread of the BVFileTransferContext streams the file.      *)
(*   receiver   each session reads frames, and chunks between BEGIN and    *)
(*              END; all sessions feed one mailbox, whose thread writes    *)
(*              the files.  The console posts an offer to the io thread,   *)
(*              where the user is asked; the GUI keeps it for its main     *)
(*              thread, whose answer is posted to the io thread.           *)
(*                                                                         *)
(* Abstracted: the bytes of a chunk are the file it is from and its        *)
(* number; how many they are is counted.  The destination of a file is the *)
(* file itself (names differ), MainMenu is every screen but the prompt.  A *)
(* session delivers its frames in order; the frames it loses when they     *)
(* come too fast are those of module Session.  Once a session reads chunks *)
(* and finds another frame, its reads are out of step with the stream: the *)
(* model does not say what it makes of the rest, and no property speaks of *)
(* it.                                                                     *)
(***************************************************************************)
EXTENDS Naturals, Sequences

CONSTANTS
  Senders,
  Files,
  Owner,        \* the sender of each file
  Bytes,        \* its size
  Modulus,      \* of a uint32_t: 2^32 (any number, so that TLC can count that far)
  Earlier,      \* files each sender has offered to others before
  None,
  MaxKey,       \* bound: keys a sender can reach
  MaxExtras     \* bound: chat messages and removed sessions that come between

ASSUME FileAssumption ==
  /\ Owner \in [Files -> Senders]
  /\ Bytes \in [Files -> Nat]
  /\ Modulus \in Nat \ {0}
  /\ Earlier \in [Senders -> 0..MaxKey]
  /\ None \notin Files \cup Senders
  /\ MaxKey \in Nat /\ MaxExtras \in Nat

VARIABLES
  \* at each sender
  ftcid,              \* the key its next file gets
  pendingOutgoing_m,  \* files offered, by key
  transfer,           \* of each file: its progress, key and bytes sent
  \* between the two ends of each session
  stream,             \* frames towards the receiver
  control,            \* verdicts towards the sender
  listed,             \* the ends that still have the session in sessions_m
  \* at the receiver
  mode,               \* of each session: what StartReading... is armed for
  inMailBox,          \* the app's mailbox
  posted,             \* offers posted to the io thread
  uiState, priorUiState, pendingOffer,
  client,             \* "console" or "gui"
  pendingOffers,      \* the GUI's offers its main thread has not taken yet
  offerSenders,       \* the sender of an offer, by key
  alerts,             \* the offers the GUI asks about, one after the other
  responses,          \* its answers posted to the io thread
  fileTransferData,   \* destination, by key
  disk,               \* contents of each destination
  process,            \* the receiver's app and each sender: running or not
  \* history
  saved,              \* what was on disk when a file was reported as saved
  accepted,           \* files the user said yes to
  extras, upsets

sender   == <<ftcid, pendingOutgoing_m, transfer>>
ui       == <<uiState, priorUiState, pendingOffer, accepted>>
gui      == <<client, pendingOffers, offerSenders, alerts, responses>>
app      == <<fileTransferData, disk, saved>>
vars     == <<sender, stream, control, listed, mode, inMailBox, posted, ui, gui,
              app, process, extras, upsets>>

Keys == 0..MaxKey

Message(type, k, f, n) == [type |-> type, key |-> k, file |-> f, part |-> n]

Chunk(f, n) == [file |-> f, part |-> n]

(* The size in a uint32_t. *)
FSize(f) == Bytes[f] % Modulus

(* The sizes of BVTCPCommon.hpp.  A size that is at a limit, or from 1000  *)
(* to 1024, falls to the last case.                                        *)
DetermineChunkSize(n) ==
  CASE n < 256                    -> 64
    [] n >= 256 /\ n < 1000       -> 256
    [] n > 1024 /\ n < 8000       -> 512
    [] n > 8000 /\ n < 64000      -> 4096
    [] n > 64000 /\ n < 256000    -> 32768
    [] n > 256000 /\ n < 1000000  -> 65536
    [] n > 1000000 /\ n < 5000000 -> 524288
    [] OTHER                      -> 1048676

CSize(f) == DetermineChunkSize(FSize(f))

(* The chunks that n bytes of a file take. *)
ChunksFor(f, n) == (n + CSize(f) - 1) \div CSize(f)

(* A whole file, as it should be saved. *)
Contents(f) ==
  [parts |-> [n \in 1..ChunksFor(f, Bytes[f]) |-> Chunk(f, n)], bytes |-> Bytes[f]]

(* What an earlier transfer has left at a destination. *)
Leftover == Chunk(None, 0)

Chat == Message("CHAT", 0, None, 0)

Nothing == [k \in Keys |-> None]

(* The keys of a process start at 0 and count the files it has offered. *)
Init ==
  /\ ftcid = Earlier
  /\ pendingOutgoing_m = [s \in Senders |-> Nothing]
  /\ transfer = [f \in Files |-> [at |-> "none", key |-> 0, sent |-> 0]]
  /\ stream = [s \in Senders |-> <<>>]
  /\ control = [s \in Senders |-> <<>>]
  /\ listed = [s \in Senders |-> {"sender", "receiver"}]
  /\ mode = [s \in Senders |-> "frames"]
  /\ inMailBox = <<>>
  /\ posted = <<>>
  /\ uiState = "MainMenu"
  /\ priorUiState = "MainMenu"
  /\ pendingOffer = None
  /\ client \in {"console", "gui"}
  /\ pendingOffers = <<>>
  /\ offerSenders = Nothing
  /\ alerts = <<>>
  /\ responses = <<>>
  /\ fileTransferData = Nothing
  /\ disk = [f \in Files |-> <<Leftover>>]
  /\ process = [p \in Senders \cup {None} |-> "running"]
  /\ saved = [f \in Files |-> None]
  /\ accepted = {}
  /\ extras = 0
  /\ upsets = {}

Runs(p) == process[p] = "running"

Upset(why) == upsets' = upsets \cup why

Put(s, m) == stream' = [stream EXCEPT ![s] = Append(@, m)]

----------------------------------------------------------------------------
(* The senders. *)

(* SendChatLine with "|f path", and InitiateFileTransferWithSession. *)
InitiateFileTransferWithSession(f) ==
  LET s == Owner[f]
      k == ftcid[s]
  IN /\ Runs(s)
     /\ "sender" \in listed[s]
     /\ transfer[f].at = "none"
     /\ k < MaxKey
     /\ ftcid' = [ftcid EXCEPT ![s] = k + 1]
     /\ pendingOutgoing_m' = [pendingOutgoing_m EXCEPT ![s][k] = f]
     /\ transfer' = [transfer EXCEPT ![f].at = "offered", ![f].key = k]
     /\ Put(s, Message("OFFER", k, f, 0))
     /\ UNCHANGED <<control, listed, mode, inMailBox, posted, ui, gui, app, process,
                    extras, upsets>>

(* Mutant: the verdict is not looked at. *)
SignalFileTransferAnyway(s) ==
  /\ Runs(s)
  /\ control[s] # <<>>
  /\ control' = [control EXCEPT ![s] = Tail(@)]
  /\ LET k == Head(control[s]).key
         f == pendingOutgoing_m[s][k]
     IN /\ f # None
        /\ pendingOutgoing_m' = [pendingOutgoing_m EXCEPT ![s][k] = None]
        /\ transfer' = [transfer EXCEPT ![f].at = "first"]
  /\ UNCHANGED <<ftcid, stream, listed, mode, inMailBox, posted, ui, gui, app,
                 process, extras, upsets>>

(* SignalFileTransfer: sessions_m.at throws if the session is gone, which  *)
(* ends the io thread and with it the process.                             *)
SignalFileTransfer(s) ==
  /\ Runs(s)
  /\ control[s] # <<>>
  /\ control' = [control EXCEPT ![s] = Tail(@)]
  /\ LET m == Head(control[s])
         f == pendingOutgoing_m[s][m.key]
     IN IF f = None
        THEN UNCHANGED <<pendingOutgoing_m, transfer, process>>
        ELSE /\ pendingOutgoing_m' = [pendingOutgoing_m EXCEPT ![s][m.key] = None]
             /\ IF m.type = "REJECT"
                THEN /\ transfer' = [transfer EXCEPT ![f].at = "rejected"]
                     /\ UNCHANGED process
                ELSE IF "sender" \in listed[s]
                THEN /\ transfer' = [transfer EXCEPT ![f].at = "first"]
                     /\ UNCHANGED process
                ELSE /\ process' = [process EXCEPT ![s] = "aborted"]
                     /\ UNCHANGED transfer
  /\ UNCHANGED <<ftcid, stream, listed, mode, inMailBox, posted, ui, gui, app,
                 extras, upsets>>

(* The loop of the worker thread turns while it is running, and goes on    *)
(* with the file while its stream is good.                                 *)
LaunchFileTransfer(f) ==
  /\ Runs(Owner[f])
  /\ transfer[f].at \in {"first", "ongoing"}

(* Mutant: the test for the last chunk leaves out the chunk itself. *)
TransferNextChunkNoEnd(f) ==
  LET n == transfer[f].sent
      s == Owner[f]
  IN /\ transfer[f].at \in {"first", "ongoing"}
     /\ IF transfer[f].at = "first"
        THEN /\ Put(s, Message("BEGIN", transfer[f].key, f, 0))
             /\ transfer' = [transfer EXCEPT ![f].at = "ongoing"]
        ELSE /\ n < Bytes[f]
             /\ Put(s, Message("CHUNK", transfer[f].key, f, n \div CSize(f) + 1))
             /\ transfer' = [transfer EXCEPT
                   ![f].sent = IF n + CSize(f) < Bytes[f] THEN n + CSize(f) ELSE Bytes[f],
                   ![f].at = IF n + CSize(f) <= Bytes[f] THEN "ongoing" ELSE "stuck"]
     /\ UNCHANGED <<ftcid, pendingOutgoing_m, control, listed, mode, inMailBox,
                    posted, ui, gui, app, process, extras, upsets>>

(***************************************************************************)
(* TransferNextChunk on the worker thread: BEGIN, then a chunk at a time,  *)
(* the last one, told by a sum that wraps, as END.  A file that has no     *)
(* bytes left when the next chunk is read is done without an END; a chunk  *)
(* that is cut short by the end of the file and is not the last one leaves *)
(* the stream in its failed state, and the thread turns in its loop for    *)
(* ever ("stuck").                                                         *)
(***************************************************************************)
TransferNextChunk(f) ==
  LET s == Owner[f]
      k == transfer[f].key
      n == transfer[f].sent
      whole == n + CSize(f) <= Bytes[f]
      last == (n + CSize(f)) % Modulus >= FSize(f)
      To(at, sent) == transfer' = [transfer EXCEPT ![f].at = at, ![f].sent = sent]
  IN /\ LaunchFileTransfer(f)
     /\ \/ /\ transfer[f].at = "first"
           /\ Put(s, Message("BEGIN", k, f, 0))
           /\ To("ongoing", n)
           /\ UNCHANGED upsets
        \/ /\ transfer[f].at = "ongoing"
           /\ n < Bytes[f]
           /\ Put(s, Message(IF last THEN "END" ELSE "CHUNK", k, f, n \div CSize(f) + 1))
           /\ To(IF last THEN "done" ELSE IF whole THEN "ongoing" ELSE "stuck",
                 IF whole THEN n + CSize(f) ELSE Bytes[f])
           /\ UNCHANGED upsets
        \/ /\ transfer[f].at = "ongoing"
           /\ n = Bytes[f]
           /\ To("done", n)
           /\ Upset({"empty"})
           /\ UNCHANGED stream
     /\ UNCHANGED <<ftcid, pendingOutgoing_m, control, listed, mode, inMailBox,
                    posted, ui, gui, app, process, extras>>

(* SendDataToNode: a chat message goes into the same stream. *)
SendDataToNode(s) ==
  /\ Runs(s)
  /\ "sender" \in listed[s]
  /\ extras < MaxExtras
  /\ extras' = extras + 1
  /\ Put(s, Chat)
  /\ UNCHANGED <<sender, control, listed, mode, inMailBox, posted, ui, gui, app,
                 process, upsets>>

----------------------------------------------------------------------------
(* The receiver's sessions. *)

PutMessageIntoAppMailbox(m) == inMailBox' = Append(inMailBox, m)

(* OnReceiveStandardFrame: offers and BEGIN go to the app, and BEGIN makes *)
(* the session read chunks.                                                *)
ReadMessageFrameCallback(s, m) ==
  /\ mode[s] = "frames"
  /\ \/ /\ m.type \in {"OFFER", "BEGIN"}
        /\ PutMessageIntoAppMailbox(m)
        /\ mode' = [mode EXCEPT ![s] = IF m.type = "BEGIN" THEN "chunks" ELSE @]
     \/ /\ m.type = "CHAT"
        /\ UNCHANGED <<mode, inMailBox>>
  /\ UNCHANGED upsets

(* What comes while a file is read is taken for chunks, up to END. *)
ReadFileChunkCallback(s, m) ==
  /\ mode[s] = "chunks"
  /\ \/ /\ m.type \in {"CHUNK", "END"}
        /\ PutMessageIntoAppMailbox(m)
        /\ mode' = [mode EXCEPT ![s] = IF m.type = "END" THEN "frames" ELSE @]
        /\ UNCHANGED upsets
     \/ /\ m.type \in {"OFFER", "BEGIN", "CHAT"}
        /\ mode' = [mode EXCEPT ![s] = "out of step"]
        /\ Upset({"stream"})
        /\ UNCHANGED inMailBox

ReadStream(s) ==
  /\ Runs(None)
  /\ stream[s] # <<>>
  /\ \/ ReadMessageFrameCallback(s, Head(stream[s]))
     \/ ReadFileChunkCallback(s, Head(stream[s]))
  /\ stream' = [stream EXCEPT ![s] = Tail(@)]
  /\ UNCHANGED <<sender, control, listed, posted, ui, gui, app, process, extras>>

(* HandleServiceDeregistration at either end: RemoveSession.  The session  *)
(* goes on reading.                                                        *)
RemoveSession(s, end) ==
  /\ end \in listed[s]
  /\ extras < MaxExtras
  /\ extras' = extras + 1
  /\ listed' = [listed EXCEPT ![s] = @ \ {end}]
  /\ Upset({"removed"})
  /\ UNCHANGED <<sender, stream, control, mode, inMailBox, posted, ui, gui, app,
                 process>>

----------------------------------------------------------------------------
(***************************************************************************)
(* The receiver's mailbox thread.  BVReceivedFile: Begin starts the file   *)
(* empty, AppendChunk adds a chunk, Finish adds the last one and brings    *)
(* the file to the advertised size, cutting it or filling it up.           *)
(***************************************************************************)
Begin(f) == [disk EXCEPT ![f] = <<>>]

AppendChunk(f, c) == [disk EXCEPT ![f] = Append(@, c)]

Resized(c, n) == [i \in 1..n |-> IF i <= Len(c) THEN c[i] ELSE Leftover]

(* The file that ends, c its last chunk, at the destination of f. *)
Finish(f, c) ==
  [parts |-> Resized(Append(disk[f], c), ChunksFor(c.file, FSize(c.file))),
   bytes |-> FSize(c.file)]

Handles(type) ==
  /\ Runs(None)
  /\ inMailBox # <<>>
  /\ Head(inMailBox).type = type
  /\ inMailBox' = Tail(inMailBox)

(* The GUI's offers that have no answer yet. *)
Unanswered ==
  {pendingOffers[i] : i \in DOMAIN pendingOffers} \cup {alerts[i] : i \in DOMAIN alerts}

(* The console has the user asked. *)
PostOffer(m) ==
  /\ client = "console"
  /\ posted' = Append(posted, m)
  /\ UNCHANGED <<gui, upsets>>

(* The GUI keeps the offer, and its sender by the key of the offer alone. *)
KeepOffer(m) ==
  /\ client = "gui"
  /\ pendingOffers' = Append(pendingOffers, m)
  /\ offerSenders' = [offerSenders EXCEPT ![m.key] = Owner[m.file]]
  /\ Upset({u \in {"offers"} : \E o \in Unanswered :
               o.key = m.key /\ Owner[o.file] # Owner[m.file]})
  /\ UNCHANGED <<client, alerts, responses, posted>>

HandleFileOffer ==
  /\ Handles("OFFER")
  /\ PostOffer(Head(inMailBox)) \/ KeepOffer(Head(inMailBox))
  /\ UNCHANGED <<sender, stream, control, listed, mode, ui, app, process, extras>>

(* Mutant: the destination is not truncated. *)
HandleFileTransferBeginAppends ==
  /\ Handles("BEGIN")
  /\ fileTransferData' = [fileTransferData EXCEPT
                            ![Head(inMailBox).key] = Head(inMailBox).file]
  /\ UNCHANGED <<sender, stream, control, listed, mode, posted, ui, gui, process,
                 disk, saved, extras, upsets>>

(* Mutant: the key is not registered. *)
HandleFileTransferBeginForgets ==
  /\ Handles("BEGIN")
  /\ disk' = [disk EXCEPT ![Head(inMailBox).file] = <<>>]
  /\ UNCHANGED <<sender, stream, control, listed, mode, posted, ui, gui, process,
                 fileTransferData, saved, extras, upsets>>

(* The destination is started clean and the key registered. *)
HandleFileTransferBegin ==
  /\ Handles("BEGIN")
  /\ LET m == Head(inMailBox) IN
     /\ disk' = Begin(m.file)
     /\ fileTransferData' = [fileTransferData EXCEPT ![m.key] = m.file]
     /\ Upset({u \in {"keys"} : fileTransferData[m.key] # None})
  /\ UNCHANGED <<sender, stream, control, listed, mode, posted, ui, gui, process,
                 saved, extras>>

(* A chunk under a key that is not there is fatal: ListenToMail throws. *)
HandleFileChunkSent ==
  /\ Handles("CHUNK")
  /\ LET m == Head(inMailBox)
         to == fileTransferData[m.key]
     IN IF to = None
        THEN process' = [process EXCEPT ![None] = "aborted"] /\ UNCHANGED disk
        ELSE /\ disk' = AppendChunk(to, Chunk(m.file, m.part))
             /\ UNCHANGED process
  /\ UNCHANGED <<sender, stream, control, listed, mode, posted, ui, gui,
                 fileTransferData, saved, extras, upsets>>

(* The GUI moves a file on to its save directory, if it can. *)
MoveToSaveDirectory(f) ==
  /\ client = "gui"
  /\ disk' = [disk EXCEPT ![f] = <<>>]

HandleFileTransferEnd ==
  /\ Handles("END")
  /\ LET m == Head(inMailBox)
         to == fileTransferData[m.key]
         all == Finish(to, Chunk(m.file, m.part))
     IN IF to = None
        THEN /\ process' = [process EXCEPT ![None] = "aborted"]
             /\ UNCHANGED app
        ELSE /\ \/ disk' = [disk EXCEPT ![to] = all.parts]
                \/ MoveToSaveDirectory(to)
             /\ saved' = [saved EXCEPT ![to] = all]
             /\ fileTransferData' = [fileTransferData EXCEPT ![m.key] = None]
             /\ UNCHANGED process
  /\ UNCHANGED <<sender, stream, control, listed, mode, posted, ui, gui, extras,
                 upsets>>

----------------------------------------------------------------------------
(* The receiver's io thread: the prompt. *)

(* The function HandleFileOffer posts. *)
ShowOffer ==
  /\ Runs(None)
  /\ posted # <<>>
  /\ posted' = Tail(posted)
  /\ pendingOffer' = Head(posted)
  /\ priorUiState' = uiState
  /\ uiState' = "FileOffer"
  /\ Upset({u \in {"prompt"} : uiState = "FileOffer"})
  /\ UNCHANGED <<sender, stream, control, listed, mode, inMailBox, gui, app, process,
                 accepted, extras>>

(* Mutant: the offer is not reset. *)
HandleFileOfferKeyKeeps(answer) ==
  /\ uiState = "FileOffer"
  /\ uiState' = priorUiState
  /\ UNCHANGED <<sender, stream, control, listed, mode, inMailBox, posted,
                 priorUiState, pendingOffer, gui, app, process, accepted, extras,
                 upsets>>

(* The verdict goes to the sender, if its session is still listed. *)
RespondToFileOffer(s, k, answer) ==
  control' = IF "receiver" \in listed[s]
             THEN [control EXCEPT ![s] = Append(@, [type |-> answer, key |-> k])]
             ELSE control

(* The keys y and n; others are ignored. *)
HandleFileOfferKey(answer) ==
  /\ Runs(None)
  /\ uiState = "FileOffer"
  /\ IF pendingOffer = None
     THEN UNCHANGED <<control, accepted>>
     ELSE /\ RespondToFileOffer(Owner[pendingOffer.file], pendingOffer.key, answer)
          /\ accepted' = accepted \cup
                           {f \in {pendingOffer.file} : answer = "ACCEPT"}
  /\ pendingOffer' = None
  /\ uiState' = priorUiState
  /\ UNCHANGED <<sender, stream, listed, mode, inMailBox, posted, priorUiState,
                 gui, app, process, extras, upsets>>

----------------------------------------------------------------------------
(* The GUI's main thread, and what it posts to the io thread. *)

(* FileOffered is dispatched to the main thread after each offer. *)
TakeFileOffers ==
  /\ Runs(None)
  /\ pendingOffers # <<>>
  /\ alerts' = alerts \o pendingOffers
  /\ pendingOffers' = <<>>
  /\ UNCHANGED <<sender, stream, control, listed, mode, inMailBox, posted, ui, app,
                 client, offerSenders, responses, process, extras, upsets>>

(* acceptOffer and rejectOffer: the alert is about the first offer, and its *)
(* sender is looked up by the key and forgotten.                           *)
RespondToOffer(answer) ==
  /\ Runs(None)
  /\ alerts # <<>>
  /\ LET m == Head(alerts)
         s == offerSenders[m.key]
     IN /\ offerSenders' = [offerSenders EXCEPT ![m.key] = None]
        /\ responses' = IF s = None THEN responses
                        ELSE Append(responses, [to |-> s, type |-> answer, key |-> m.key])
        /\ accepted' = accepted \cup {f \in {m.file} : answer = "ACCEPT"}
  /\ alerts' = Tail(alerts)
  /\ UNCHANGED <<sender, stream, control, listed, mode, inMailBox, posted, uiState,
                 priorUiState, pendingOffer, app, client, pendingOffers, process,
                 extras, upsets>>

(* The function RespondToOffer posts. *)
PostedResponse ==
  /\ Runs(None)
  /\ responses # <<>>
  /\ RespondToFileOffer(Head(responses).to, Head(responses).key, Head(responses).type)
  /\ responses' = Tail(responses)
  /\ UNCHANGED <<sender, stream, listed, mode, inMailBox, posted, ui, app, client,
                 pendingOffers, offerSenders, alerts, process, extras, upsets>>

----------------------------------------------------------------------------
(* OnKey, while the prompt is up, or a button of the alert. *)
Answer == \E a \in {"ACCEPT", "REJECT"} : HandleFileOfferKey(a) \/ RespondToOffer(a)

IoThread == ShowOffer \/ PostedResponse

MailboxThread ==
  \/ HandleFileOffer
  \/ HandleFileTransferBegin
  \/ HandleFileChunkSent
  \/ HandleFileTransferEnd

(* What goes on by itself: threads and sessions, and a user who is asked. *)
Progress ==
  \/ MailboxThread
  \/ \E s \in Senders : ReadStream(s)
  \/ Answer
  \/ IoThread
  \/ TakeFileOffers
  \/ \E s \in Senders : SignalFileTransfer(s)
  \/ \E f \in Files : TransferNextChunk(f)

Next ==
  \/ Progress
  \/ \E f \in Files : InitiateFileTransferWithSession(f)
  \/ \E s \in Senders : SendDataToNode(s)
  \/ \E s \in Senders, end \in {"sender", "receiver"} : RemoveSession(s, end)

Spec == Init /\ [][Next]_vars

(* As long as a thread, a session or an asked user can do something, one of *)
(* them does.  Nothing here can be repeated for ever, so each has its turn. *)
(* This is assumed only until something has come between: Settles, the one  *)
(* property that needs it, promises nothing from then on.                   *)
FairSpec == Spec /\ WF_vars(upsets = {} /\ Progress)

----------------------------------------------------------------------------
(***************************************************************************)
(* Properties.                                                             *)
(***************************************************************************)

Messages == [type : {"OFFER", "BEGIN", "CHUNK", "END"}, key : Keys, file : Files,
             part : Nat]

ASSUME NoneAssumption == None \notin Messages

Verdicts == [type : {"ACCEPT", "REJECT"}, key : Keys]

Responses == [to : Senders, type : {"ACCEPT", "REJECT"}, key : Keys]

Transfers == [at : {"none", "offered", "rejected", "first", "ongoing", "done",
                    "stuck"},
              key : Keys, sent : Nat]

Chunks == [file : Files \cup {None}, part : Nat]

Reasons == {"keys", "stream", "prompt", "removed", "empty", "offers"}

GuiTypes ==
  /\ client \in {"console", "gui"}
  /\ pendingOffers \in Seq(Messages)
  /\ offerSenders \in [Keys -> Senders \cup {None}]
  /\ alerts \in Seq(Messages)
  /\ responses \in Seq(Responses)

(* Keys, messages, verdicts and files stay in range. *)
TypeOK ==
  /\ ftcid \in [Senders -> Keys]
  /\ pendingOutgoing_m \in [Senders -> [Keys -> Files \cup {None}]]
  /\ transfer \in [Files -> Transfers]
  /\ stream \in [Senders -> Seq(Messages \cup {Chat})]
  /\ control \in [Senders -> Seq(Verdicts)]
  /\ listed \in [Senders -> SUBSET {"sender", "receiver"}]
  /\ mode \in [Senders -> {"frames", "chunks", "out of step"}]
  /\ inMailBox \in Seq(Messages)
  /\ posted \in Seq(Messages)
  /\ uiState \in {"MainMenu", "FileOffer"}
  /\ priorUiState \in {"MainMenu", "FileOffer"}
  /\ pendingOffer \in Messages \cup {None}
  /\ GuiTypes
  /\ fileTransferData \in [Keys -> Files \cup {None}]
  /\ disk \in [Files -> Seq(Chunks)]
  /\ process \in [Senders \cup {None} -> {"running", "aborted"}]
  /\ saved \in [Files -> [parts : Seq(Chunks), bytes : Nat] \cup {None}]
  /\ accepted \in SUBSET Files
  /\ extras \in Nat
  /\ upsets \in SUBSET Reasons

(* Nothing of a file leaves the sender unless the user at the other end    *)
(* accepted that file, whatever offers and verdicts are under way; at the  *)
(* GUI, unless offers of two senders under the same key were both waiting  *)
(* for an answer.                                                          *)
Consent ==
  "offers" \notin upsets =>
    \A f \in Files :
      transfer[f].at \in {"first", "ongoing", "done", "stuck"} => f \in accepted

(* No sum of TransferNextChunk wraps, and the size is not cut. *)
Fits(f) == Bytes[f] + CSize(f) <= Modulus

(* The worker thread ends, and has then sent every byte of the file, for   *)
(* every size whose sums do not wrap: the chunk it sends as END is the one *)
(* that reaches the end of the file, whichever case of DetermineChunkSize  *)
(* the size falls to, and no chunk before it is cut short.                 *)
WholeFileSent ==
  \A f \in Files :
    Fits(f) => /\ transfer[f].at # "stuck"
               /\ (transfer[f].at = "done" => transfer[f].sent = Bytes[f])

(* A file reported as saved has exactly the bytes that were to be sent,    *)
(* whatever was at its destination, unless its size is out of range, two   *)
(* transfers under way had the same key or something came into the stream  *)
(* of a file.                                                              *)
SavedIntact ==
  upsets \cap {"keys", "stream"} = {} =>
    \A f \in Files : saved[f] # None /\ Fits(f) => saved[f] = Contents(f)

(* The handlers of the mailbox thread find the key of every chunk: the app *)
(* is not ended by a transfer, unless two under way had the same key or    *)
(* something came into the stream of a file.                               *)
NoFatal == upsets \cap {"keys", "stream"} = {} => process[None] = "running"

(* The keyboard belongs to the prompt exactly while there is an offer to   *)
(* answer, so that a user who has answered is back where they were, unless *)
(* a second offer found the prompt open: from then on HandleFileOfferKey   *)
(* returns to the prompt itself.                                           *)
PromptCloses ==
  "prompt" \notin upsets =>
    (uiState = "FileOffer" <=> pendingOffer # None)

(* Every file offered is saved intact or turned down in the end, as long   *)
(* as nothing comes between and its size is in range: time and again there *)
(* is none that is still on its way.                                       *)
Settles ==
  []<>(\/ upsets # {}
       \/ \A f \in Files : Fits(f) =>
            \/ transfer[f].at \in {"none", "rejected"}
            \/ saved[f] = Contents(f))

(* tests/file_transfer_test_Integrity.cpp: "receiving a file always yields *)
(* exactly the bytes that were sent, regardless of what (if anything) was  *)
(* left in the destination".                                               *)
ReceivedExactly == \A f \in Files : saved[f] # None => saved[f] = Contents(f)
=============================================================================
