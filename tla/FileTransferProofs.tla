------------------------- MODULE FileTransferProofs -------------------------
(***************************************************************************)
(* Proofs about module FileTransfer: its types, Consent, WholeFileSent,    *)
(* PromptCloses, NoFatal and SavedIntact, for any number of senders and    *)
(* files, files of any size and any bounds.                                *)
(*                                                                         *)
(* Consent says something of the sender and of the user at the other end;  *)
(* what links them are an offer on its way there and a verdict on its way  *)
(* back, and a verdict names nothing but a key.  The inductive invariant   *)
(* Linked therefore says that the keys a sender has given out are its own  *)
(* count and all different, that an offer carries the key of its file      *)
(* wherever it is (stream, mailbox, posted, prompt, alerts), and that an   *)
(* ACCEPT on its way carries the key of an accepted file of the sender it  *)
(* goes to.  At the GUI this last point rests on SendersKnown: the sender  *)
(* kept under the key of an offer that waits is the owner of its file,     *)
(* which is so until offers of two senders wait under one key.             *)
(*                                                                         *)
(* WholeFileSent needs only that no more is sent than there is: where the  *)
(* sums fit, they do not wrap, and the test for the last chunk is exact.   *)
(*                                                                         *)
(* NoFatal and SavedIntact are about the other end.  The inductive         *)
(* invariant FInv numbers the messages of each file, BEGIN being 0, and    *)
(* says that there are two counts a and b of it: the app has handled the   *)
(* parts below b, the mailbox holds those from b to a, the stream those    *)
(* from a to the last one sent, all in order.  As long as keys do not      *)
(* clash and streams are not mixed, a session that is amid a file (between *)
(* BEGIN and END, by its count a) is amid one only and reads chunks, and a *)
(* file the app is amid (by its count b) is registered under its key with  *)
(* the parts below b on disk.                                              *)
(***************************************************************************)
EXTENDS FileTransfer, TLAPS

(* Counting the parts of a file that were taken. *)
LEMMA PartsCount ==
  /\ \A i, j, n \in Nat : i <= j /\ j < n => i <= j + 1 /\ j + 1 <= n
  /\ \A n \in Nat : 0 < n => 1 <= n
  /\ 0 + 1 = 1 /\ 0 <= 0 /\ 1 <= 1
  OBVIOUS

(* The programs start with values of the right types, the file keys a      *)
(* sender has used before included.                                        *)
LEMMA InitTypeOK == Init => TypeOK
  <1> SUFFICES ASSUME Init PROVE TypeOK
    OBVIOUS
  <1> USE FileAssumption
  <1>1. 0 \in Keys
    BY DEF Keys
  <1>2. Earlier \in [Senders -> Keys]
    BY DEF Keys
  <1>3. Nothing \in [Keys -> Files \cup {None}]
    BY DEF Nothing
  <1>4. Leftover \in Chunks
    BY DEF Leftover, Chunk, Chunks
  <1>5. <<Leftover>> \in Seq(Chunks)
    BY <1>4
  <1>6. transfer \in [Files -> Transfers]
    BY <1>1 DEF Init, Transfers
  <1>7. disk \in [Files -> Seq(Chunks)]
    BY <1>5 DEF Init
  <1>8. /\ stream \in [Senders -> Seq(Messages \cup {Chat})]
        /\ control \in [Senders -> Seq(Verdicts)]
        /\ inMailBox \in Seq(Messages)
        /\ posted \in Seq(Messages)
    BY DEF Init
  <1>9. GuiTypes
    BY DEF Init, GuiTypes, Nothing
  <1> QED
    BY <1>2, <1>3, <1>6, <1>7, <1>8, <1>9 DEF Init, TypeOK

(* Message builds the messages the streams carry. *)
LEMMA MessageType ==
  ASSUME NEW type \in {"OFFER", "BEGIN", "CHUNK", "END"}, NEW k \in Keys,
         NEW f \in Files, NEW n \in Nat
  PROVE  Message(type, k, f, n) \in Messages
  BY DEF Message, Messages

(* A message that is not a chat is one of the mailbox's. *)
LEMMA NoChat ==
  ASSUME NEW m \in Messages \cup {Chat}, m.type # "CHAT"
  PROVE  m \in Messages
  BY DEF Chat, Message

(* Putting a message into a stream keeps the type of the streams. *)
LEMMA PutType ==
  ASSUME NEW M, NEW st \in [Senders -> Seq(M)], NEW s \in Senders, NEW m \in M
  PROVE  [st EXCEPT ![s] = Append(@, m)] \in [Senders -> Seq(M)]
  OBVIOUS

(* So does taking one out. *)
LEMMA TakeType ==
  ASSUME NEW M, NEW st \in [Senders -> Seq(M)], NEW s \in Senders, st[s] # <<>>
  PROVE  /\ [st EXCEPT ![s] = Tail(@)] \in [Senders -> Seq(M)]
         /\ Head(st[s]) \in M
  OBVIOUS

(* A step gives one transfer a new record. *)
LEMMA TransferUpdate ==
  ASSUME NEW t \in [Files -> Transfers], NEW f \in Files, NEW r \in Transfers
  PROVE  [t EXCEPT ![f] = r] \in [Files -> Transfers]
  OBVIOUS

(* The progress of a transfer, with its key or its count, in a record of   *)
(* the same type.                                                          *)
LEMMA TransferRecord ==
  ASSUME NEW r \in Transfers,
         NEW a \in {"none", "offered", "rejected", "first", "ongoing", "done",
                    "stuck"},
         NEW k \in Keys, NEW n \in Nat
  PROVE  /\ [r EXCEPT !.at = a] \in Transfers
         /\ [r EXCEPT !.at = a, !.key = k] \in Transfers
         /\ [r EXCEPT !.at = a, !.sent = n] \in Transfers
  BY Zenon DEF Transfers

(* A step that leaves the GUI alone keeps its types. *)
LEMMA GuiAlone ==
  ASSUME GuiTypes, UNCHANGED gui
  PROVE  GuiTypes'
  BY DEF GuiTypes, gui

(* A chunk has a size, and a byte is in some chunk. *)
LEMMA ChunkSize ==
  ASSUME NEW f \in Files, NEW n \in Nat
  PROVE  /\ FSize(f) \in Nat
         /\ CSize(f) \in Nat \ {0}
         /\ n \div CSize(f) \in Nat
         /\ ChunksFor(f, n) \in Nat
  <1>1. PICK b \in Nat : b = Bytes[f]
    BY FileAssumption
  <1>2. PICK M \in Nat \ {0} : M = Modulus
    BY FileAssumption
  <1>3. b % M \in Nat
    BY ONLY b \in Nat, M \in Nat \ {0}
  <1>4. PICK z \in Nat : z = FSize(f)
    BY <1>1, <1>2, <1>3 DEF FSize
  <1>5. DetermineChunkSize(z) \in Nat \ {0}
    BY ONLY z \in Nat DEF DetermineChunkSize
  <1>6. PICK c \in Nat \ {0} : c = CSize(f)
    BY <1>4, <1>5 DEF CSize
  <1>7. n \div c \in Nat
    BY ONLY n \in Nat, c \in Nat \ {0}
  <1>8. PICK d \in Nat : d = n + c - 1
    BY ONLY n \in Nat, c \in Nat \ {0}
  <1>9. d \div c \in Nat
    BY ONLY d \in Nat, c \in Nat \ {0}
  <1> QED
    BY <1>4, <1>6, <1>7, <1>8, <1>9 DEF ChunksFor

(* InitiateFileTransferWithSession keeps the types. *)
LEMMA InitiateType ==
  ASSUME TypeOK, NEW f \in Files, InitiateFileTransferWithSession(f)
  PROVE  TypeOK'
  <1> USE FileAssumption
  <1> PICK s \in Senders : s = Owner[f]
    OBVIOUS
  <1> PICK k \in Keys : k = ftcid[s]
    BY Zenon DEF TypeOK
  <1>1. k + 1 \in Keys /\ k < MaxKey
    BY DEF InitiateFileTransferWithSession, Keys
  <1>2. ftcid' \in [Senders -> Keys]
    BY <1>1, Zenon DEF InitiateFileTransferWithSession, TypeOK
  <1>3. pendingOutgoing_m' \in [Senders -> [Keys -> Files \cup {None}]]
    BY Zenon DEF InitiateFileTransferWithSession, TypeOK
  <1>4. transfer' = [transfer EXCEPT ![f].at = "offered", ![f].key = k]
    BY DEF InitiateFileTransferWithSession
  <1>5. transfer' \in [Files -> Transfers]
    <2>1. transfer \in [Files -> Transfers] /\ transfer[f] \in Transfers
      BY Zenon DEF TypeOK
    <2>2. [transfer[f] EXCEPT !.at = "offered", !.key = k] \in Transfers
      BY <2>1, TransferRecord, Zenon
    <2>3. transfer' = [transfer EXCEPT
                         ![f] = [transfer[f] EXCEPT !.at = "offered", !.key = k]]
      BY <1>4, Zenon
    <2> QED
      BY ONLY <2>1, <2>2, <2>3, TransferUpdate, f \in Files
  <1>6. Message("OFFER", k, f, 0) \in Messages
    BY MessageType
  <1>7. stream' = [stream EXCEPT ![s] = Append(@, Message("OFFER", k, f, 0))]
    BY DEF InitiateFileTransferWithSession, Put
  <1>8. stream' \in [Senders -> Seq(Messages \cup {Chat})]
    BY <1>6, <1>7, PutType, Zenon DEF TypeOK
  <1> QED
    BY <1>2, <1>3, <1>5, <1>8, GuiAlone, Zenon
    DEF InitiateFileTransferWithSession, TypeOK, ui, app

(* SignalFileTransfer keeps the types. *)
LEMMA SignalType ==
  ASSUME TypeOK, NEW s \in Senders, SignalFileTransfer(s)
  PROVE  TypeOK'
  <1> USE FileAssumption
  <1>1. control' \in [Senders -> Seq(Verdicts)] /\ Head(control[s]) \in Verdicts
    BY TakeType, Zenon DEF SignalFileTransfer, TypeOK
  <1> PICK m \in Verdicts : m = Head(control[s])
    BY <1>1
  <1>a. m.key \in Keys
    BY DEF Verdicts
  <1>b. pendingOutgoing_m \in [Senders -> [Keys -> Files \cup {None}]]
    BY Zenon DEF TypeOK
  <1>c. pendingOutgoing_m[s][m.key] \in Files \cup {None}
    BY ONLY <1>a, <1>b, s \in Senders
  <1> PICK f \in Files \cup {None} : f = pendingOutgoing_m[s][m.key]
    BY <1>c
  <1>2. /\ pendingOutgoing_m' \in [Senders -> [Keys -> Files \cup {None}]]
        /\ transfer' \in [Files -> Transfers]
        /\ process' \in [Senders \cup {None} -> {"running", "aborted"}]
    <2>1. CASE f = None
      BY <2>1, Zenon DEF SignalFileTransfer, TypeOK
    <2>2. CASE f # None
      <3>1. pendingOutgoing_m' = [pendingOutgoing_m EXCEPT ![s][m.key] = None]
        BY <2>2, Zenon DEF SignalFileTransfer
      <3>2. pendingOutgoing_m' \in [Senders -> [Keys -> Files \cup {None}]]
        BY <3>1, Zenon DEF TypeOK
      <3>3. transfer' \in [Files -> Transfers]
        <4>1. \/ UNCHANGED transfer
              \/ transfer' = [transfer EXCEPT ![f].at = "rejected"]
              \/ transfer' = [transfer EXCEPT ![f].at = "first"]
          BY <2>2, Zenon DEF SignalFileTransfer
        <4>2. transfer \in [Files -> Transfers] /\ f \in Files
          BY <2>2, Zenon DEF TypeOK
        <4>3. transfer[f] \in Transfers
          BY ONLY <4>2
        <4>4. /\ [transfer[f] EXCEPT !.at = "rejected"] \in Transfers
              /\ [transfer[f] EXCEPT !.at = "first"] \in Transfers
          BY ONLY <4>3 DEF Transfers
        <4>5. \/ UNCHANGED transfer
              \/ transfer' = [transfer EXCEPT ![f] = [transfer[f] EXCEPT !.at = "rejected"]]
              \/ transfer' = [transfer EXCEPT ![f] = [transfer[f] EXCEPT !.at = "first"]]
          BY ONLY <4>1
        <4> QED
          BY ONLY <4>2, <4>4, <4>5, TransferUpdate
      <3>4. process' \in [Senders \cup {None} -> {"running", "aborted"}]
        BY <2>2, Zenon DEF SignalFileTransfer, TypeOK
      <3> QED
        BY <3>2, <3>3, <3>4
    <2> QED
      BY <2>1, <2>2
  <1> QED
    BY <1>1, <1>2, GuiAlone, Zenon DEF SignalFileTransfer, TypeOK, ui, app

(* TransferNextChunk keeps the types. *)
LEMMA ChunkType ==
  ASSUME TypeOK, NEW f \in Files, TransferNextChunk(f)
  PROVE  TypeOK'
  <1> USE FileAssumption
  <1> PICK s \in Senders : s = Owner[f]
    OBVIOUS
  <1> PICK k \in Keys : k = transfer[f].key
    BY Zenon DEF TypeOK, Transfers
  <1> PICK n \in Nat : n = transfer[f].sent
    BY Zenon DEF TypeOK, Transfers
  <1> PICK b \in Nat : b = Bytes[f]
    OBVIOUS
  <1> PICK z \in Nat : z = CSize(f)
    BY ChunkSize
  <1> PICK p \in Nat : p = n \div z + 1
    BY ChunkSize
  <1>a. transfer' \in [Files -> Transfers]
    <2>1. transfer \in [Files -> Transfers] /\ transfer[f] \in Transfers
      BY Zenon DEF TypeOK
    <2>2. n + z \in Nat
      OBVIOUS
    <2>3. PICK a \in {"ongoing", "done", "stuck"}, c \in Nat :
            transfer' = [transfer EXCEPT ![f].at = a, ![f].sent = c]
      <3>1. \E a \in {"ongoing", "done", "stuck"}, c \in {n, n + z, b} :
              transfer' = [transfer EXCEPT ![f].at = a, ![f].sent = c]
        BY Zenon DEF TransferNextChunk
      <3> QED
        BY ONLY <2>2, <3>1, n \in Nat, b \in Nat, Zenon
    <2>4. [transfer[f] EXCEPT !.at = a, !.sent = c] \in Transfers
      BY <2>1, TransferRecord, Zenon
    <2>5. transfer' = [transfer EXCEPT
                         ![f] = [transfer[f] EXCEPT !.at = a, !.sent = c]]
      BY <2>3, Zenon
    <2> QED
      BY ONLY <2>1, <2>4, <2>5, TransferUpdate, f \in Files
  <1>2. \/ UNCHANGED stream
        \/ stream' = [stream EXCEPT ![s] = Append(@, Message("BEGIN", k, f, 0))]
        \/ stream' = [stream EXCEPT ![s] = Append(@, Message("END", k, f, p))]
        \/ stream' = [stream EXCEPT ![s] = Append(@, Message("CHUNK", k, f, p))]
    BY Zenon DEF TransferNextChunk, Put
  <1>b. /\ Message("BEGIN", k, f, 0) \in Messages
        /\ Message("END", k, f, p) \in Messages
        /\ Message("CHUNK", k, f, p) \in Messages
    BY MessageType
  <1>3. stream' \in [Senders -> Seq(Messages \cup {Chat})]
    <2>1. stream \in [Senders -> Seq(Messages \cup {Chat})]
      BY Zenon DEF TypeOK
    <2>2. CASE UNCHANGED stream
      BY <2>1, <2>2
    <2>3. CASE stream' # stream
      <3>1. PICK m \in Messages \cup {Chat} :
              stream' = [stream EXCEPT ![s] = Append(@, m)]
        BY ONLY <1>2, <1>b, <2>3, Zenon
      <3> QED
        BY ONLY <2>1, <3>1, PutType, s \in Senders
    <2> QED
      BY <2>2, <2>3
  <1>4. upsets' \in SUBSET Reasons
    BY Zenon DEF TransferNextChunk, Upset, TypeOK, Reasons
  <1> QED
    BY <1>a, <1>3, <1>4, GuiAlone, Zenon DEF TransferNextChunk, TypeOK, ui, app

(* SendDataToNode, ReadStream, ReadMessageFrameCallback, ReadFileChunkCallback,
             PutMessageIntoAppMailbox and RemoveSession keep the types. *)
LEMMA SessionType ==
  ASSUME TypeOK, NEW s \in Senders,
         \/ SendDataToNode(s)
         \/ ReadStream(s)
         \/ \E end \in {"sender", "receiver"} : RemoveSession(s, end)
  PROVE  TypeOK'
  <1> USE FileAssumption
  <1>1. CASE SendDataToNode(s)
    <2>1. stream' \in [Senders -> Seq(Messages \cup {Chat})]
      BY <1>1, PutType, Zenon DEF SendDataToNode, Put, TypeOK
    <2>2. extras' \in Nat
      <3>1. extras \in Nat /\ extras' = extras + 1
        BY <1>1, Zenon DEF SendDataToNode, TypeOK
      <3> QED
        BY ONLY <3>1
    <2> QED
      BY <1>1, <2>1, <2>2, GuiAlone, Zenon DEF SendDataToNode, TypeOK, sender, ui, app
  <1>2. CASE ReadStream(s)
    <2>1. /\ stream' \in [Senders -> Seq(Messages \cup {Chat})]
          /\ Head(stream[s]) \in Messages \cup {Chat}
      BY <1>2, TakeType, Zenon
      DEF ReadStream, ReadMessageFrameCallback, ReadFileChunkCallback,
          PutMessageIntoAppMailbox, TypeOK
    <2>2. mode' \in [Senders -> {"frames", "chunks", "out of step"}]
      BY <1>2, ZenonT(60)
      DEF ReadStream, ReadMessageFrameCallback, ReadFileChunkCallback,
          PutMessageIntoAppMailbox, TypeOK
    <2>3. inMailBox' = inMailBox
            \/ (Head(stream[s]) \in Messages
                /\ inMailBox' = Append(inMailBox, Head(stream[s])))
      BY <1>2, <2>1, NoChat, Zenon
      DEF ReadStream, ReadMessageFrameCallback, ReadFileChunkCallback,
          PutMessageIntoAppMailbox
    <2>4. inMailBox' \in Seq(Messages)
      <3>1. inMailBox \in Seq(Messages)
        BY Zenon DEF TypeOK
      <3> QED
        BY ONLY <2>3, <3>1
    <2>5. upsets' \in SUBSET Reasons
      BY <1>2, Zenon
      DEF ReadStream, ReadMessageFrameCallback, ReadFileChunkCallback,
          PutMessageIntoAppMailbox, Upset, TypeOK, Reasons
    <2> QED
      BY <1>2, <2>1, <2>2, <2>4, <2>5, GuiAlone, Zenon
      DEF ReadStream, ReadMessageFrameCallback, ReadFileChunkCallback,
          PutMessageIntoAppMailbox, TypeOK, sender, ui, app
  <1>3. CASE \E end \in {"sender", "receiver"} : RemoveSession(s, end)
    <2>1. PICK end \in {"sender", "receiver"} : RemoveSession(s, end)
      BY <1>3
    <2>2. extras' \in Nat
      <3>1. extras \in Nat /\ extras' = extras + 1
        BY <2>1, Zenon DEF RemoveSession, TypeOK
      <3> QED
        BY ONLY <3>1
    <2>3. listed' \in [Senders -> SUBSET {"sender", "receiver"}]
      BY <2>1, Zenon DEF RemoveSession, TypeOK
    <2>4. upsets' \in SUBSET Reasons
      BY <2>1, Zenon DEF RemoveSession, Upset, TypeOK, Reasons
    <2> QED
      BY <2>1, <2>2, <2>3, <2>4, GuiAlone, Zenon DEF RemoveSession, TypeOK, sender, ui, app
  <1> QED
    BY <1>1, <1>2, <1>3

(* Taking a message out of the mailbox. *)
LEMMA HandlesType ==
  ASSUME TypeOK, NEW type, Handles(type)
  PROVE  /\ inMailBox' \in Seq(Messages)
         /\ Head(inMailBox) \in Messages
  <1>1. /\ inMailBox \in Seq(Messages)
        /\ inMailBox # <<>>
        /\ inMailBox' = Tail(inMailBox)
    BY Zenon DEF TypeOK, Handles
  <1> QED
    BY ONLY <1>1

(* resize_file yields a sequence of chunks of the size asked for. *)
LEMMA ResizedType ==
  ASSUME NEW c \in Seq(Chunks), NEW n \in Nat
  PROVE  Resized(c, n) \in Seq(Chunks)
  <1>1. Leftover \in Chunks
    BY DEF Leftover, Chunk, Chunks
  <1>2. \A i \in 1..n : (IF i <= Len(c) THEN c[i] ELSE Leftover) \in Chunks
    BY <1>1
  <1> QED
    BY <1>2 DEF Resized

(* The chunk of a message is a chunk of its file. *)
LEMMA ChunkOfMessage ==
  ASSUME NEW m \in Messages
  PROVE  /\ m.file \in Files
         /\ m.key \in Keys
         /\ Chunk(m.file, m.part) \in Chunks
  BY DEF Messages, Chunk, Chunks

(* The mailbox thread keeps the types. *)
LEMMA MailboxType ==
  ASSUME TypeOK, MailboxThread
  PROVE  TypeOK'
  <1> USE FileAssumption
  <1>1. CASE HandleFileOffer
    <2>1. inMailBox' \in Seq(Messages) /\ Head(inMailBox) \in Messages
      BY <1>1, HandlesType DEF HandleFileOffer, PostOffer, KeepOffer
    <2> PICK m \in Messages : m = Head(inMailBox)
      BY <2>1
    <2>2. PICK s \in Senders : s = Owner[m.file]
      BY ChunkOfMessage
    <2>3. CASE client = "console"
      <3>1. posted \in Seq(Messages) /\ posted' = Append(posted, m)
        BY <1>1, <2>3, Zenon DEF HandleFileOffer, PostOffer, KeepOffer, TypeOK
      <3>2. posted' \in Seq(Messages)
        BY ONLY <3>1, m \in Messages
      <3> QED
        BY <1>1, <2>1, <2>3, <3>2, GuiAlone, Zenon
        DEF HandleFileOffer, PostOffer, KeepOffer, TypeOK, sender, ui, app
    <2>4. CASE client = "gui"
      <3>1. /\ pendingOffers \in Seq(Messages)
            /\ pendingOffers' = Append(pendingOffers, m)
            /\ offerSenders \in [Keys -> Senders \cup {None}]
            /\ offerSenders' = [offerSenders EXCEPT ![m.key] = s]
        BY <1>1, <2>2, <2>4, Zenon DEF HandleFileOffer, PostOffer, KeepOffer, TypeOK, GuiTypes
      <3>2. /\ pendingOffers' \in Seq(Messages)
            /\ offerSenders' \in [Keys -> Senders \cup {None}]
        <4>1. pendingOffers' \in Seq(Messages)
          BY ONLY <3>1, m \in Messages
        <4>2. offerSenders' \in [Keys -> Senders \cup {None}]
          BY ONLY <3>1, s \in Senders, Zenon
        <4> QED
          BY <4>1, <4>2
      <3>3. GuiTypes' /\ posted' = posted
        BY <1>1, <2>4, <3>2, Zenon DEF HandleFileOffer, PostOffer, KeepOffer, TypeOK, GuiTypes
      <3>4. upsets' \in SUBSET Reasons
        BY <1>1, <2>4, Zenon DEF HandleFileOffer, PostOffer, KeepOffer, Upset, TypeOK, Reasons
      <3> QED
        BY <1>1, <2>1, <3>3, <3>4, Zenon
        DEF HandleFileOffer, PostOffer, KeepOffer, TypeOK, sender, ui, app
    <2> QED
      BY <2>3, <2>4, Zenon DEF TypeOK, GuiTypes
  <1>2. CASE HandleFileTransferBegin
    <2>1. inMailBox' \in Seq(Messages) /\ Head(inMailBox) \in Messages
      BY <1>2, HandlesType DEF HandleFileTransferBegin, Begin
    <2> PICK m \in Messages : m = Head(inMailBox)
      BY <2>1
    <2>2. m.file \in Files /\ m.key \in Keys
      BY ChunkOfMessage
    <2>3. disk' \in [Files -> Seq(Chunks)]
      <3>1. /\ disk \in [Files -> Seq(Chunks)]
            /\ disk' = [disk EXCEPT ![m.file] = <<>>]
        BY <1>2, Zenon DEF HandleFileTransferBegin, Begin, TypeOK
      <3>2. <<>> \in Seq(Chunks)
        OBVIOUS
      <3> QED
        BY ONLY <3>1, <3>2, Zenon
    <2>4. fileTransferData' \in [Keys -> Files \cup {None}]
      BY <1>2, <2>2, Zenon DEF HandleFileTransferBegin, Begin, TypeOK
    <2>5. upsets' \in SUBSET Reasons
      BY <1>2, Zenon DEF HandleFileTransferBegin, Begin, Upset, TypeOK, Reasons
    <2> QED
      BY <1>2, <2>1, <2>3, <2>4, <2>5, GuiAlone, Zenon
      DEF HandleFileTransferBegin, Begin, TypeOK, sender, ui
  <1>3. CASE HandleFileChunkSent
    <2>1. inMailBox' \in Seq(Messages) /\ Head(inMailBox) \in Messages
      BY <1>3, HandlesType DEF HandleFileChunkSent, AppendChunk
    <2> PICK m \in Messages : m = Head(inMailBox)
      BY <2>1
    <2>2. PICK c \in Chunks : c = Chunk(m.file, m.part)
      BY ChunkOfMessage
    <2>3. PICK to : to = fileTransferData[m.key]
      BY SMTT(60)
    <2>4. UNCHANGED disk \/ disk' = [disk EXCEPT ![to] = Append(@, c)]
      BY <1>3, <2>2, <2>3 DEF HandleFileChunkSent, AppendChunk
    <2>5. disk' \in [Files -> Seq(Chunks)]
      <3>1. disk \in [Files -> Seq(Chunks)]
        BY Zenon DEF TypeOK
      <3> QED
        BY ONLY <2>4, <3>1, c \in Chunks, SMTT(60)
    <2>6. process' \in [Senders \cup {None} -> {"running", "aborted"}]
      <3>1. /\ process \in [Senders \cup {None} -> {"running", "aborted"}]
            /\ UNCHANGED process \/ process' = [process EXCEPT ![None] = "aborted"]
        BY <1>3, Zenon DEF HandleFileChunkSent, TypeOK
      <3> QED
        BY ONLY <3>1
    <2> QED
      BY <1>3, <2>1, <2>5, <2>6, GuiAlone, Zenon
      DEF HandleFileChunkSent, AppendChunk, TypeOK, sender, ui
  <1>4. CASE HandleFileTransferEnd
    <2>1. inMailBox' \in Seq(Messages) /\ Head(inMailBox) \in Messages
      BY <1>4, HandlesType DEF HandleFileTransferEnd, MoveToSaveDirectory, Finish
    <2> PICK m \in Messages : m = Head(inMailBox)
      BY <2>1
    <2>2. PICK c \in Chunks : c = Chunk(m.file, m.part)
      BY ChunkOfMessage
    <2>3. c.file = m.file /\ m.file \in Files
      BY <2>2, ChunkOfMessage DEF Chunk
    <2>n. PICK n \in Nat : n = ChunksFor(c.file, FSize(c.file))
      BY <2>3, ChunkSize
    <2>z. PICK z \in Nat : z = FSize(c.file)
      BY <2>3, ChunkSize
    <2>4. m.key \in Keys
      BY ChunkOfMessage
    <2>5. PICK to \in Files \cup {None} : to = fileTransferData[m.key]
      BY <2>4, Zenon DEF TypeOK
    <2>6. CASE to = None
      <3>1. UNCHANGED app /\ process' = [process EXCEPT ![None] = "aborted"]
        BY <1>4, <2>5, <2>6 DEF HandleFileTransferEnd, MoveToSaveDirectory, Finish
      <3>2. process' \in [Senders \cup {None} -> {"running", "aborted"}]
        BY <3>1, Zenon DEF TypeOK
      <3> QED
        BY <1>4, <2>1, <3>1, <3>2, GuiAlone, Zenon
        DEF HandleFileTransferEnd, MoveToSaveDirectory, Finish, TypeOK, sender, ui, app
    <2>7. CASE to # None
      <3>1. disk \in [Files -> Seq(Chunks)] /\ to \in Files
        BY <2>7, Zenon DEF TypeOK
      <3>2. Append(disk[to], c) \in Seq(Chunks)
        BY ONLY <3>1, c \in Chunks
      <3>3. PICK all \in Seq(Chunks) : all = Resized(Append(disk[to], c), n)
        BY ONLY <3>2, ResizedType, n \in Nat, Zenon
      <3>4. PICK whole \in [parts : Seq(Chunks), bytes : Nat] :
              whole = Finish(to, c) /\ whole.parts = all
        <4>1. Finish(to, c) = [parts |-> all, bytes |-> z]
          BY <2>n, <2>z, <3>3 DEF Finish
        <4>2. [parts |-> all, bytes |-> z] \in [parts : Seq(Chunks), bytes : Nat]
          BY ONLY all \in Seq(Chunks), z \in Nat
        <4> QED
          BY <4>1, <4>2
      <3>5. /\ \/ disk' = [disk EXCEPT ![to] = all]
               \/ disk' = [disk EXCEPT ![to] = <<>>]
            /\ saved' = [saved EXCEPT ![to] = whole]
            /\ fileTransferData' = [fileTransferData EXCEPT ![m.key] = None]
            /\ UNCHANGED process
        BY <1>4, <2>2, <2>5, <2>7, <3>4, Zenon DEF HandleFileTransferEnd, MoveToSaveDirectory
      <3>6. <<>> \in Seq(Chunks)
        OBVIOUS
      <3>7. disk' \in [Files -> Seq(Chunks)]
        BY ONLY <3>1, <3>5, <3>6, all \in Seq(Chunks), Zenon
      <3>8. saved' \in [Files -> [parts : Seq(Chunks), bytes : Nat] \cup {None}]
        <4>1. saved \in [Files -> [parts : Seq(Chunks), bytes : Nat] \cup {None}]
          BY Zenon DEF TypeOK
        <4> QED
          BY ONLY <3>5, <4>1, whole \in [parts : Seq(Chunks), bytes : Nat], Zenon
      <3>9. fileTransferData' \in [Keys -> Files \cup {None}]
        BY <3>5, Zenon DEF TypeOK
      <3> QED
        BY <1>4, <2>1, <3>5, <3>7, <3>8, <3>9, GuiAlone, Zenon
        DEF HandleFileTransferEnd, MoveToSaveDirectory, Finish, TypeOK, sender, ui
    <2> QED
      BY <2>6, <2>7
  <1> QED
    BY <1>1, <1>2, <1>3, <1>4 DEF MailboxThread

(* A verdict is appended to what is on its way to one sender, or to none. *)
LEMMA RespondType ==
  ASSUME TypeOK, NEW s \in Senders, NEW k \in Keys, NEW a \in {"ACCEPT", "REJECT"},
         RespondToFileOffer(s, k, a)
  PROVE  control' \in [Senders -> Seq(Verdicts)]
  <1>1. PICK v \in Verdicts : v = [type |-> a, key |-> k]
    BY Zenon DEF Verdicts
  <1>2. UNCHANGED control \/ control' = [control EXCEPT ![s] = Append(@, v)]
    BY <1>1 DEF RespondToFileOffer
  <1>3. control \in [Senders -> Seq(Verdicts)]
    BY Zenon DEF TypeOK
  <1>4. [control EXCEPT ![s] = Append(@, v)] \in [Senders -> Seq(Verdicts)]
    BY ONLY <1>3, PutType, s \in Senders, v \in Verdicts
  <1> QED
    BY ONLY <1>2, <1>3, <1>4, Zenon

(* The prompt keeps the types. *)
LEMMA PromptType ==
  ASSUME TypeOK, ShowOffer \/ \E a \in {"ACCEPT", "REJECT"} : HandleFileOfferKey(a)
  PROVE  TypeOK'
  <1> USE FileAssumption
  <1>1. CASE ShowOffer
    <2>1. posted' \in Seq(Messages) /\ pendingOffer' \in Messages
      <3>1. /\ posted \in Seq(Messages)
            /\ posted # <<>>
            /\ posted' = Tail(posted)
            /\ pendingOffer' = Head(posted)
        BY <1>1, Zenon DEF ShowOffer, TypeOK
      <3> QED
        BY ONLY <3>1
    <2>2. upsets' \in SUBSET Reasons
      BY <1>1, Zenon DEF ShowOffer, Upset, TypeOK, Reasons
    <2> QED
      BY <1>1, <2>1, <2>2, GuiAlone, Zenon DEF ShowOffer, TypeOK, sender, app
  <1>2. CASE \E a \in {"ACCEPT", "REJECT"} : HandleFileOfferKey(a)
    <2>1. PICK a \in {"ACCEPT", "REJECT"} : HandleFileOfferKey(a)
      BY <1>2
    <2>2. /\ control' \in [Senders -> Seq(Verdicts)]
          /\ accepted' \in SUBSET Files
      <3>1. CASE pendingOffer = None
        BY <2>1, <3>1, Zenon DEF HandleFileOfferKey, TypeOK
      <3>2. CASE pendingOffer # None
        <4>1. pendingOffer \in Messages
          BY <3>2, Zenon DEF TypeOK
        <4>2. pendingOffer.file \in Files /\ pendingOffer.key \in Keys
          BY <4>1, ChunkOfMessage
        <4>3. accepted' \in SUBSET Files
          <5>1. /\ accepted \in SUBSET Files
                /\ accepted' = accepted \cup {f \in {pendingOffer.file} : a = "ACCEPT"}
            BY <2>1, <3>2, Zenon DEF HandleFileOfferKey, TypeOK
          <5> QED
            BY ONLY <4>2, <5>1
        <4>4. Owner[pendingOffer.file] \in Senders
          BY <4>2
        <4>5. RespondToFileOffer(Owner[pendingOffer.file], pendingOffer.key, a)
          BY <2>1, <3>2 DEF HandleFileOfferKey
        <4> QED
          BY <4>2, <4>3, <4>4, <4>5, RespondType
      <3> QED
        BY <3>1, <3>2
    <2> QED
      BY <2>1, <2>2, GuiAlone, Zenon DEF HandleFileOfferKey, TypeOK, sender, app
  <1> QED
    BY <1>1, <1>2

(* The GUI's main thread, and what it posts, keep the types. *)
LEMMA GuiType ==
  ASSUME TypeOK,
         \/ TakeFileOffers
         \/ PostedResponse
         \/ \E a \in {"ACCEPT", "REJECT"} : RespondToOffer(a)
  PROVE  TypeOK'
  <1> USE FileAssumption
  <1>1. CASE TakeFileOffers
    <2>1. /\ alerts \in Seq(Messages) /\ pendingOffers \in Seq(Messages)
          /\ alerts' = alerts \o pendingOffers
          /\ pendingOffers' = <<>>
      BY <1>1, Zenon DEF TakeFileOffers, TypeOK, GuiTypes
    <2>2. alerts' \in Seq(Messages) /\ pendingOffers' \in Seq(Messages)
      BY ONLY <2>1
    <2>3. GuiTypes'
      BY <1>1, <2>2, Zenon DEF TakeFileOffers, TypeOK, GuiTypes
    <2> QED
      BY <1>1, <2>3, Zenon DEF TakeFileOffers, TypeOK, sender, ui, app
  <1>2. CASE PostedResponse
    <2>1. /\ responses \in Seq(Responses)
          /\ responses # <<>>
          /\ responses' = Tail(responses)
      BY <1>2, Zenon DEF PostedResponse, TypeOK, GuiTypes
    <2>2. responses' \in Seq(Responses) /\ Head(responses) \in Responses
      BY ONLY <2>1
    <2>3. PICK r \in Responses : r = Head(responses)
      BY <2>2
    <2>4. r.to \in Senders /\ r.key \in Keys /\ r.type \in {"ACCEPT", "REJECT"}
      BY DEF Responses
    <2>5. RespondToFileOffer(r.to, r.key, r.type)
      BY <1>2, <2>3, Zenon DEF PostedResponse
    <2>6. control' \in [Senders -> Seq(Verdicts)]
      BY <2>4, <2>5, RespondType
    <2>7. GuiTypes'
      BY <1>2, <2>2, Zenon DEF PostedResponse, TypeOK, GuiTypes
    <2> QED
      BY <1>2, <2>6, <2>7, Zenon DEF PostedResponse, TypeOK, sender, ui, app
  <1>3. CASE \E a \in {"ACCEPT", "REJECT"} : RespondToOffer(a)
    <2>1. PICK a \in {"ACCEPT", "REJECT"} : RespondToOffer(a)
      BY <1>3
    <2>2. alerts \in Seq(Messages) /\ alerts # <<>> /\ alerts' = Tail(alerts)
      BY <2>1, Zenon DEF RespondToOffer, TypeOK, GuiTypes
    <2>3. alerts' \in Seq(Messages) /\ Head(alerts) \in Messages
      BY ONLY <2>2
    <2>4. PICK m \in Messages : m = Head(alerts)
      BY <2>3
    <2>5. m.file \in Files /\ m.key \in Keys
      BY ChunkOfMessage
    <2>6. PICK s \in Senders \cup {None} : s = offerSenders[m.key]
      BY <2>5, Zenon DEF TypeOK, GuiTypes
    <2>7. offerSenders' \in [Keys -> Senders \cup {None}]
      <3>1. /\ offerSenders \in [Keys -> Senders \cup {None}]
            /\ offerSenders' = [offerSenders EXCEPT ![m.key] = None]
        BY <2>1, <2>4, Zenon DEF RespondToOffer, TypeOK, GuiTypes
      <3> QED
        BY ONLY <3>1, Zenon
    <2>8. responses' \in Seq(Responses)
      <3>1. responses \in Seq(Responses)
        BY Zenon DEF TypeOK, GuiTypes
      <3>2. CASE s = None
        BY <2>1, <2>4, <2>6, <3>1, <3>2 DEF RespondToOffer
      <3>3. CASE s # None
        <4>1. responses' = Append(responses, [to |-> s, type |-> a, key |-> m.key])
          BY <2>1, <2>4, <2>6, <3>3 DEF RespondToOffer
        <4>2. [to |-> s, type |-> a, key |-> m.key] \in Responses
          BY <2>5, <3>3 DEF Responses
        <4> QED
          BY ONLY <3>1, <4>1, <4>2
      <3> QED
        BY <3>2, <3>3
    <2>9. accepted' \in SUBSET Files
      <3>1. /\ accepted \in SUBSET Files
            /\ accepted' = accepted \cup {f \in {m.file} : a = "ACCEPT"}
        BY <2>1, <2>4, Zenon DEF RespondToOffer, TypeOK
      <3> QED
        BY ONLY <2>5, <3>1
    <2>10. GuiTypes'
      BY <2>1, <2>3, <2>7, <2>8, Zenon DEF RespondToOffer, TypeOK, GuiTypes
    <2> QED
      BY <2>1, <2>9, <2>10, Zenon DEF RespondToOffer, TypeOK, sender, app
  <1> QED
    BY <1>1, <1>2, <1>3

(* A step of any thread or session keeps the types. *)
LEMMA StepTypeOK == TypeOK /\ [Next]_vars => TypeOK'
  <1> SUFFICES ASSUME TypeOK, [Next]_vars PROVE TypeOK'
    OBVIOUS
  <1>1. CASE Next
    BY <1>1, InitiateType, SignalType, ChunkType, SessionType, MailboxType,
       PromptType, GuiType
    DEF Next, Progress, IoThread, Answer
  <1>2. CASE UNCHANGED vars
    BY <1>2, GuiAlone, Zenon DEF vars, sender, ui, app, TypeOK
  <1> QED
    BY <1>1, <1>2

(* TypeOK holds in every reachable state: keys, messages and verdicts stay *)
(* in range whatever the handlers of the sessions and the app make of them. *)
THEOREM TypeCorrect == Spec => []TypeOK
  <1> QED
    BY InitTypeOK, StepTypeOK, PTL DEF Spec

----------------------------------------------------------------------------
Offered(f) == transfer[f].at # "none"

(* The messages that carry the key of their file. *)
Named == {m \in Messages : Offered(m.file) /\ transfer[m.file].key = m.key}

(* The verdicts that may be on their way to sender s. *)
Backed(s) ==
  {v \in Verdicts : v.type = "ACCEPT" =>
     \E f \in accepted : Owner[f] = s /\ Offered(f) /\ transfer[f].key = v.key}

(* The keys a sender has given out: below its count, and all different. *)
KeysCounted ==
  /\ \A f \in Files : Offered(f) => transfer[f].key < ftcid[Owner[f]]
  /\ \A f, g \in Files :
       (Offered(f) /\ Offered(g) /\ Owner[f] = Owner[g]
          /\ transfer[f].key = transfer[g].key) => f = g

(* A pending file waits for its verdict, and is filed under its own key, at *)
(* its own sender.                                                         *)
PendingFiled ==
  \A s \in Senders, k \in Keys, f \in Files :
    pendingOutgoing_m[s][k] = f =>
      transfer[f].at = "offered" /\ Owner[f] = s /\ transfer[f].key = k

(* The answers that may be posted, as for the verdicts. *)
BackedResponses ==
  {r \in Responses : r.type = "ACCEPT" =>
     \E f \in accepted : Owner[f] = r.to /\ Offered(f) /\ transfer[f].key = r.key}

(* What is kept of the sender of an offer that waits, by its key, is right. *)
SendersKnown ==
  \A m \in Unanswered : offerSenders[m.key] \in {Owner[m.file], None}

GuiLinked ==
  /\ pendingOffers \in Seq(Named)
  /\ alerts \in Seq(Named)
  /\ responses \in Seq(BackedResponses)
  /\ SendersKnown

(* What is sent was accepted. *)
Agreed ==
  \A f \in Files :
    transfer[f].at \in {"first", "ongoing", "done", "stuck"} => f \in accepted

Linked ==
  /\ KeysCounted
  /\ stream \in [Senders -> Seq(Named \cup {Chat})]
  /\ inMailBox \in Seq(Named)
  /\ posted \in Seq(Named)
  /\ pendingOffer \in Named \cup {None}
  /\ \A s \in Senders : control[s] \in Seq(Backed(s))
  /\ GuiLinked
  /\ Agreed

(* What every step keeps: the keys of the files offered, and the consent   *)
(* given.                                                                  *)
Keeps ==
  /\ \A g \in Files : Offered(g) =>
       /\ transfer'[g].at # "none"
       /\ transfer'[g].key = transfer[g].key
  /\ accepted \subseteq accepted'

(* Nothing is offered at first. *)
LEMMA InitLinked == Init => Linked
  <1> SUFFICES ASSUME Init PROVE Linked
    OBVIOUS
  <1> USE FileAssumption
  <1>1. \A f \in Files : transfer[f].at = "none"
    BY DEF Init
  <1>2. KeysCounted /\ Agreed
    BY <1>1 DEF KeysCounted, Agreed, Offered
  <1>4. stream \in [Senders -> Seq(Named \cup {Chat})]
    BY DEF Init
  <1>5. inMailBox \in Seq(Named) /\ posted \in Seq(Named)
    BY DEF Init
  <1>6. \A s \in Senders : control[s] \in Seq(Backed(s))
    <2>1. ASSUME NEW s \in Senders PROVE control[s] = <<>>
      BY DEF Init
    <2>2. ASSUME NEW B PROVE <<>> \in Seq(B)
      OBVIOUS
    <2> QED
      BY <2>1, <2>2, Zenon
  <1>7. pendingOffer \in Named \cup {None}
    BY DEF Init
  <1>8. GuiLinked
    <2>1. pendingOffers = <<>> /\ alerts = <<>> /\ responses = <<>>
      BY DEF Init
    <2>2. Unanswered = {}
      BY <2>1 DEF Unanswered
    <2> QED
      BY <2>1, <2>2 DEF GuiLinked, SendersKnown
  <1> QED
    BY <1>2, <1>4, <1>5, <1>6, <1>7, <1>8 DEF Linked

(* A sequence over a set is one over a larger set. *)
LEMMA SeqGrows ==
  ASSUME NEW S, NEW T, S \subseteq T, NEW q \in Seq(S)
  PROVE  q \in Seq(T)
  <1>1. /\ q = [i \in 1..Len(q) |-> q[i]]
        /\ Len(q) \in Nat
        /\ \A i \in 1..Len(q) : q[i] \in S
    OBVIOUS
  <1> QED
    BY <1>1

(* A message that carries the key of its file goes on carrying it. *)
LEMMA NamedGrows ==
  ASSUME Keeps
  PROVE  Named \subseteq Named'
  <1>1. ASSUME NEW m \in Messages, Offered(m.file), transfer[m.file].key = m.key
        PROVE  m \in Named'
    <2>1. m.file \in Files
      BY ChunkOfMessage
    <2>2. transfer'[m.file].at # "none" /\ transfer'[m.file].key = m.key
      BY <1>1, <2>1 DEF Keeps
    <2> QED
      BY <2>2 DEF Named, Offered
  <1> QED
    BY <1>1 DEF Named

(* A verdict that is backed by a file the user accepted stays so. *)
LEMMA BackedGrows ==
  ASSUME TypeOK, Keeps, NEW s \in Senders
  PROVE  Backed(s) \subseteq Backed(s)'
  <1>1. ASSUME NEW v \in Verdicts, v \in Backed(s), v.type = "ACCEPT"
        PROVE  \E f \in accepted' :
                 Owner[f] = s /\ transfer'[f].at # "none" /\ transfer'[f].key = v.key
    <2>1. PICK f \in accepted :
            Owner[f] = s /\ Offered(f) /\ transfer[f].key = v.key
      BY <1>1 DEF Backed
    <2>2. f \in Files
      BY Zenon DEF TypeOK
    <2>3. f \in accepted' /\ transfer'[f].at # "none" /\ transfer'[f].key = v.key
      BY <2>1, <2>2 DEF Keeps
    <2> QED
      BY <2>1, <2>3
  <1> QED
    BY <1>1 DEF Backed, Offered

(* So does a posted answer. *)
LEMMA ResponsesGrow ==
  ASSUME TypeOK, Keeps
  PROVE  BackedResponses \subseteq BackedResponses'
  <1>1. ASSUME NEW r \in Responses, r \in BackedResponses, r.type = "ACCEPT"
        PROVE  \E f \in accepted' :
                 Owner[f] = r.to /\ transfer'[f].at # "none" /\ transfer'[f].key = r.key
    <2>1. PICK f \in accepted :
            Owner[f] = r.to /\ Offered(f) /\ transfer[f].key = r.key
      BY <1>1, Zenon DEF BackedResponses
    <2>2. f \in Files
      BY Zenon DEF TypeOK
    <2>3. f \in accepted' /\ transfer'[f].at # "none" /\ transfer'[f].key = r.key
      BY <2>1, <2>2 DEF Keeps
    <2> QED
      BY <2>1, <2>3
  <1> QED
    BY <1>1 DEF BackedResponses, Offered

(* What is said of the GUI's offers and answers goes on holding of them.   *)
LEMMA GuiStillLinked ==
  ASSUME TypeOK, Linked, Keeps
  PROVE  /\ pendingOffers \in Seq(Named')
         /\ alerts \in Seq(Named')
         /\ responses \in Seq(BackedResponses')
         /\ UNCHANGED gui => GuiLinked'
  <1>1. pendingOffers \in Seq(Named') /\ alerts \in Seq(Named')
    <2>1. PICK N : N = Named'
      OBVIOUS
    <2>2. Named \subseteq N
      BY <2>1, NamedGrows
    <2>3. pendingOffers \in Seq(Named) /\ alerts \in Seq(Named)
      BY DEF Linked, GuiLinked
    <2>4. pendingOffers \in Seq(N) /\ alerts \in Seq(N)
      BY ONLY <2>2, <2>3, SeqGrows
    <2> QED
      BY <2>1, <2>4
  <1>2. responses \in Seq(BackedResponses')
    <2>1. PICK R : R = BackedResponses'
      OBVIOUS
    <2>2. BackedResponses \subseteq R
      BY <2>1, ResponsesGrow
    <2>3. responses \in Seq(BackedResponses)
      BY DEF Linked, GuiLinked
    <2>4. responses \in Seq(R)
      BY ONLY <2>2, <2>3, SeqGrows
    <2> QED
      BY <2>1, <2>4
  <1>3. ASSUME UNCHANGED gui PROVE GuiLinked'
    <2>1. /\ pendingOffers' = pendingOffers /\ alerts' = alerts
          /\ responses' = responses /\ offerSenders' = offerSenders
      BY <1>3 DEF gui
    <2>2. SendersKnown'
      BY <2>1 DEF Linked, GuiLinked, SendersKnown, Unanswered
    <2> QED
      BY <1>1, <1>2, <2>1, <2>2 DEF GuiLinked
  <1> QED
    BY <1>1, <1>2, <1>3

(* p holds nothing but what q holds, at its place, and m. *)
HoldsMore(p, q, m) == \A i \in DOMAIN p : (i \in DOMAIN q /\ p[i] = q[i]) \/ p[i] = m

(* What a sequence with a message appended holds. *)
LEMMA AppendHolds ==
  ASSUME NEW M, NEW q \in Seq(M), NEW m \in M
  PROVE  HoldsMore(Append(q, m), q, m)
  BY DEF HoldsMore

(* The offers and verdicts a step leaves alone stay linked. *)
LEMMA StillLinked ==
  ASSUME TypeOK, Linked, Keeps
  PROVE  /\ stream \in [Senders -> Seq(Named' \cup {Chat})]
         /\ inMailBox \in Seq(Named')
         /\ posted \in Seq(Named')
         /\ pendingOffer \in Named' \cup {None}
         /\ \A s \in Senders : control[s] \in Seq(Backed(s)')
  <1>1. PICK N : N = Named'
    OBVIOUS
  <1>2. Named \subseteq N /\ Named \cup {Chat} \subseteq N \cup {Chat}
    BY <1>1, NamedGrows
  <1>3. stream \in [Senders -> Seq(N \cup {Chat})]
    <2>1. stream \in [Senders -> Seq(Named \cup {Chat})]
      BY DEF Linked
    <2>2. ASSUME NEW s \in Senders PROVE stream[s] \in Seq(N \cup {Chat})
      <3>1. stream[s] \in Seq(Named \cup {Chat})
        BY ONLY <2>1, s \in Senders
      <3> QED
        BY ONLY <1>2, <3>1, SeqGrows
    <2> QED
      BY ONLY <2>1, <2>2
  <1>4. inMailBox \in Seq(N) /\ posted \in Seq(N)
    <2>1. inMailBox \in Seq(Named) /\ posted \in Seq(Named)
      BY DEF Linked
    <2> QED
      BY ONLY <1>2, <2>1, SeqGrows
  <1>5. pendingOffer \in N \cup {None}
    BY <1>2 DEF Linked
  <1>6. ASSUME NEW s \in Senders PROVE control[s] \in Seq(Backed(s)')
    <2>1. Backed(s) \subseteq Backed(s)'
      BY BackedGrows
    <2>2. control[s] \in Seq(Backed(s))
      BY DEF Linked
    <2> QED
      BY ONLY <2>1, <2>2, SeqGrows
  <1> QED
    BY <1>1, <1>3, <1>4, <1>5, <1>6

(* A step that leaves the senders' maps alone keeps what is said of them. *)
LEMMA SendersAlone ==
  ASSUME Linked, UNCHANGED sender, accepted \subseteq accepted'
  PROVE  KeysCounted' /\ Keeps /\ Agreed'
  <1>1. transfer' = transfer /\ ftcid' = ftcid /\ pendingOutgoing_m' = pendingOutgoing_m
    BY SMTT(60) DEF sender
  <1>2. KeysCounted'
    BY <1>1 DEF Linked, KeysCounted, Offered
  <1>3. Keeps
    BY <1>1 DEF Keeps, Offered
  <1>4. Agreed'
    BY <1>1 DEF Linked, Agreed
  <1> QED
    BY <1>2, <1>3, <1>4

(* A new offer takes a key no file of its sender has. *)
LEMMA InitiateLinked ==
  ASSUME TypeOK, Linked, NEW f \in Files, InitiateFileTransferWithSession(f)
  PROVE  Linked'
  <1> USE FileAssumption
  <1> PICK s \in Senders : s = Owner[f]
    OBVIOUS
  <1> PICK k \in Keys : k = ftcid[s]
    BY Zenon DEF TypeOK
  <1>1. k \in Nat /\ ftcid' = [ftcid EXCEPT ![s] = k + 1]
    BY DEF InitiateFileTransferWithSession, Keys
  <1>2. ~ Offered(f)
    BY DEF InitiateFileTransferWithSession, Offered
  <1>3. \A g \in Files :
          /\ transfer'[g].at = IF g = f THEN "offered" ELSE transfer[g].at
          /\ transfer'[g].key = IF g = f THEN k ELSE transfer[g].key
    <2>1. transfer \in [Files -> Transfers]
      BY Zenon DEF TypeOK
    <2>2. transfer' = [transfer EXCEPT ![f].at = "offered", ![f].key = k]
      BY DEF InitiateFileTransferWithSession
    <2> QED
      BY <2>1, <2>2 DEF Transfers
  <1>4. accepted' = accepted
    BY DEF InitiateFileTransferWithSession, ui
  <1>5. Keeps
    BY <1>2, <1>3, <1>4 DEF Keeps, Offered
  <1>6. \A g \in Files : transfer[g].key \in Nat /\ ftcid[Owner[g]] \in Nat
    <2>1. ASSUME NEW g \in Files PROVE transfer[g] \in Transfers /\ Owner[g] \in Senders
      BY Zenon DEF TypeOK
    <2>2. ASSUME NEW t \in Senders PROVE ftcid[t] \in Keys
      BY Zenon DEF TypeOK
    <2>3. ASSUME NEW j \in Keys PROVE j \in Nat
      BY ONLY FileAssumption, j \in Keys DEF Keys
    <2>4. ASSUME NEW g \in Files PROVE transfer[g].key \in Keys
      BY <2>1 DEF Transfers
    <2> QED
      BY <2>1, <2>2, <2>3, <2>4, Zenon
  <1>7. KeysCounted'
    <2>1. ASSUME NEW g \in Files, Offered(g)'
          PROVE  transfer'[g].key < ftcid'[Owner[g]]
      <3>1. ftcid'[Owner[g]] = IF Owner[g] = s THEN k + 1 ELSE ftcid[Owner[g]]
        BY <1>1, Zenon DEF TypeOK
      <3>2. CASE g = f
        BY <1>1, <1>3, <3>1, <3>2
      <3>3. CASE g # f
        <4>1. transfer[g].key < ftcid[Owner[g]]
          BY <1>3, <2>1, <3>3, Zenon DEF Linked, KeysCounted, Offered
        <4> QED
          BY <1>1, <1>3, <1>6, <3>1, <3>3, <4>1
      <3> QED
        BY <3>2, <3>3
    <2>2. ASSUME NEW g \in Files, g # f, Offered(g)', Owner[g] = s
          PROVE  transfer'[g].key # k
      <3>1. transfer[g].key < k
        BY <1>3, <2>2, Zenon DEF Linked, KeysCounted, Offered
      <3> QED
        BY <1>1, <1>3, <1>6, <2>2, <3>1
    <2>3. ASSUME NEW g \in Files, NEW h \in Files, Offered(g)', Offered(h)',
                 Owner[g] = Owner[h], transfer'[g].key = transfer'[h].key
          PROVE  g = h
      <3>1. CASE g = f \/ h = f
        BY <1>3, <2>2, <2>3, <3>1
      <3>2. CASE g # f /\ h # f
        BY <1>3, <2>3, <3>2, ZenonT(60) DEF Linked, KeysCounted, Offered
      <3> QED
        BY <3>1, <3>2
    <2> QED
      BY <2>1, <2>3 DEF KeysCounted, Offered
  <1>9. stream' \in [Senders -> Seq(Named' \cup {Chat})]
    <2>1. PICK m \in Messages : m = Message("OFFER", k, f, 0)
      BY MessageType
    <2>2. m \in Named'
      BY <1>3, <2>1 DEF Named, Offered, Message
    <2>3. stream' = [stream EXCEPT ![s] = Append(@, m)]
      BY <2>1 DEF InitiateFileTransferWithSession, Put
    <2>4. PICK N : N = Named' \cup {Chat}
      BY Zenon
    <2>5. m \in N /\ stream \in [Senders -> Seq(N)]
      BY <1>5, <2>2, <2>4, StillLinked
    <2>6. stream' \in [Senders -> Seq(N)]
      BY ONLY <2>3, <2>5, PutType, s \in Senders
    <2> QED
      BY <2>4, <2>6
  <1>10. Agreed'
    BY <1>3, <1>4, Zenon DEF Linked, Agreed
  <1> QED
    BY <1>5, <1>7, <1>9, <1>10, StillLinked, GuiStillLinked, Zenon
    DEF InitiateFileTransferWithSession, Linked, ui

(* A step that only moves the progress of a file already offered keeps the *)
(* keys.                                                                   *)
LEMMA ProgressKeeps ==
  ASSUME Linked, NEW f \in Files, Offered(f), NEW a, a # "none",
         \A g \in Files :
           /\ transfer'[g].at = IF g = f THEN a ELSE transfer[g].at
           /\ transfer'[g].key = transfer[g].key,
         UNCHANGED <<ftcid, accepted>>
  PROVE  KeysCounted' /\ Keeps
  <1>1. \A g \in Files : Offered(g)' <=> Offered(g)
    BY DEF Offered
  <1>2. Keeps
    BY DEF Keeps, Offered
  <1>3. KeysCounted'
    <2>1. ASSUME NEW g \in Files, Offered(g)'
          PROVE  transfer'[g].key < ftcid'[Owner[g]]
      BY <1>1, <2>1 DEF Linked, KeysCounted
    <2>2. ASSUME NEW g \in Files, NEW h \in Files, Offered(g)', Offered(h)',
                 Owner[g] = Owner[h], transfer'[g].key = transfer'[h].key
          PROVE  g = h
      BY <1>1, <2>2 DEF Linked, KeysCounted
    <2> QED
      BY <2>1, <2>2 DEF KeysCounted, Offered
  <1> QED
    BY <1>2, <1>3

(* A verdict finds the file it is about: the pending file under the key of *)
(* an ACCEPT is the accepted one, since no other file of the sender has    *)
(* that key.                                                               *)
LEMMA SignalLinked ==
  ASSUME TypeOK, PendingFiled, Linked, NEW s \in Senders, SignalFileTransfer(s)
  PROVE  Linked'
  <1> USE FileAssumption
  <1>1. /\ control[s] \in Seq(Backed(s))
        /\ control[s] # <<>>
        /\ control' = [control EXCEPT ![s] = Tail(@)]
        /\ control \in [Senders -> Seq(Verdicts)]
    BY Zenon DEF SignalFileTransfer, Linked, TypeOK
  <1>2. Head(control[s]) \in Backed(s)
    BY ONLY <1>1
  <1> PICK m \in Backed(s) : m = Head(control[s])
    BY <1>2
  <1>3. m \in Verdicts /\ m.key \in Keys
    BY DEF Backed, Verdicts
  <1>4. pendingOutgoing_m[s][m.key] \in Files \cup {None}
    <2>1. pendingOutgoing_m \in [Senders -> [Keys -> Files \cup {None}]]
      BY Zenon DEF TypeOK
    <2> QED
      BY ONLY <1>3, <2>1, s \in Senders
  <1> PICK f \in Files \cup {None} : f = pendingOutgoing_m[s][m.key]
    BY <1>4, Zenon
  <1>5. UNCHANGED <<ftcid, stream, inMailBox, posted, pendingOffer, accepted>>
    BY Zenon DEF SignalFileTransfer, ui
  <1>6. KeysCounted' /\ Keeps /\ Agreed'
    <2>1. CASE f = None
      <3>1. UNCHANGED sender
        BY <2>1 DEF SignalFileTransfer, sender
      <3> QED
        BY <1>5, <3>1, SendersAlone
    <2>2. CASE f # None
      <3>1. f \in Files /\ Offered(f) /\ Owner[f] = s /\ transfer[f].key = m.key
        <4>1. f \in Files
          BY <2>2
        <4> QED
          BY ONLY <1>3, <4>1, PendingFiled, s \in Senders,
             f = pendingOutgoing_m[s][m.key]
          DEF PendingFiled, Offered
      <3>2. PICK a \in {"rejected", "first", "offered", "ongoing", "done", "stuck"} :
              /\ \A g \in Files :
                   /\ transfer'[g].at = IF g = f THEN a ELSE transfer[g].at
                   /\ transfer'[g].key = transfer[g].key
              /\ a = "rejected" \/ a = transfer[f].at
                   \/ (a = "first" /\ m.type # "REJECT")
        <4>1. transfer \in [Files -> Transfers]
          BY Zenon DEF TypeOK
        <4>2. \/ transfer' = transfer
              \/ transfer' = [transfer EXCEPT ![f].at = "rejected"]
              \/ m.type # "REJECT" /\ transfer' = [transfer EXCEPT ![f].at = "first"]
          BY <2>2, Zenon DEF SignalFileTransfer
        <4>3. CASE transfer' = transfer
          <5>1. transfer[f] \in Transfers
            BY <3>1, <4>1, Zenon
          <5>2. transfer[f].at \in {"rejected", "first", "offered", "ongoing", "done", "stuck"}
            BY <3>1, <5>1, Zenon DEF Transfers, Offered
          <5> QED
            BY <4>3, <5>2, Zenon
        <4>4. CASE transfer' = [transfer EXCEPT ![f].at = "rejected"]
          <5>1. \A g \in Files :
                  /\ transfer'[g].at = IF g = f THEN "rejected" ELSE transfer[g].at
                  /\ transfer'[g].key = transfer[g].key
            BY ONLY <3>1, <4>1, <4>4 DEF Transfers
          <5> QED
            BY ONLY <5>1
        <4>5. CASE m.type # "REJECT" /\ transfer' = [transfer EXCEPT ![f].at = "first"]
          <5>1. \A g \in Files :
                  /\ transfer'[g].at = IF g = f THEN "first" ELSE transfer[g].at
                  /\ transfer'[g].key = transfer[g].key
            BY ONLY <3>1, <4>1, <4>5 DEF Transfers
          <5> QED
            BY ONLY <4>5, <5>1
        <4> QED
          BY <4>2, <4>3, <4>4, <4>5, Zenon
      <3>3. KeysCounted' /\ Keeps
        <4>1. a # "none" /\ UNCHANGED <<ftcid, accepted>>
          BY <1>5
        <4> QED
          BY ONLY Linked, <3>1, <3>2, <4>1, ProgressKeeps
      <3>5. Agreed'
        <4>1. ASSUME a = "first", m.type # "REJECT" PROVE f \in accepted
          <5>1. m.type = "ACCEPT"
            BY <1>3, <4>1 DEF Verdicts
          <5>2. PICK g \in accepted :
                  Owner[g] = s /\ Offered(g) /\ transfer[g].key = m.key
            BY <5>1 DEF Backed
          <5>3. g \in Files
            BY Zenon DEF TypeOK
          <5>4. g = f
            BY <3>1, <5>2, <5>3, Zenon DEF Linked, KeysCounted
          <5> QED
            BY <5>4
        <4>2. ASSUME NEW g \in Files, transfer'[g].at \in {"first", "ongoing", "done", "stuck"}
              PROVE  g \in accepted'
          <5>1. CASE g # f \/ a = transfer[f].at
            BY <1>5, <3>2, <4>2, <5>1, Zenon DEF Linked, Agreed
          <5>2. CASE g = f /\ a # transfer[f].at
            BY <1>5, <3>2, <4>1, <4>2, <5>2, Zenon
          <5> QED
            BY <5>1, <5>2, Zenon
        <4> QED
          BY <4>2 DEF Agreed
      <3> QED
        BY <3>3, <3>5, SMTT(60)
    <2> QED
      BY <2>1, <2>2
  <1>7. \A t \in Senders : control'[t] \in Seq(Backed(t)')
    <2>1. \A t \in Senders : control[t] \in Seq(Backed(t)')
      BY <1>6, StillLinked, Zenon
    <2>2. ASSUME NEW t \in Senders, NEW B, control[t] \in Seq(B)
          PROVE  control'[t] \in Seq(B)
      BY ONLY <1>1, <2>2
    <2> QED
      BY <2>1, <2>2, Zenon
  <1>8. UNCHANGED gui
    BY Zenon DEF SignalFileTransfer
  <1> QED
    BY <1>5, <1>6, <1>7, <1>8, StillLinked, GuiStillLinked, Zenon DEF Linked

(* TransferNextChunk goes on with a file that was accepted, and its        *)
(* messages carry its key.                                                 *)
LEMMA ChunkLinked ==
  ASSUME TypeOK, Linked, NEW f \in Files, TransferNextChunk(f)
  PROVE  Linked'
  <1> USE FileAssumption
  <1> PICK s \in Senders : s = Owner[f]
    OBVIOUS
  <1> PICK k \in Keys : k = transfer[f].key
    BY Zenon DEF TypeOK, Transfers
  <1> PICK n \in Nat : n = transfer[f].sent
    BY Zenon DEF TypeOK, Transfers
  <1> PICK p \in Nat : p = n \div CSize(f) + 1
    <2>1. n \div CSize(f) \in Nat
      BY ChunkSize, Zenon
    <2> QED
      BY ONLY <2>1
  <1>1. /\ UNCHANGED <<ftcid, pendingOutgoing_m, control, inMailBox, posted,
                       pendingOffer, accepted>>
        /\ UNCHANGED gui
    BY DEF TransferNextChunk, ui
  <1>2. transfer[f].at \in {"first", "ongoing"}
    BY DEF TransferNextChunk
  <1>3. Offered(f) /\ f \in accepted
    <2>1. Agreed
      BY DEF Linked
    <2> QED
      BY ONLY <1>2, <2>1, f \in Files DEF Agreed, Offered
  <1>4. PICK a \in {"ongoing", "done", "stuck"} :
          \A g \in Files :
            /\ transfer'[g].at = IF g = f THEN a ELSE transfer[g].at
            /\ transfer'[g].key = transfer[g].key
    <2>1. transfer \in [Files -> Transfers]
      BY Zenon DEF TypeOK
    <2>2. PICK a \in {"ongoing", "done", "stuck"} :
            \E c : transfer' = [transfer EXCEPT ![f].at = a, ![f].sent = c]
      BY Zenon DEF TransferNextChunk
    <2>3. \A g \in Files :
            /\ transfer'[g].at = IF g = f THEN a ELSE transfer[g].at
            /\ transfer'[g].key = transfer[g].key
      BY ONLY <2>1, <2>2, f \in Files DEF Transfers
    <2> QED
      BY <2>3
  <1>5. KeysCounted' /\ Keeps
    <2>1. a # "none" /\ UNCHANGED <<ftcid, accepted>>
      BY <1>1
    <2> QED
      BY ONLY Linked, f \in Files, <1>3, <1>4, <2>1, ProgressKeeps, Zenon
  <1>7. stream' \in [Senders -> Seq(Named' \cup {Chat})]
    <2>1. PICK N : N = Named' \cup {Chat}
      BY Zenon
    <2>2. stream \in [Senders -> Seq(N)]
      BY <1>5, <2>1, StillLinked, Zenon
    <2>3. ASSUME NEW type \in {"BEGIN", "CHUNK", "END"}, NEW c \in Nat
          PROVE  Message(type, k, f, c) \in N
      <3>1. Message(type, k, f, c) \in Messages
        BY MessageType
      <3>2. transfer'[f].at # "none" /\ transfer'[f].key = k
        BY <1>4, SMTT(60)
      <3> QED
        BY <2>1, <3>1, <3>2 DEF Named, Offered, Message
    <2>4. \/ stream' = stream
          \/ stream' = [stream EXCEPT ![s] = Append(@, Message("BEGIN", k, f, 0))]
          \/ stream' = [stream EXCEPT ![s] = Append(@, Message("END", k, f, p))]
          \/ stream' = [stream EXCEPT ![s] = Append(@, Message("CHUNK", k, f, p))]
      BY SMTT(60) DEF TransferNextChunk, Put
    <2>5. /\ Message("BEGIN", k, f, 0) \in N
          /\ Message("END", k, f, p) \in N
          /\ Message("CHUNK", k, f, p) \in N
      BY <2>3
    <2>6. CASE stream' = stream
      BY <2>1, <2>2, <2>6
    <2>7. CASE stream' # stream
      <3>1. PICK m \in N : stream' = [stream EXCEPT ![s] = Append(@, m)]
        BY ONLY <2>4, <2>5, <2>7, Zenon
      <3>2. stream' \in [Senders -> Seq(N)]
        BY ONLY <2>2, <3>1, PutType, s \in Senders
      <3> QED
        BY <2>1, <3>2
    <2> QED
      BY <2>6, <2>7, SMTT(60)
  <1>8. Agreed'
    <2>1. Agreed
      BY DEF Linked
    <2> QED
      BY ONLY <1>1, <1>3, <1>4, <2>1 DEF Agreed
  <1> QED
    BY <1>1, <1>5, <1>7, <1>8, StillLinked, GuiStillLinked, Zenon DEF Linked

(* A chat, a session that reads and a session that is removed move         *)
(* messages and make none.                                                 *)
LEMMA SessionLinked ==
  ASSUME TypeOK, Linked, NEW s \in Senders,
         \/ SendDataToNode(s)
         \/ ReadStream(s)
         \/ \E end \in {"sender", "receiver"} : RemoveSession(s, end)
  PROVE  Linked'
  <1> USE FileAssumption
  <1>1. UNCHANGED <<sender, control, posted, pendingOffer, accepted, gui>>
    BY Zenon DEF SendDataToNode, ReadStream, ReadMessageFrameCallback,
        ReadFileChunkCallback, PutMessageIntoAppMailbox, RemoveSession, sender,
        ui
  <1>2. KeysCounted' /\ Keeps /\ Agreed'
    BY <1>1, SendersAlone
  <1>3. PICK N : N = Named'
    OBVIOUS
  <1>4. stream \in [Senders -> Seq(N \cup {Chat})] /\ inMailBox \in Seq(N)
    BY <1>2, <1>3, StillLinked
  <1>5. stream' \in [Senders -> Seq(N \cup {Chat})] /\ inMailBox' \in Seq(N)
    <2>1. CASE SendDataToNode(s)
      <3>1. /\ stream' = [stream EXCEPT ![s] = Append(@, Chat)]
            /\ inMailBox' = inMailBox
            /\ Chat \in N \cup {Chat}
        BY <2>1, Zenon DEF SendDataToNode, Put
      <3> QED
        BY ONLY <1>4, <3>1, PutType, s \in Senders
    <2>2. CASE ReadStream(s)
      <3>1. stream[s] # <<>> /\ stream' = [stream EXCEPT ![s] = Tail(@)]
        BY <2>2, Zenon
        DEF ReadStream, ReadMessageFrameCallback, ReadFileChunkCallback,
            PutMessageIntoAppMailbox
      <3>2. /\ stream' \in [Senders -> Seq(N \cup {Chat})]
            /\ Head(stream[s]) \in N \cup {Chat}
        BY ONLY <1>4, <3>1, TakeType, s \in Senders
      <3>3. \/ inMailBox' = inMailBox
            \/ /\ Head(stream[s]).type # "CHAT"
               /\ inMailBox' = Append(inMailBox, Head(stream[s]))
        BY <2>2, Zenon
        DEF ReadStream, ReadMessageFrameCallback, ReadFileChunkCallback,
            PutMessageIntoAppMailbox
      <3>4. Chat.type = "CHAT"
        BY DEF Chat, Message
      <3>5. inMailBox' = inMailBox
              \/ \E m \in N : inMailBox' = Append(inMailBox, m)
        BY ONLY <3>2, <3>3, <3>4
      <3>6. inMailBox' \in Seq(N)
        <4>1. inMailBox \in Seq(N)
          BY ONLY <1>4, Zenon
        <4>2. CASE inMailBox' = inMailBox
          BY ONLY <4>1, <4>2, Zenon
        <4>3. ASSUME NEW m \in N, inMailBox' = Append(inMailBox, m)
              PROVE  inMailBox' \in Seq(N)
          BY ONLY <4>1, <4>3, m \in N
        <4> QED
          BY ONLY <3>5, <4>2, <4>3, Zenon
      <3> QED
        BY <3>2, <3>6
    <2>3. CASE \E end \in {"sender", "receiver"} : RemoveSession(s, end)
      BY <1>4, <2>3 DEF RemoveSession
    <2> QED
      BY <2>1, <2>2, <2>3
  <1> QED
    BY <1>1, <1>2, <1>3, <1>5, StillLinked, GuiStillLinked, Zenon DEF Linked

(* The mailbox thread hands offers on as they are, and keeps the sender of *)
(* an offer for the GUI.                                                   *)
LEMMA MailboxLinked ==
  ASSUME TypeOK, Linked, MailboxThread, "offers" \notin upsets'
  PROVE  Linked'
  <1> USE FileAssumption
  <1>1. UNCHANGED <<sender, stream, control, pendingOffer, accepted>>
    BY Zenon DEF MailboxThread, HandleFileOffer, PostOffer, KeepOffer,
       HandleFileTransferBegin, Begin,
        HandleFileChunkSent, AppendChunk, HandleFileTransferEnd, MoveToSaveDirectory,
        Finish,
        sender, ui
  <1>2. KeysCounted' /\ Keeps /\ Agreed'
    BY <1>1, SendersAlone
  <1>3. PICK N : N = Named'
    OBVIOUS
  <1>4. inMailBox \in Seq(N) /\ posted \in Seq(N) /\ pendingOffers \in Seq(N)
    BY <1>2, <1>3, StillLinked, GuiStillLinked
  <1>5. inMailBox # <<>> /\ inMailBox' = Tail(inMailBox)
    BY Zenon DEF MailboxThread, HandleFileOffer, PostOffer, KeepOffer,
       HandleFileTransferBegin,
        HandleFileChunkSent, HandleFileTransferEnd, MoveToSaveDirectory, Handles
  <1>6. inMailBox' \in Seq(N) /\ Head(inMailBox) \in N
    BY ONLY <1>4, <1>5
  <1>7. PICK m \in N : m = Head(inMailBox)
    BY <1>6
  <1>8. ASSUME NEW q \in Seq(N) PROVE Append(q, m) \in Seq(N)
    BY ONLY m \in N, q \in Seq(N)
  <1>9. \/ UNCHANGED <<posted, gui>>
        \/ UNCHANGED gui /\ posted' = Append(posted, m)
        \/ HandleFileOffer /\ client = "gui"
    BY <1>7, Zenon DEF MailboxThread, HandleFileOffer, PostOffer, KeepOffer,
       HandleFileTransferBegin,
        HandleFileChunkSent, HandleFileTransferEnd, MoveToSaveDirectory
  <1>10. CASE UNCHANGED gui /\ posted' \in Seq(N)
    BY <1>1, <1>2, <1>3, <1>6, <1>10, StillLinked, GuiStillLinked, SMTT(60) DEF Linked
  <1>11. CASE HandleFileOffer /\ client = "gui"
    <2>1. /\ pendingOffers' = Append(pendingOffers, m)
          /\ offerSenders' = [offerSenders EXCEPT ![m.key] = Owner[m.file]]
          /\ UNCHANGED <<client, alerts, responses, posted>>
      BY <1>7, <1>11, Zenon DEF HandleFileOffer, PostOffer, KeepOffer
    <2>2. ASSUME NEW o \in Unanswered, o.key = m.key PROVE Owner[o.file] = Owner[m.file]
      BY <1>7, <1>11, <2>2, Zenon DEF HandleFileOffer, PostOffer, KeepOffer, Upset
    <2>3. Unanswered' \subseteq Unanswered \cup {m}
      <3>1. \A i \in DOMAIN pendingOffers' :
              pendingOffers'[i] = m \/ \E l \in DOMAIN pendingOffers :
                                         pendingOffers'[i] = pendingOffers[l]
        BY ONLY <1>4, <2>1, m \in N, AppendHolds, Zenon DEF HoldsMore
      <3> QED
        BY <2>1, <3>1 DEF Unanswered
    <2>4. m \in Messages /\ m.key \in Keys
      BY <1>3, ChunkOfMessage DEF Named
    <2>5. offerSenders \in [Keys -> Senders \cup {None}]
      BY Zenon DEF TypeOK, GuiTypes
    <2>6. ASSUME NEW o \in Unanswered \cup {m}
          PROVE  offerSenders'[o.key] \in {Owner[o.file], None}
      <3>1. CASE o.key = m.key
        <4>1. offerSenders'[o.key] = Owner[m.file]
          BY ONLY <2>1, <2>4, <2>5, <3>1
        <4> QED
          BY <2>2, <3>1, <4>1
      <3>2. CASE o.key # m.key
        <4>1. o \in Unanswered
          BY <3>2
        <4>2. o \in Messages
          <5>1. pendingOffers \in Seq(Messages) /\ alerts \in Seq(Messages)
            BY Zenon DEF TypeOK, GuiTypes
          <5> QED
            BY ONLY <4>1, <5>1 DEF Unanswered
        <4>3. o.key \in Keys
          BY <4>2, ChunkOfMessage
        <4>4. offerSenders'[o.key] = offerSenders[o.key]
          BY ONLY <2>1, <2>4, <2>5, <3>2, <4>3
        <4> QED
          BY <4>1, <4>4 DEF Linked, GuiLinked, SendersKnown
      <3> QED
        BY <3>1, <3>2
    <2>7. SendersKnown'
      BY <2>3, <2>6 DEF SendersKnown
    <2>8. pendingOffers' \in Seq(N)
      BY <1>4, <1>8, <2>1
    <2>9. GuiLinked'
      BY <1>2, <1>3, <2>1, <2>7, <2>8, GuiStillLinked DEF GuiLinked
    <2> QED
      BY <1>1, <1>2, <1>3, <1>6, <2>1, <2>9, StillLinked, Zenon DEF Linked
  <1> QED
    BY <1>4, <1>8, <1>9, <1>10, <1>11, Zenon

(* A verdict that goes to its sender keeps what is said of verdicts, if it *)
(* is backed.                                                              *)
LEMMA RespondLinked ==
  ASSUME TypeOK, Linked, Keeps, NEW s \in Senders, NEW k \in Keys,
         NEW a \in {"ACCEPT", "REJECT"}, RespondToFileOffer(s, k, a),
         NEW v, v = [type |-> a, key |-> k], v \in Backed(s)'
  PROVE  \A t \in Senders : control'[t] \in Seq(Backed(t)')
  <1>2. \A t \in Senders : control[t] \in Seq(Backed(t)')
    BY StillLinked
  <1>3. control' = control \/ control' = [control EXCEPT ![s] = Append(@, v)]
    BY DEF RespondToFileOffer
  <1>4. control \in [Senders -> Seq(Verdicts)]
    BY Zenon DEF TypeOK
  <1>5. ASSUME NEW t \in Senders PROVE control'[t] \in Seq(Backed(t)')
    <2>1. CASE control'[t] = control[t]
      BY <1>2, <2>1, Zenon
    <2>2. CASE control'[t] # control[t]
      <3>1. t = s /\ control'[t] = Append(control[t], v)
        BY ONLY <1>3, <1>4, <2>2, t \in Senders, s \in Senders
      <3>2. ASSUME NEW B, control[t] \in Seq(B), v \in B
            PROVE  control'[t] \in Seq(B)
        BY ONLY <3>1, <3>2
      <3>3. v \in Backed(t)'
        BY <3>1
      <3> QED
        BY <1>2, <3>2, <3>3
    <2> QED
      BY <2>1, <2>2
  <1> QED
    BY <1>5

(* An ACCEPT goes to the owner of the file it accepts, with its key. *)
LEMMA PromptLinked ==
  ASSUME TypeOK, Linked,
         ShowOffer \/ \E a \in {"ACCEPT", "REJECT"} : HandleFileOfferKey(a)
  PROVE  Linked'
  <1> USE FileAssumption
  <1>1. UNCHANGED <<sender, stream, inMailBox, gui>> /\ accepted \subseteq accepted'
    BY DEF ShowOffer, HandleFileOfferKey
  <1>2. KeysCounted' /\ Keeps /\ Agreed'
    BY <1>1, SendersAlone
  <1>3. PICK N : N = Named'
    OBVIOUS
  <1>4. posted \in Seq(N) /\ pendingOffer \in N \cup {None}
    BY <1>2, <1>3, StillLinked
  <1>5. CASE ShowOffer
    <2>1. /\ posted # <<>>
          /\ posted' = Tail(posted)
          /\ pendingOffer' = Head(posted)
          /\ UNCHANGED control
      BY <1>5 DEF ShowOffer
    <2>2. posted' \in Seq(N) /\ pendingOffer' \in N
      BY ONLY <1>4, <2>1
    <2> QED
      BY <1>1, <1>2, <1>3, <2>1, <2>2, StillLinked, GuiStillLinked DEF Linked
  <1>6. CASE \E a \in {"ACCEPT", "REJECT"} : HandleFileOfferKey(a)
    <2>1. PICK answer \in {"ACCEPT", "REJECT"} : HandleFileOfferKey(answer)
      BY <1>6
    <2>2. pendingOffer' = None /\ UNCHANGED posted
      BY <2>1 DEF HandleFileOfferKey
    <2>3. \A t \in Senders : control'[t] \in Seq(Backed(t)')
      <3>1. CASE pendingOffer = None
        <4>1. control' = control
          BY <2>1, <3>1 DEF HandleFileOfferKey
        <4> QED
          BY <1>2, <4>1, StillLinked, Zenon
      <3>2. CASE pendingOffer # None
        <4>1. pendingOffer \in Named
          BY <3>2 DEF Linked
        <4> PICK m \in Messages :
              m = pendingOffer /\ Offered(m.file) /\ transfer[m.file].key = m.key
          BY <4>1, SMTT(60) DEF Named
        <4>2. m.file \in Files /\ m.key \in Keys
          BY ChunkOfMessage
        <4>3. PICK s \in Senders : s = Owner[m.file]
          BY <4>2, SMTT(60)
        <4>4. RespondToFileOffer(s, m.key, answer)
          BY <2>1, <3>2, <4>3 DEF HandleFileOfferKey
        <4>5. answer = "ACCEPT" => m.file \in accepted'
          BY <2>1, <3>2 DEF HandleFileOfferKey
        <4>6. transfer' = transfer
          BY <1>1, Zenon DEF sender
        <4> PICK v \in Verdicts : v = [type |-> answer, key |-> m.key]
          BY <4>2, Zenon DEF Verdicts
        <4>7. v.type = answer /\ v.key = m.key
          BY Zenon
        <4>8. v \in Backed(s)'
          BY <4>3, <4>5, <4>6, <4>7 DEF Backed, Offered
        <4> QED
          BY <1>2, <4>2, <4>4, <4>8, RespondLinked, Zenon
      <3> QED
        BY <3>1, <3>2
    <2> QED
      BY <1>1, <1>2, <1>3, <1>4, <2>2, <2>3, StillLinked, GuiStillLinked, Zenon DEF Linked
  <1> QED
    BY <1>5, <1>6

(* The GUI's main thread takes offers as they are, and its answer goes to  *)
(* the owner of the file.                                                  *)
LEMMA GuiStepLinked ==
  ASSUME TypeOK, Linked,
         \/ TakeFileOffers
         \/ PostedResponse
         \/ \E a \in {"ACCEPT", "REJECT"} : RespondToOffer(a)
  PROVE  Linked'
  <1> USE FileAssumption
  <1>1. /\ UNCHANGED <<sender, stream, inMailBox, posted, pendingOffer>>
        /\ accepted \subseteq accepted'
    BY Zenon DEF TakeFileOffers, PostedResponse, RespondToOffer, ui
  <1>2. KeysCounted' /\ Keeps /\ Agreed'
    BY <1>1, SendersAlone
  <1>3. transfer' = transfer
    BY <1>1 DEF sender
  <1>4. PICK N : N = Named'
    OBVIOUS
  <1>5. PICK R : R = BackedResponses'
    OBVIOUS
  <1>6. alerts \in Seq(N) /\ pendingOffers \in Seq(N) /\ responses \in Seq(R)
    BY <1>2, <1>4, <1>5, GuiStillLinked
  <1>7. CASE TakeFileOffers
    <2>1. /\ alerts' = alerts \o pendingOffers
          /\ pendingOffers' = <<>>
          /\ UNCHANGED <<offerSenders, responses, control>>
      BY <1>7 DEF TakeFileOffers
    <2>2. alerts' \in Seq(N) /\ pendingOffers' \in Seq(N)
      BY ONLY <1>6, <2>1
    <2>3. Unanswered' \subseteq Unanswered
      <3>1. \A i \in DOMAIN alerts' :
              \/ \E l \in DOMAIN alerts : alerts'[i] = alerts[l]
              \/ \E l \in DOMAIN pendingOffers : alerts'[i] = pendingOffers[l]
        BY ONLY <1>6, <2>1, SMTT(60)
      <3>2. DOMAIN pendingOffers' = {}
        BY ONLY <2>1
      <3> QED
        BY ONLY <3>1, <3>2 DEF Unanswered
    <2>4. SendersKnown'
      BY <2>1, <2>3 DEF Linked, GuiLinked, SendersKnown
    <2>5. GuiLinked'
      BY <1>4, <1>5, <1>6, <2>1, <2>2, <2>4 DEF GuiLinked
    <2> QED
      BY <1>1, <1>2, <2>1, <2>5, StillLinked DEF Linked
  <1>8. CASE PostedResponse
    <2>1. /\ responses # <<>>
          /\ responses' = Tail(responses)
          /\ UNCHANGED <<pendingOffers, alerts, offerSenders>>
      BY <1>8, Zenon DEF PostedResponse
    <2>2. responses' \in Seq(R) /\ Head(responses) \in R
      BY ONLY <1>6, <2>1
    <2>3. PICK r \in R : r = Head(responses)
      BY <2>2
    <2>4. /\ r \in Responses
          /\ r.type = "ACCEPT" =>
               \E f \in accepted' :
                 Owner[f] = r.to /\ transfer'[f].at # "none" /\ transfer'[f].key = r.key
      BY <1>5 DEF BackedResponses, Offered
    <2>5. r.to \in Senders /\ r.key \in Keys /\ r.type \in {"ACCEPT", "REJECT"}
      BY <2>4 DEF Responses
    <2>6. RespondToFileOffer(r.to, r.key, r.type)
      BY <1>8, <2>3 DEF PostedResponse
    <2> PICK v \in Verdicts : v = [type |-> r.type, key |-> r.key]
      BY <2>5, Zenon DEF Verdicts
    <2>v. v.type = r.type /\ v.key = r.key
      OBVIOUS
    <2>7. v \in Backed(r.to)'
      BY <2>4, <2>v DEF Backed, Offered
    <2>8. \A t \in Senders : control'[t] \in Seq(Backed(t)')
      BY <1>2, <2>5, <2>6, <2>7, RespondLinked, Zenon
    <2>9. SendersKnown'
      BY <2>1, ZenonT(60) DEF Linked, GuiLinked, SendersKnown, Unanswered
    <2>10. GuiLinked'
      BY <1>4, <1>5, <1>6, <2>1, <2>2, <2>9 DEF GuiLinked
    <2> QED
      BY <1>1, <1>2, <2>8, <2>10, StillLinked, Zenon DEF Linked
  <1>9. CASE \E a \in {"ACCEPT", "REJECT"} : RespondToOffer(a)
    <2>1. PICK a \in {"ACCEPT", "REJECT"} : RespondToOffer(a)
      BY <1>9
    <2>2. /\ alerts # <<>>
          /\ alerts' = Tail(alerts)
          /\ UNCHANGED <<pendingOffers, control>>
      BY <2>1, Zenon DEF RespondToOffer
    <2>3. alerts' \in Seq(N)
      BY ONLY <1>6, <2>2
    <2>4. alerts \in Seq(Named)
      BY DEF Linked, GuiLinked
    <2>5. Head(alerts) \in Named /\ Head(alerts) = alerts[1] /\ 1 \in DOMAIN alerts
      BY ONLY <2>2, <2>4, SMTT(60)
    <2> PICK m \in Messages :
          m = Head(alerts) /\ Offered(m.file) /\ transfer[m.file].key = m.key
      BY <2>5 DEF Named
    <2>6. m.file \in Files /\ m.key \in Keys
      BY ChunkOfMessage, Zenon
    <2>7. m \in Unanswered
      BY <2>5, SMTT(60) DEF Unanswered
    <2>8. offerSenders[m.key] \in {Owner[m.file], None}
      <3>1. SendersKnown
        BY Zenon DEF Linked, GuiLinked
      <3> QED
        BY ONLY <2>7, <3>1, Zenon DEF SendersKnown
    <2>9. a = "ACCEPT" => m.file \in accepted'
      BY <2>1, Zenon DEF RespondToOffer
    <2>10. responses' \in Seq(R)
      <3>1. CASE offerSenders[m.key] = None
        BY <1>6, <2>1, <3>1, Zenon DEF RespondToOffer
      <3>2. CASE offerSenders[m.key] # None
        <4>1. PICK s \in Senders : s = Owner[m.file] /\ s = offerSenders[m.key]
          BY <2>6, <2>8, <3>2, Zenon
        <4> PICK r \in Responses : r = [to |-> s, type |-> a, key |-> m.key]
          BY <2>6, Zenon DEF Responses
        <4>2. responses' = Append(responses, r)
          BY <2>1, <3>2, <4>1 DEF RespondToOffer
        <4>3. r.to = s /\ r.type = a /\ r.key = m.key
          OBVIOUS
        <4>4. r \in R
          BY <1>3, <1>5, <2>9, <4>1, <4>3, Zenon DEF BackedResponses, Offered
        <4> QED
          BY ONLY <1>6, <4>2, <4>4
      <3> QED
        BY <3>1, <3>2
    <2>11. Unanswered' \subseteq Unanswered
      <3>1. \A i \in DOMAIN alerts' : \E l \in DOMAIN alerts : alerts'[i] = alerts[l]
        BY ONLY <1>6, <2>2, SMTT(60)
      <3> QED
        BY <2>2, <3>1 DEF Unanswered
    <2>12. ASSUME NEW o \in Unanswered
           PROVE  offerSenders'[o.key] \in {Owner[o.file], None}
      <3>1. offerSenders' = [offerSenders EXCEPT ![m.key] = None]
        BY <2>1, Zenon DEF RespondToOffer
      <3>2. offerSenders \in [Keys -> Senders \cup {None}]
        BY Zenon DEF TypeOK, GuiTypes
      <3>3. o \in Messages
        <4>1. pendingOffers \in Seq(Messages) /\ alerts \in Seq(Messages)
          BY Zenon DEF TypeOK, GuiTypes
        <4> QED
          BY ONLY <2>12, <4>1 DEF Unanswered
      <3>4. o.key \in Keys
        BY <3>3, ChunkOfMessage, Zenon
      <3>5. offerSenders'[o.key] \in {offerSenders[o.key], None}
        BY ONLY <3>1, <3>2, <3>4
      <3> QED
        BY <3>5 DEF Linked, GuiLinked, SendersKnown
    <2>13. SendersKnown'
      BY <2>11, <2>12 DEF SendersKnown
    <2>14. GuiLinked'
      BY <1>4, <1>5, <1>6, <2>2, <2>3, <2>10, <2>13 DEF GuiLinked
    <2> QED
      BY <1>1, <1>2, <2>2, <2>14, StillLinked, Zenon DEF Linked
  <1> QED
    BY <1>7, <1>8, <1>9

(* What came between is not forgotten. *)
LEMMA UpsetsGrow ==
  ASSUME [Next]_vars
  PROVE  upsets \subseteq upsets'
  BY Zenon DEF Next, Progress, vars, gui, Upset, InitiateFileTransferWithSession,
      TransferNextChunk, SignalFileTransfer, ReadStream,
      ReadMessageFrameCallback, ReadFileChunkCallback, SendDataToNode,
      RemoveSession, MailboxThread, HandleFileOffer, PostOffer, KeepOffer,
      HandleFileTransferBegin,
      HandleFileChunkSent, HandleFileTransferEnd, MoveToSaveDirectory, IoThread,
      ShowOffer,
      PostedResponse, TakeFileOffers, Answer, HandleFileOfferKey, RespondToOffer

(* A step of any thread or session keeps Linked. *)
LEMMA StepLinked ==
  ASSUME TypeOK, PendingFiled, "offers" \notin upsets => Linked, [Next]_vars,
         "offers" \notin upsets'
  PROVE  Linked'
  <1>1. Linked
    BY UpsetsGrow
  <1>2. CASE Next
    BY <1>1, <1>2, InitiateLinked, SignalLinked, ChunkLinked, SessionLinked,
       MailboxLinked, PromptLinked, GuiStepLinked, SMTT(60)
    DEF Next, Progress, IoThread, Answer
  <1>3. CASE UNCHANGED vars
    <2>1. /\ UNCHANGED sender
          /\ UNCHANGED gui
          /\ UNCHANGED <<stream, inMailBox, posted, pendingOffer, control, accepted>>
      BY <1>3 DEF vars, ui
    <2>2. KeysCounted' /\ Keeps /\ Agreed'
      BY <1>1, <2>1, SendersAlone, SMTT(60)
    <2> QED
      BY <1>1, <2>1, <2>2, StillLinked, GuiStillLinked DEF Linked
  <1> QED
    BY <1>2, <1>3

----------------------------------------------------------------------------
(* No file is pending at first. *)
LEMMA InitPendingFiled == Init => PendingFiled
  BY FileAssumption DEF Init, Nothing, PendingFiled

(* A file is pending from its offer to its verdict. *)
LEMMA StepPendingFiled ==
  ASSUME TypeOK, PendingFiled, [Next]_vars
  PROVE  PendingFiled'
  <1> USE FileAssumption
  <1>t. transfer \in [Files -> Transfers]
    BY Zenon DEF TypeOK
  <1>p. pendingOutgoing_m \in [Senders -> [Keys -> Files \cup {None}]]
    BY Zenon DEF TypeOK
  <1>1. ASSUME NEW f \in Files, InitiateFileTransferWithSession(f)
        PROVE  PendingFiled'
    <2> PICK s \in Senders : s = Owner[f]
      OBVIOUS
    <2> PICK k \in Keys : k = ftcid[s]
      BY Zenon DEF TypeOK
    <2>1. /\ pendingOutgoing_m' = [pendingOutgoing_m EXCEPT ![s][k] = f]
          /\ transfer[f].at = "none"
          /\ transfer' = [transfer EXCEPT ![f].at = "offered", ![f].key = k]
      BY <1>1 DEF InitiateFileTransferWithSession
    <2>2. /\ transfer'[f].at = "offered" /\ transfer'[f].key = k
          /\ \A g \in Files : g # f => transfer'[g] = transfer[g]
      BY ONLY <1>t, <2>1, f \in Files DEF Transfers
    <2>3. ASSUME NEW t \in Senders, NEW j \in Keys, NEW g \in Files,
                 pendingOutgoing_m'[t][j] = g
          PROVE  transfer'[g].at = "offered" /\ Owner[g] = t /\ transfer'[g].key = j
      <3>1. \/ t = s /\ j = k /\ g = f
            \/ pendingOutgoing_m[t][j] = g
        BY ONLY <1>p, <2>1, <2>3, s \in Senders, k \in Keys
      <3>2. CASE t = s /\ j = k /\ g = f
        BY <2>2, <3>2
      <3>3. CASE pendingOutgoing_m[t][j] = g
        <4>1. transfer[g].at = "offered" /\ Owner[g] = t /\ transfer[g].key = j
          BY ONLY <3>3, PendingFiled, t \in Senders, j \in Keys, g \in Files DEF PendingFiled
        <4>2. g # f
          BY <2>1, <4>1
        <4> QED
          BY <2>2, <4>1, <4>2
      <3> QED
        BY <3>1, <3>2, <3>3, Zenon
    <2> QED
      BY <2>3, Zenon DEF PendingFiled
  <1>2. ASSUME NEW s \in Senders, SignalFileTransfer(s)
        PROVE  PendingFiled'
    <2>1. control \in [Senders -> Seq(Verdicts)] /\ control[s] # <<>>
      BY <1>2, Zenon DEF SignalFileTransfer, TypeOK
    <2>2. Head(control[s]) \in Verdicts
      BY ONLY <2>1, s \in Senders
    <2> PICK k \in Keys : k = Head(control[s]).key
      BY <2>2 DEF Verdicts
    <2> PICK f \in Files \cup {None} : f = pendingOutgoing_m[s][k]
      BY <1>p
    <2>3. CASE f = None
      BY <1>2, <2>3, SMTT(60) DEF SignalFileTransfer, PendingFiled
    <2>4. CASE f # None
      <3>1. /\ pendingOutgoing_m' = [pendingOutgoing_m EXCEPT ![s][k] = None]
            /\ \A g \in Files : g # f => transfer'[g] = transfer[g]
        BY <1>2, <1>t, <2>4, Zenon DEF SignalFileTransfer
      <3>2. Owner[f] = s /\ transfer[f].key = k
        <4>1. f \in Files /\ pendingOutgoing_m[s][k] = f
          BY <2>4
        <4> QED
          BY ONLY <4>1, PendingFiled, s \in Senders, k \in Keys DEF PendingFiled
      <3>3. ASSUME NEW t \in Senders, NEW j \in Keys, NEW g \in Files,
                   pendingOutgoing_m'[t][j] = g
            PROVE  transfer'[g].at = "offered" /\ Owner[g] = t /\ transfer'[g].key = j
        <4>1. pendingOutgoing_m[t][j] = g /\ ~ (t = s /\ j = k)
          BY ONLY <1>p, <3>1, <3>3, s \in Senders, k \in Keys, FileAssumption, SMTT(30)
        <4>2. transfer[g].at = "offered" /\ Owner[g] = t /\ transfer[g].key = j
          BY <4>1, SMTT(60) DEF PendingFiled
        <4>3. g # f
          BY <3>2, <4>1, <4>2, Zenon
        <4> QED
          BY <3>1, <4>2, <4>3
      <3> QED
        BY <3>3 DEF PendingFiled
    <2> QED
      BY <2>3, <2>4
  <1>3. ASSUME NEW f \in Files, TransferNextChunk(f)
        PROVE  PendingFiled'
    <2>1. /\ transfer[f].at \in {"first", "ongoing"}
          /\ UNCHANGED pendingOutgoing_m
          /\ \A g \in Files : g # f => transfer'[g] = transfer[g]
      BY <1>3, <1>t DEF TransferNextChunk
    <2> QED
      BY <2>1 DEF PendingFiled
  <1>4. CASE UNCHANGED sender
    BY <1>4 DEF sender, PendingFiled
  <1>5. \/ \E f \in Files : InitiateFileTransferWithSession(f) \/ TransferNextChunk(f)
        \/ \E s \in Senders : SignalFileTransfer(s)
        \/ UNCHANGED sender
    BY Zenon DEF Next, Progress, vars, ReadStream, SendDataToNode, RemoveSession,
        MailboxThread, HandleFileOffer, PostOffer, KeepOffer, HandleFileTransferBegin,
        HandleFileChunkSent, HandleFileTransferEnd, MoveToSaveDirectory, IoThread,
        ShowOffer,
        PostedResponse, TakeFileOffers, Answer, HandleFileOfferKey,
        RespondToOffer
  <1> QED
    BY <1>1, <1>2, <1>3, <1>4, <1>5

(* Consent holds in every reachable state: nothing of a file is sent unless *)
(* the user it was offered to accepted it, whatever offers, verdicts and    *)
(* removed sessions overlap, at the console and, without a clash of keys   *)
(* between offers, at the GUI.                                              *)
THEOREM ConsentHolds == Spec => []Consent
  <1> DEFINE I == TypeOK /\ PendingFiled /\ ("offers" \notin upsets => Linked)
  <1>1. I /\ [Next]_vars => I'
    BY StepTypeOK, StepPendingFiled, StepLinked
  <1>2. Init => I
    BY InitTypeOK, InitPendingFiled, InitLinked
  <1>3. I => Consent
    BY DEF Linked, Agreed, Consent
  <1> QED
    BY <1>1, <1>2, <1>3, PTL DEF Spec

----------------------------------------------------------------------------
(* A sum that does not reach the modulus does not wrap. *)
LEMMA NoWrap ==
  ASSUME NEW M \in Nat \ {0}, NEW n \in Nat, n < M
  PROVE  n % M = n
  BY SMTT(30)

(* No more is sent than there is. *)
SentBounded == \A f \in Files : transfer[f].sent <= Bytes[f]

(* Where the sums fit, the chunk that is sent as END is the one that       *)
(* reaches the end of the file, and every chunk before it is whole.        *)
LEMMA ChunkWhole ==
  ASSUME TypeOK, SentBounded, NEW f \in Files, TransferNextChunk(f)
  PROVE  /\ transfer'[f].sent <= Bytes[f]
         /\ Fits(f) => /\ transfer'[f].at # "stuck"
                       /\ (transfer'[f].at = "done" => transfer'[f].sent = Bytes[f])
  <1> USE FileAssumption
  <1>t. transfer \in [Files -> Transfers]
    BY Zenon DEF TypeOK
  <1> PICK n \in Nat : n = transfer[f].sent
    BY <1>t DEF Transfers
  <1> PICK b \in Nat : b = Bytes[f]
    OBVIOUS
  <1> PICK c \in Nat \ {0} : c = CSize(f)
    BY ChunkSize, SMTT(60)
  <1> PICK M \in Nat \ {0} : M = Modulus
    OBVIOUS
  <1>1. n <= b
    BY DEF SentBounded
  <1>2. ASSUME NEW a, NEW z, transfer' = [transfer EXCEPT ![f].at = a, ![f].sent = z]
        PROVE  transfer'[f].at = a /\ transfer'[f].sent = z
    BY ONLY <1>t, <1>2, f \in Files DEF Transfers
  <1>3. CASE transfer' = [transfer EXCEPT ![f].at = "ongoing", ![f].sent = n]
    BY <1>1, <1>2, <1>3, Zenon
  <1>4. CASE n = b /\ transfer' = [transfer EXCEPT ![f].at = "done", ![f].sent = n]
    BY <1>1, <1>2, <1>4, Zenon
  <1>5. CASE n < b /\ transfer' =
               [transfer EXCEPT
                  ![f].at = IF (n + c) % M >= b % M THEN "done"
                            ELSE IF n + c <= b THEN "ongoing" ELSE "stuck",
                  ![f].sent = IF n + c <= b THEN n + c ELSE b]
    <2>1. /\ transfer'[f].at = IF (n + c) % M >= b % M THEN "done"
                               ELSE IF n + c <= b THEN "ongoing" ELSE "stuck"
          /\ transfer'[f].sent = IF n + c <= b THEN n + c ELSE b
      BY <1>2, <1>5, Zenon
    <2>2. transfer'[f].sent <= b
      BY <2>1
    <2>3. ASSUME b + c <= M
          PROVE  (n + c) % M = n + c /\ b % M = b
      <3>1. n + c < M /\ b < M /\ n + c \in Nat
        BY ONLY <1>5, <2>3, n \in Nat, b \in Nat, c \in Nat \ {0}, M \in Nat \ {0}, SMTT(60)
      <3> QED
        BY ONLY <3>1, NoWrap, b \in Nat, M \in Nat \ {0}
    <2>4. ASSUME b + c <= M
          PROVE  /\ transfer'[f].at # "stuck"
                 /\ (transfer'[f].at = "done" => transfer'[f].sent = b)
      <3>1. CASE n + c >= b
        <4>1. (n + c) % M >= b % M
          BY ONLY <2>3, <2>4, <3>1, Zenon
        <4>2. (IF n + c <= b THEN n + c ELSE b) = b
          BY ONLY <3>1, n \in Nat, b \in Nat, c \in Nat \ {0}
        <4> QED
          BY ONLY <2>1, <4>1, <4>2, Zenon
      <3>2. CASE n + c < b
        <4>1. ~(n + c >= b) /\ n + c <= b
          BY ONLY <3>2, n \in Nat, b \in Nat, c \in Nat \ {0}
        <4>2. ~((n + c) % M >= b % M)
          BY ONLY <2>3, <2>4, <4>1, Zenon
        <4> QED
          BY ONLY <2>1, <4>1, <4>2, Zenon
      <3> QED
        BY <3>1, <3>2, SMTT(60)
    <2> QED
      BY <2>2, <2>4 DEF Fits
  <1> QED
    BY <1>3, <1>4, <1>5 DEF TransferNextChunk, FSize

(* WholeFileSent holds in every reachable state, for every size of file:   *)
(* as long as the sums of TransferNextChunk fit into a uint32_t, the worker *)
(* ends with all bytes sent and is never left turning in its loop.         *)
THEOREM WholeFileSentHolds == Spec => []WholeFileSent
  <1> DEFINE I == SentBounded /\ WholeFileSent
  <1>1. Init => I
    BY FileAssumption DEF Init, SentBounded, WholeFileSent
  <1>2. TypeOK /\ I /\ [Next]_vars => I'
    <2> SUFFICES ASSUME TypeOK, I, [Next]_vars PROVE I'
      OBVIOUS
    <2>t. transfer \in [Files -> Transfers]
      BY Zenon DEF TypeOK
    <2>1. ASSUME NEW f \in Files, TransferNextChunk(f) PROVE I'
      <3>1. \A g \in Files : g # f => transfer'[g] = transfer[g]
        BY <2>1, <2>t DEF TransferNextChunk
      <3>2. /\ transfer'[f].sent <= Bytes[f]
            /\ Fits(f) => /\ transfer'[f].at # "stuck"
                          /\ (transfer'[f].at = "done" => transfer'[f].sent = Bytes[f])
        BY <2>1, ChunkWhole, SMTT(60)
      <3>3. ASSUME NEW g \in Files
            PROVE  /\ transfer'[g].sent <= Bytes[g]
                   /\ Fits(g) => /\ transfer'[g].at # "stuck"
                                 /\ (transfer'[g].at = "done" =>
                                       transfer'[g].sent = Bytes[g])
        BY <3>1, <3>2 DEF SentBounded, WholeFileSent
      <3> QED
        BY <3>3, Zenon DEF SentBounded, WholeFileSent, Fits
    <2>2. ASSUME \A g \in Files :
                   /\ transfer'[g].sent = transfer[g].sent
                   /\ transfer'[g].at \in {transfer[g].at, "offered", "rejected", "first"}
          PROVE  I'
      BY <2>2, Zenon DEF SentBounded, WholeFileSent, Fits
    <2>3. \/ \E f \in Files : TransferNextChunk(f)
          \/ \E f \in Files : InitiateFileTransferWithSession(f)
          \/ \E s \in Senders : SignalFileTransfer(s)
          \/ UNCHANGED sender
      BY Zenon DEF Next, Progress, vars, ReadStream, SendDataToNode, RemoveSession,
          MailboxThread, HandleFileOffer, PostOffer, KeepOffer, HandleFileTransferBegin,
          HandleFileChunkSent, HandleFileTransferEnd, MoveToSaveDirectory, IoThread,
          ShowOffer, PostedResponse, TakeFileOffers, Answer, HandleFileOfferKey,
          RespondToOffer
    <2>4. CASE \E f \in Files : InitiateFileTransferWithSession(f)
      <3>1. PICK f \in Files : \E k :
              transfer' = [transfer EXCEPT ![f].at = "offered", ![f].key = k]
        BY <2>4, Zenon DEF InitiateFileTransferWithSession
      <3>2. \A g \in Files :
              /\ transfer'[g].sent = transfer[g].sent
              /\ transfer'[g].at \in {transfer[g].at, "offered"}
        BY ONLY <2>t, <3>1 DEF Transfers
      <3> QED
        BY <2>2, <3>2
    <2>5. CASE \E s \in Senders : SignalFileTransfer(s)
      <3>1. PICK s \in Senders : SignalFileTransfer(s)
        BY <2>5
      <3>f. PICK f : f = pendingOutgoing_m[s][Head(control[s]).key]
        OBVIOUS
      <3>a. \/ transfer' = transfer
            \/ transfer' = [transfer EXCEPT ![f].at = "rejected"]
            \/ transfer' = [transfer EXCEPT ![f].at = "first"]
        BY <3>1, <3>f, Zenon DEF SignalFileTransfer
      <3>2. \A g \in Files :
              /\ transfer'[g].sent = transfer[g].sent
              /\ transfer'[g].at \in {transfer[g].at, "rejected", "first"}
        BY ONLY <2>t, <3>a DEF Transfers
      <3> QED
        BY <2>2, <3>2, Zenon
    <2>6. CASE UNCHANGED sender
      BY <2>2, <2>6 DEF sender
    <2> QED
      BY <2>1, <2>3, <2>4, <2>5, <2>6
  <1>3. I => WholeFileSent
    OBVIOUS
  <1> QED
    BY <1>1, <1>2, <1>3, TypeCorrect, PTL DEF Spec

----------------------------------------------------------------------------
(* PromptCloses holds in every reachable state: as long as no offer finds  *)
(* the prompt open, an answer returns the keyboard.                        *)
THEOREM PromptClosesHolds == Spec => []PromptCloses
  <1> DEFINE I ==
        "prompt" \notin upsets =>
          /\ uiState = "FileOffer" <=> pendingOffer # None
          /\ uiState = "FileOffer" => priorUiState # "FileOffer"
  <1>1. Init => I
    BY DEF Init
  <1>2. TypeOK /\ TypeOK' /\ I /\ [Next]_vars => I'
    <2> SUFFICES ASSUME TypeOK, TypeOK', I, [Next]_vars PROVE I'
      OBVIOUS
    <2> USE FileAssumption
    <2>1. upsets \subseteq upsets'
      BY UpsetsGrow
    <2>2. CASE ShowOffer
      <3>1. posted \in Seq(Messages) /\ posted # <<>>
        BY <2>2, Zenon DEF ShowOffer, TypeOK
      <3>2. Head(posted) \in Messages
        BY ONLY <3>1
      <3> QED
        BY <2>1, <2>2, <3>2, NoneAssumption DEF ShowOffer, Upset
    <2>3. CASE \E a \in {"ACCEPT", "REJECT"} : HandleFileOfferKey(a)
      BY <2>1, <2>3, Zenon DEF HandleFileOfferKey
    <2>4. CASE UNCHANGED <<uiState, priorUiState, pendingOffer>>
      BY <2>1, <2>4
    <2>5. \/ ShowOffer
          \/ \E a \in {"ACCEPT", "REJECT"} : HandleFileOfferKey(a)
          \/ UNCHANGED <<uiState, priorUiState, pendingOffer>>
      BY Zenon DEF Next, Progress, vars, InitiateFileTransferWithSession,
          TransferNextChunk, SignalFileTransfer, ReadStream, SendDataToNode,
          RemoveSession, MailboxThread, HandleFileOffer, PostOffer, KeepOffer,
          HandleFileTransferBegin, HandleFileChunkSent, HandleFileTransferEnd,
          MoveToSaveDirectory,
          IoThread, PostedResponse, TakeFileOffers, Answer, RespondToOffer, ui
    <2> QED
      BY <2>2, <2>3, <2>4, <2>5
  <1>3. I => PromptCloses
    BY DEF PromptCloses
  <1> QED
    BY <1>1, <1>2, <1>3, TypeCorrect, PTL DEF Spec

----------------------------------------------------------------------------
(* The messages that carry a part of a file: BEGIN is part 0. *)
Data(m) == m.type \in {"BEGIN", "CHUNK", "END"}

(* BEGIN was sent. *)
Begun(f) == transfer[f].at \in {"ongoing", "done", "stuck"}

(* How many messages of the file were sent: BEGIN and the chunks. *)
Out(f) == IF Begun(f) THEN ChunksFor(f, transfer[f].sent) + 1 ELSE 0

(* The part that was sent as END, 0 if none was. *)
Final(f) == IF transfer[f].at = "done" /\ transfer[f].sent > 0 THEN Out(f) - 1 ELSE 0

(* The message that carries part n of a file with this key. *)
Shape(m, k, last) ==
  /\ m.key = k
  /\ m.type = IF m.part = 0 THEN "BEGIN" ELSE IF m.part = last THEN "END" ELSE "CHUNK"

(* Of file f, q holds the parts from lo up to hi, in order. *)
Carries(q, f, lo, hi, k, last) ==
  /\ \A i \in DOMAIN q : Data(q[i]) /\ q[i].file = f =>
        q[i].part \in lo..hi-1 /\ Shape(q[i], k, last)
  /\ \A i, j \in DOMAIN q :
        i < j /\ Data(q[i]) /\ Data(q[j]) /\ q[i].file = f /\ q[j].file = f =>
          q[i].part < q[j].part
  /\ \A n \in lo..hi-1 : \E i \in DOMAIN q : Data(q[i]) /\ q[i].file = f /\ q[i].part = n

(* Of the messages of a file, a were taken out of the stream, and b of     *)
(* these are no longer in the mailbox.                                     *)
Between(f, a, b) ==
  /\ b[f] <= a[f] /\ a[f] <= Out(f)
  /\ Carries(stream[Owner[f]], f, a[f], Out(f), transfer[f].key, Final(f))
  /\ Carries(inMailBox, f, b[f], a[f], transfer[f].key, Final(f))

(* Whole chunks were sent, and no END before the file was at its end. *)
Counted(f) ==
  /\ ~Begun(f) => transfer[f].sent = 0
  /\ transfer[f].at = "ongoing" =>
        /\ transfer[f].sent % CSize(f) = 0
        /\ transfer[f].sent > 0 => transfer[f].sent < Bytes[f]

(* A session carries the files of its sender. *)
OwnStreams ==
  \A s \in Senders : \A i \in DOMAIN stream[s] :
    Data(stream[s][i]) => Owner[stream[s][i].file] = s

(* No clash of keys, and nothing in the stream of a file. *)
Calm == upsets \cap {"keys", "stream"} = {}

(* BEGIN has been counted, and END has not. *)
Amid(f, c) == c[f] >= 1 /\ (Final(f) = 0 \/ c[f] <= Final(f))

(* A session that is amid a file reads chunks, and of one file only. *)
Reading(a) ==
  /\ \A s \in Senders : mode[s] # "out of step"
  /\ \A f \in Files : Amid(f, a) => mode[Owner[f]] = "chunks"
  /\ \A f, g \in Files : Owner[f] = Owner[g] /\ Amid(f, a) /\ Amid(g, a) => f = g

(* A file the app is amid is registered, and its first parts are written. *)
Writing(b) ==
  \A f \in Files : Amid(f, b) =>
    /\ fileTransferData[transfer[f].key] = f
    /\ disk[f] = [n \in 1..b[f]-1 |-> Chunk(f, n)]

(* What is on its way, and while it is calm what the two ends make of it. *)
Flow(a, b) ==
  /\ \A f \in Files : Between(f, a, b)
  /\ Calm => Reading(a) /\ Writing(b)

(* The inductive invariant of NoFatal and SavedIntact. *)
FInv ==
  /\ OwnStreams
  /\ \A f \in Files : Counted(f)
  /\ NoFatal
  /\ SavedIntact
  /\ \E a, b \in [Files -> Nat] : Flow(a, b)

----------------------------------------------------------------------------
(* Appending a message, index by index. *)
LEMMA AppendAt ==
  ASSUME NEW M, NEW q \in Seq(M), NEW m \in M
  PROVE  /\ DOMAIN q = 1..Len(q) /\ Len(q) \in Nat
         /\ DOMAIN Append(q, m) = 1..Len(q)+1
         /\ \A i \in 1..Len(q) : Append(q, m)[i] = q[i]
         /\ Append(q, m)[Len(q)+1] = m
  OBVIOUS

(* Taking the first message, index by index. *)
LEMMA TailAt ==
  ASSUME NEW M, NEW q \in Seq(M), q # <<>>
  PROVE  /\ DOMAIN q = 1..Len(q) /\ Len(q) \in Nat \ {0}
         /\ Head(q) = q[1]
         /\ DOMAIN Tail(q) = 1..Len(q)-1
         /\ \A i \in 1..Len(q)-1 : Tail(q)[i] = q[i+1]
  OBVIOUS

(* What is known of <= and >= where no sum is worked out. *)
LEMMA AtLeast ==
  \A x, y \in Nat :
    /\ (x >= y) \in BOOLEAN /\ (x = y => x >= y /\ x <= y)
    /\ x <= y => x <= y + 1
  OBVIOUS

(* Nothing carries no part. *)
LEMMA CarriesNothing ==
  ASSUME NEW f, NEW k
  PROVE  Carries(<<>>, f, 0, 0, k, 0)
  BY ONLY TRUE DEF Carries

(* A message that is not of the file changes nothing for it. *)
LEMMA CarriesAppendOther ==
  ASSUME NEW M, NEW q \in Seq(M), NEW m \in M, NEW f, NEW lo \in Nat, NEW hi \in Nat,
         NEW k, NEW last, Carries(q, f, lo, hi, k, last), ~ (Data(m) /\ m.file = f)
  PROVE  Carries(Append(q, m), f, lo, hi, k, last)
  <1> DEFINE p == Append(q, m)
  <1>1. /\ DOMAIN q = 1..Len(q) /\ Len(q) \in Nat
        /\ DOMAIN p = 1..Len(q)+1
        /\ \A i \in 1..Len(q) : p[i] = q[i]
        /\ p[Len(q)+1] = m
    BY AppendAt, SMTT(60)
  <1> HIDE DEF p
  <1>2. \A i \in DOMAIN p : Data(p[i]) /\ p[i].file = f => i \in DOMAIN q /\ p[i] = q[i]
    BY ONLY <1>1, ~ (Data(m) /\ m.file = f)
  <1>3. \A i \in DOMAIN q : i \in DOMAIN p /\ p[i] = q[i]
    BY ONLY <1>1
  <1>4. Carries(p, f, lo, hi, k, last)
    BY ONLY <1>2, <1>3, Carries(q, f, lo, hi, k, last), Zenon DEF Carries
  <1> QED
    BY <1>4, SMTT(60) DEF p

(* Nor does taking such a message out. *)
LEMMA CarriesTailOther ==
  ASSUME NEW M, NEW q \in Seq(M), q # <<>>, NEW f, NEW lo \in Nat, NEW hi \in Nat,
         NEW k, NEW last, Carries(q, f, lo, hi, k, last),
         ~ (Data(Head(q)) /\ Head(q).file = f)
  PROVE  Carries(Tail(q), f, lo, hi, k, last)
  <1> DEFINE p == Tail(q)
  <1>1. /\ DOMAIN q = 1..Len(q) /\ Len(q) \in Nat \ {0}
        /\ Head(q) = q[1]
        /\ DOMAIN p = 1..Len(q)-1
        /\ \A i \in 1..Len(q)-1 : p[i] = q[i+1]
    BY TailAt
  <1> HIDE DEF p
  <1>2. \A i \in DOMAIN p : i + 1 \in DOMAIN q /\ p[i] = q[i+1] /\ i \in Nat
    BY ONLY <1>1
  <1>3. \A i \in DOMAIN q : Data(q[i]) /\ q[i].file = f =>
          i - 1 \in DOMAIN p /\ p[i-1] = q[i]
    BY ONLY <1>1, ~ (Data(Head(q)) /\ Head(q).file = f)
  <1>4. \A i, j \in DOMAIN p : i < j => i + 1 < j + 1
    BY ONLY <1>2, SMTT(30)
  <1>6. \A i \in DOMAIN p : Data(p[i]) /\ p[i].file = f =>
          p[i].part \in lo..hi-1 /\ Shape(p[i], k, last)
    BY ONLY <1>2, Carries(q, f, lo, hi, k, last), Zenon DEF Carries
  <1>8. ASSUME NEW i \in DOMAIN p, NEW j \in DOMAIN p, i < j, Data(p[i]), Data(p[j]),
               p[i].file = f, p[j].file = f
        PROVE  p[i].part < p[j].part
    <2>1. /\ i + 1 \in DOMAIN q /\ p[i] = q[i+1]
          /\ j + 1 \in DOMAIN q /\ p[j] = q[j+1] /\ i + 1 < j + 1
      BY <1>2, <1>4, <1>8, Zenon
    <2>2. Data(q[i+1]) /\ Data(q[j+1]) /\ q[i+1].file = f /\ q[j+1].file = f
      BY ONLY <1>8, <2>1, Zenon
    <2>3. q[i+1].part < q[j+1].part
      BY ONLY <2>1, <2>2, Carries(q, f, lo, hi, k, last), Zenon DEF Carries
    <2> QED
      BY ONLY <2>1, <2>3, Zenon
  <1>9. \A i, j \in DOMAIN p :
          i < j /\ Data(p[i]) /\ Data(p[j]) /\ p[i].file = f /\ p[j].file = f =>
            p[i].part < p[j].part
    BY ONLY <1>8, Zenon
  <1>7. ASSUME NEW n \in lo..hi-1
        PROVE  \E i \in DOMAIN p : Data(p[i]) /\ p[i].file = f /\ p[i].part = n
    <2>1. PICK i \in DOMAIN q : Data(q[i]) /\ q[i].file = f /\ q[i].part = n
      BY ONLY n \in lo..hi-1, Carries(q, f, lo, hi, k, last), Zenon DEF Carries
    <2> QED
      BY ONLY <1>3, <2>1, i \in DOMAIN q
  <1>5. Carries(p, f, lo, hi, k, last)
    BY ONLY <1>6, <1>7, <1>9, Zenon DEF Carries
  <1> QED
    BY <1>5 DEF p

(* The next part of the file goes to the end. *)
LEMMA CarriesAppend ==
  ASSUME NEW M, NEW q \in Seq(M), NEW m \in M, NEW f, NEW lo \in Nat, NEW hi \in Nat,
         lo <= hi, NEW k, NEW last, Carries(q, f, lo, hi, k, last),
         Data(m), m.file = f, m.part = hi, Shape(m, k, last)
  PROVE  Carries(Append(q, m), f, lo, hi + 1, k, last)
  <1> DEFINE p == Append(q, m)
  <1> PICK h : h = hi + 1
    BY Zenon
  <1>1. /\ DOMAIN q = 1..Len(q) /\ Len(q) \in Nat
        /\ DOMAIN p = 1..Len(q)+1
        /\ \A i \in 1..Len(q) : p[i] = q[i]
        /\ p[Len(q)+1] = m
    BY AppendAt, ZenonT(60)
  <1> HIDE DEF p
  <1>2. \A i \in DOMAIN p : (i \in DOMAIN q /\ p[i] = q[i]) \/ (i = Len(q) + 1 /\ p[i] = m)
    BY ONLY <1>1
  <1>3. /\ \A i \in DOMAIN q : i \in DOMAIN p /\ p[i] = q[i] /\ i < Len(q) + 1
        /\ Len(q) + 1 \in DOMAIN p
    BY ONLY <1>1
  <1>4. lo..h-1 = (lo..hi-1) \cup {hi}
    BY ONLY lo \in Nat, hi \in Nat, lo <= hi, h = hi + 1
  <1>5. \A i \in DOMAIN p : Data(p[i]) /\ p[i].file = f =>
          p[i].part \in lo..h-1 /\ Shape(p[i], k, last)
    BY ONLY <1>2, <1>4, Carries(q, f, lo, hi, k, last), m.part = hi, Shape(m, k, last), Zenon
    DEF Carries
  <1>6. ASSUME NEW i \in DOMAIN p, NEW j \in DOMAIN p, i < j, Data(p[i]), Data(p[j]),
               p[i].file = f, p[j].file = f
        PROVE  p[i].part < p[j].part
    <2>1. i \in DOMAIN q /\ p[i] = q[i]
      BY ONLY <1>1, <1>6
    <2>2. CASE j \in DOMAIN q /\ p[j] = q[j]
      BY ONLY <1>6, <2>1, <2>2, Carries(q, f, lo, hi, k, last), Zenon DEF Carries
    <2>3. CASE p[j] = m
      <3>1. p[i].part \in lo..hi-1
        BY ONLY <1>6, <2>1, Carries(q, f, lo, hi, k, last), Zenon DEF Carries
      <3> QED
        BY ONLY <2>3, <3>1, m.part = hi, lo \in Nat, hi \in Nat
    <2> QED
      BY <1>2, <2>2, <2>3, Zenon
  <1>7. \A n \in lo..h-1 :
          \E i \in DOMAIN p : Data(p[i]) /\ p[i].file = f /\ p[i].part = n
    <2>1. \A n \in lo..hi-1 :
            \E i \in DOMAIN p : Data(p[i]) /\ p[i].file = f /\ p[i].part = n
      BY ONLY <1>3, Carries(q, f, lo, hi, k, last), Zenon DEF Carries
    <2>2. Data(p[Len(q)+1]) /\ p[Len(q)+1].file = f /\ p[Len(q)+1].part = hi
      BY ONLY <1>1, Data(m), m.file = f, m.part = hi
    <2> QED
      BY ONLY <1>3, <1>4, <2>1, <2>2
  <1>9. \A i, j \in DOMAIN p :
          i < j /\ Data(p[i]) /\ Data(p[j]) /\ p[i].file = f /\ p[j].file = f =>
            p[i].part < p[j].part
    BY ONLY <1>6, Zenon
  <1>8. Carries(p, f, lo, h, k, last)
    BY ONLY <1>5, <1>7, <1>9, Zenon DEF Carries
  <1> QED
    BY <1>8, Zenon DEF p

(* The first message of the file that is taken out is its first part. *)
LEMMA CarriesTail ==
  ASSUME NEW M, NEW q \in Seq(M), q # <<>>, NEW f, NEW lo \in Nat, NEW hi \in Nat,
         NEW k, NEW last, Carries(q, f, lo, hi, k, last), Data(Head(q)), Head(q).file = f
  PROVE  /\ Head(q).part = lo /\ lo < hi
         /\ Shape(Head(q), k, last)
         /\ Carries(Tail(q), f, lo + 1, hi, k, last)
  <1> DEFINE p == Tail(q)
  <1>1. /\ DOMAIN q = 1..Len(q) /\ Len(q) \in Nat \ {0}
        /\ Head(q) = q[1]
        /\ DOMAIN p = 1..Len(q)-1
        /\ \A i \in 1..Len(q)-1 : p[i] = q[i+1]
    BY TailAt
  <1> HIDE DEF p
  <1>h. 1 \in DOMAIN q /\ Data(q[1]) /\ q[1].file = f
    BY ONLY <1>1, Data(Head(q)), Head(q).file = f
  <1>2. q[1].part \in lo..hi-1 /\ Shape(q[1], k, last)
    BY ONLY <1>h, Carries(q, f, lo, hi, k, last), Zenon DEF Carries
  <1>3. lo < hi /\ lo \in lo..hi-1
    BY ONLY <1>2, lo \in Nat, hi \in Nat
  <1>4. PICK i \in DOMAIN q : Data(q[i]) /\ q[i].file = f /\ q[i].part = lo
    BY ONLY <1>3, Carries(q, f, lo, hi, k, last), Zenon DEF Carries
  <1>5. q[1].part = lo
    <2>1. CASE i = 1
      BY <1>4, <2>1, SMTT(60)
    <2>2. CASE i # 1
      <3>1. 1 < i
        BY ONLY <1>1, <2>2, i \in DOMAIN q
      <3>2. q[1].part < lo
        BY ONLY <1>h, <1>4, <3>1, i \in DOMAIN q, Carries(q, f, lo, hi, k, last), Zenon DEF Carries
      <3> QED
        BY ONLY <1>2, <3>2, lo \in Nat, hi \in Nat, SMTT(30)
    <2> QED
      BY <2>1, <2>2, Zenon
  <1>6. /\ \A j \in DOMAIN p : j + 1 \in DOMAIN q /\ p[j] = q[j+1] /\ 1 < j + 1
        /\ \A j, l \in DOMAIN p : j < l => j + 1 < l + 1
    BY ONLY <1>1
  <1>7. \A j \in DOMAIN q : j # 1 => j - 1 \in DOMAIN p /\ p[j-1] = q[j]
    BY ONLY <1>1
  <1>8. \A j \in DOMAIN p : Data(p[j]) /\ p[j].file = f =>
          p[j].part \in (lo+1)..hi-1 /\ Shape(p[j], k, last)
    <2> SUFFICES ASSUME NEW j \in DOMAIN p, Data(p[j]), p[j].file = f
                 PROVE  p[j].part \in (lo+1)..hi-1 /\ Shape(p[j], k, last)
      BY Zenon
    <2>1. p[j].part \in lo..hi-1 /\ Shape(p[j], k, last) /\ q[1].part < p[j].part
      <3>1. PICK l \in DOMAIN q : l = j + 1 /\ p[j] = q[l] /\ 1 < l
        BY ONLY <1>6, j \in DOMAIN p, Zenon
      <3>2. Data(q[l]) /\ q[l].file = f
        BY ONLY <3>1, Data(p[j]), p[j].file = f, Zenon
      <3>3. /\ q[l].part \in lo..hi-1 /\ Shape(q[l], k, last)
            /\ q[1].part < q[l].part
        BY ONLY <1>h, <3>1, <3>2, l \in DOMAIN q, Carries(q, f, lo, hi, k, last), Zenon
        DEF Carries
      <3> QED
        BY ONLY <3>1, <3>3, Zenon
    <2> QED
      BY ONLY <1>5, <2>1, lo \in Nat, hi \in Nat
  <1>9. \A j, l \in DOMAIN p :
          j < l /\ Data(p[j]) /\ Data(p[l]) /\ p[j].file = f /\ p[l].file = f =>
            p[j].part < p[l].part
    <2>1. ASSUME NEW j \in DOMAIN p, NEW l \in DOMAIN p, j < l, Data(p[j]), Data(p[l]),
                 p[j].file = f, p[l].file = f
          PROVE  p[j].part < p[l].part
      <3>1. PICK a \in DOMAIN q, b \in DOMAIN q : p[j] = q[a] /\ p[l] = q[b] /\ a < b
        BY ONLY <1>6, <2>1, Zenon
      <3>2. Data(q[a]) /\ Data(q[b]) /\ q[a].file = f /\ q[b].file = f
        BY ONLY <2>1, <3>1, Zenon
      <3>3. q[a].part < q[b].part
        BY ONLY <3>1, <3>2, a \in DOMAIN q, b \in DOMAIN q,
           Carries(q, f, lo, hi, k, last), Zenon DEF Carries
      <3> QED
        BY ONLY <3>1, <3>3, Zenon
    <2> QED
      BY ONLY <2>1, Zenon
  <1>10. \A n \in (lo+1)..hi-1 :
           \E j \in DOMAIN p : Data(p[j]) /\ p[j].file = f /\ p[j].part = n
    <2> SUFFICES ASSUME NEW n \in (lo+1)..hi-1
                 PROVE  \E j \in DOMAIN p : Data(p[j]) /\ p[j].file = f /\ p[j].part = n
      BY SMTT(30)
    <2>1. n \in lo..hi-1 /\ n # lo
      BY ONLY lo \in Nat, hi \in Nat, n \in (lo+1)..hi-1
    <2>2. PICK j \in DOMAIN q : Data(q[j]) /\ q[j].file = f /\ q[j].part = n
      BY ONLY <2>1, Carries(q, f, lo, hi, k, last), Zenon DEF Carries
    <2>3. j # 1
      BY ONLY <1>5, <2>1, <2>2
    <2> QED
      BY ONLY <1>7, <2>2, <2>3, j \in DOMAIN q, SMTT(60)
  <1>11. Carries(p, f, lo + 1, hi, k, last)
    BY ONLY <1>8, <1>9, <1>10, Zenon DEF Carries
  <1> QED
    BY <1>1, <1>2, <1>3, <1>5, <1>11 DEF p

(* Which part will be the last one is decided when it is sent. *)
LEMMA CarriesLast ==
  ASSUME NEW q, NEW f, NEW lo \in Nat, NEW hi \in Nat, NEW k, NEW last \in Nat,
         hi <= last, Carries(q, f, lo, hi, k, 0)
  PROVE  Carries(q, f, lo, hi, k, last)
  <1>1. \A n \in lo..hi-1 : n # last
    BY ONLY lo \in Nat, hi \in Nat, last \in Nat, hi <= last, SMTT(60)
  <1>2. \A i \in DOMAIN q : Data(q[i]) /\ q[i].file = f =>
          q[i].part \in lo..hi-1 /\ Shape(q[i], k, last)
    BY ONLY <1>1, Carries(q, f, lo, hi, k, 0) DEF Carries, Shape
  <1> QED
    BY ONLY <1>2, Carries(q, f, lo, hi, k, 0), Zenon DEF Carries

(* Where no part is, numbers and key say nothing. *)
LEMMA CarriesNone ==
  ASSUME NEW q, NEW f, NEW n \in Nat, NEW p \in Nat, NEW k, NEW l, NEW last,
         Carries(q, f, n, n, k, last)
  PROVE  Carries(q, f, p, p, l, last)
  <1>1. n..n-1 = {} /\ p..p-1 = {}
    BY ONLY n \in Nat, p \in Nat
  <1> QED
    BY ONLY <1>1, Carries(q, f, n, n, k, last), Zenon DEF Carries

(* The sizes of chunks there are. *)
ChunkSizes == {64, 256, 512, 4096, 32768, 65536, 524288, 1048676}

(* DetermineChunkSize takes one of them. *)
LEMMA ChunkSizeIsOne ==
  ASSUME NEW f \in Files
  PROVE  CSize(f) \in ChunkSizes
  BY SMTT(30) DEF CSize, DetermineChunkSize, ChunkSizes

(* Chunks that are whole, and one more, counted by a division. *)
LEMMA Chunking ==
  ASSUME NEW c \in ChunkSizes, NEW n \in Nat, NEW b \in Nat, n % c = 0
  PROVE  /\ (n + c - 1) \div c = n \div c
         /\ (n + c) % c = 0
         /\ ((n + c) + c - 1) \div c = n \div c + 1
         /\ n < b /\ b < n + c => (b + c - 1) \div c = n \div c + 1
  <1> DEFINE G == /\ (n + c - 1) \div c = n \div c
                  /\ (n + c) % c = 0
                  /\ ((n + c) + c - 1) \div c = n \div c + 1
                  /\ n < b /\ b < n + c => (b + c - 1) \div c = n \div c + 1
  <1>1. ASSUME c = 64 PROVE G
    BY ONLY <1>1, n \in Nat, b \in Nat, n % c = 0
  <1>2. ASSUME c = 256 PROVE G
    BY ONLY <1>2, n \in Nat, b \in Nat, n % c = 0
  <1>3. ASSUME c = 512 PROVE G
    BY ONLY <1>3, n \in Nat, b \in Nat, n % c = 0
  <1>4. ASSUME c = 4096 PROVE G
    BY ONLY <1>4, n \in Nat, b \in Nat, n % c = 0
  <1>5. ASSUME c = 32768 PROVE G
    BY ONLY <1>5, n \in Nat, b \in Nat, n % c = 0
  <1>6. ASSUME c = 65536 PROVE G
    BY ONLY <1>6, n \in Nat, b \in Nat, n % c = 0
  <1>7. ASSUME c = 524288 PROVE G
    BY ONLY <1>7, n \in Nat, b \in Nat, n % c = 0
  <1>8. ASSUME c = 1048676 PROVE G
    BY ONLY <1>8, n \in Nat, b \in Nat, n % c = 0
  <1>9. \/ c = 64 \/ c = 256 \/ c = 512 \/ c = 4096 \/ c = 32768
        \/ c = 65536 \/ c = 524288 \/ c = 1048676
    BY ONLY c \in ChunkSizes DEF ChunkSizes
  <1> HIDE DEF G
  <1>10. G
    BY ONLY <1>1, <1>2, <1>3, <1>4, <1>5, <1>6, <1>7, <1>8, <1>9
  <1> QED
    BY <1>10, Zenon DEF G

(* A file of which nothing was sent takes no chunks. *)
LEMMA NoChunks ==
  ASSUME NEW c \in ChunkSizes
  PROVE  (0 + c - 1) \div c = 0 /\ 0 % c = 0
  <1>1. 0 % c = 0 /\ c \in Nat
    BY DEF ChunkSizes
  <1>2. 0 \div c = 0
    BY DEF ChunkSizes
  <1> QED
    BY <1>1, <1>2, Chunking

(* The counts of a file are those of its transfer. *)
LEMMA SameCounts ==
  ASSUME NEW f \in Files, transfer'[f] = transfer[f]
  PROVE  Out(f)' = Out(f) /\ Final(f)' = Final(f) /\ (Counted(f) => Counted(f)')
  BY Zenon DEF Out, Final, Begun, ChunksFor, CSize, FSize, Counted

(* The counts are numbers. *)
LEMMA OutType ==
  ASSUME TypeOK, NEW f \in Files
  PROVE  Out(f) \in Nat /\ Final(f) \in Nat
  <1>1. transfer[f].sent \in Nat
    BY Zenon DEF TypeOK, Transfers
  <1>2. ChunksFor(f, transfer[f].sent) \in Nat
    BY <1>1, ChunkSize, Zenon
  <1> QED
    BY <1>2 DEF Out, Final, Begun

(* TransferNextChunk sends the next part of its file, as END if it is the  *)
(* last one, or nothing.                                                   *)
LEMMA SendsNextPart ==
  ASSUME TypeOK, TypeOK', NEW f \in Files, Counted(f), TransferNextChunk(f)
  PROVE  /\ Counted(f)'
         /\ Final(f) = 0
         /\ transfer'[f].key = transfer[f].key
         /\ \A g \in Files : g # f => transfer'[g] = transfer[g]
         /\ \/ UNCHANGED stream /\ Out(f)' = Out(f) /\ Final(f)' = 0
            \/ \E m \in Messages :
                 /\ stream' = [stream EXCEPT ![Owner[f]] = Append(@, m)]
                 /\ Data(m) /\ m.file = f /\ m.part = Out(f)
                 /\ Shape(m, transfer[f].key, Final(f)')
                 /\ Out(f)' = Out(f) + 1
                 /\ Final(f)' \in {0, Out(f)}
  <1> USE FileAssumption
  <1>t. transfer \in [Files -> Transfers]
    BY Zenon DEF TypeOK
  <1>f. transfer[f].at \in {"first", "ongoing"}
    BY DEF TransferNextChunk, LaunchFileTransfer
  <1> PICK n \in Nat : n = transfer[f].sent
    BY <1>t DEF Transfers
  <1> PICK k \in Keys : k = transfer[f].key
    BY <1>t DEF Transfers
  <1> PICK b \in Nat : b = Bytes[f]
    BY Zenon
  <1> PICK c \in ChunkSizes : c = CSize(f)
    BY ChunkSizeIsOne, Zenon
  <1>c. c \in Nat \ {0}
    BY ONLY c \in ChunkSizes DEF ChunkSizes
  <1>d. n \div c \in Nat
    BY ONLY <1>c, n \in Nat
  <1> PICK p \in Nat : p = n \div c + 1
    BY ONLY <1>d
  <1>p. p # 0
    BY ONLY <1>d, p = n \div c + 1
  <1>1. n % c = 0 /\ (n > 0 => n < b \/ transfer[f].at = "first")
    <2>1. CASE transfer[f].at = "first"
      BY <2>1, NoChunks, Zenon DEF Counted, Begun
    <2>2. CASE transfer[f].at = "ongoing"
      BY <2>2, Zenon DEF Counted
    <2> QED
      BY <1>f, <2>1, <2>2, Zenon
  <1>2. /\ (n + c - 1) \div c = n \div c
        /\ (n + c) % c = 0
        /\ ((n + c) + c - 1) \div c = n \div c + 1
        /\ n < b /\ b < n + c => (b + c - 1) \div c = n \div c + 1
    BY ONLY <1>1, Chunking, c \in ChunkSizes, n \in Nat, b \in Nat
  <1>o. Out(f) = IF transfer[f].at = "first" THEN 0 ELSE p
    BY <1>2, <1>f, Zenon DEF Out, Begun, ChunksFor
  <1>3. Final(f) = 0
    BY <1>f DEF Final
  <1>4. ASSUME NEW a, NEW z, transfer' = [transfer EXCEPT ![f].at = a, ![f].sent = z]
        PROVE  /\ transfer'[f].at = a /\ transfer'[f].sent = z /\ transfer'[f].key = k
               /\ \A g \in Files : g # f => transfer'[g] = transfer[g]
    BY ONLY <1>t, <1>4, f \in Files, k = transfer[f].key DEF Transfers
  <1>5. CASE /\ transfer[f].at = "first"
             /\ stream' = [stream EXCEPT ![Owner[f]] =
                             Append(@, Message("BEGIN", k, f, 0))]
             /\ transfer' = [transfer EXCEPT ![f].at = "ongoing", ![f].sent = n]
    <2>1. /\ transfer'[f].at = "ongoing" /\ transfer'[f].sent = n /\ transfer'[f].key = k
          /\ \A g \in Files : g # f => transfer'[g] = transfer[g]
      BY <1>4, <1>5, Zenon
    <2>2. n = 0 /\ ~(n > 0)
      <3>1. n = 0
        BY <1>5, Zenon DEF Counted, Begun
      <3> QED
        BY ONLY <3>1
    <2>3. Counted(f)'
      BY <1>1, <2>1, <2>2, Zenon DEF Counted, Begun, CSize, FSize
    <2>4. Out(f)' = 1 /\ Final(f)' = 0
      <3>1. (0 + c - 1) \div c = 0
        BY NoChunks, Zenon
      <3>2. ChunksFor(f, transfer[f].sent)' = 0
        BY <2>1, <2>2, <3>1, Zenon DEF ChunksFor, CSize, FSize
      <3>3. Out(f)' = 0 + 1
        BY <2>1, <3>2, Zenon DEF Out, Begun
      <3>4. Final(f)' = 0
        BY <2>1, Zenon DEF Final
      <3> QED
        BY ONLY <3>3, <3>4
    <2>5. Out(f) = 0
      BY <1>o, <1>5, Zenon
    <2> DEFINE m == Message("BEGIN", k, f, 0)
    <2>6. m \in Messages /\ Data(m) /\ m.file = f /\ m.part = 0 /\ Shape(m, k, 0)
      BY MessageType, Zenon DEF Message, Data, Shape
    <2> HIDE DEF m
    <2>7. /\ stream' = [stream EXCEPT ![Owner[f]] = Append(@, m)]
          /\ m.part = Out(f) /\ Shape(m, transfer[f].key, Final(f)')
          /\ Out(f)' = Out(f) + 1 /\ Final(f)' \in {0, Out(f)}
      BY <1>5, <2>4, <2>5, <2>6 DEF m
    <2> QED
      BY <1>3, <2>1, <2>3, <2>6, <2>7, Zenon
  <1>6. ASSUME NEW last \in BOOLEAN, transfer[f].at = "ongoing", n < b,
               n + c = b => last,
               stream' = [stream EXCEPT ![Owner[f]] =
                            Append(@, Message(IF last THEN "END" ELSE "CHUNK", k, f, p))],
               transfer' = [transfer EXCEPT
                  ![f].at = IF last THEN "done"
                            ELSE IF n + c <= b THEN "ongoing" ELSE "stuck",
                  ![f].sent = IF n + c <= b THEN n + c ELSE b]
        PROVE  /\ Counted(f)'
               /\ transfer'[f].key = transfer[f].key
               /\ \A g \in Files : g # f => transfer'[g] = transfer[g]
               /\ \E m \in Messages :
                    /\ stream' = [stream EXCEPT ![Owner[f]] = Append(@, m)]
                    /\ Data(m) /\ m.file = f /\ m.part = Out(f)
                    /\ Shape(m, transfer[f].key, Final(f)')
                    /\ Out(f)' = Out(f) + 1
                    /\ Final(f)' \in {0, Out(f)}
    <2> PICK z \in Nat : z = IF n + c <= b THEN n + c ELSE b
      BY ONLY <1>c, n \in Nat, b \in Nat
    <2>1. /\ transfer'[f].at = IF last THEN "done"
                               ELSE IF n + c <= b THEN "ongoing" ELSE "stuck"
          /\ transfer'[f].sent = z /\ transfer'[f].key = k
          /\ \A g \in Files : g # f => transfer'[g] = transfer[g]
      BY <1>4, <1>6, Zenon
    <2>2. z > 0 /\ (n + c <= b => z % c = 0 /\ z = n + c) /\ (z + c - 1) \div c = p
      <3>1. CASE n + c <= b
        <4>1. z = n + c
          BY ONLY <3>1, z = IF n + c <= b THEN n + c ELSE b
        <4>2. (z + c - 1) \div c = p /\ z % c = 0
          BY ONLY <1>2, <4>1, p = n \div c + 1
        <4>3. z > 0
          BY ONLY <1>c, <4>1, n \in Nat
        <4> QED
          BY <4>1, <4>2, <4>3, Zenon
      <3>2. CASE ~ (n + c <= b)
        <4>1. z = b /\ b < n + c
          BY ONLY <1>c, <3>2, n \in Nat, b \in Nat, z = IF n + c <= b THEN n + c ELSE b
        <4>2. (z + c - 1) \div c = p
          BY ONLY <1>2, <1>6, <4>1, p = n \div c + 1
        <4>3. z > 0
          BY ONLY <1>6, <4>1, n \in Nat, b \in Nat
        <4> QED
          BY ONLY <3>2, <4>2, <4>3
      <3> QED
        BY <3>1, <3>2, Zenon
    <2>3. Counted(f)'
      <3>1. transfer'[f].at \in {"ongoing", "done", "stuck"}
        BY <2>1, Zenon
      <3>2. transfer'[f].at = "ongoing" => ~last /\ n + c <= b
        BY <2>1, Zenon
      <3>3. transfer'[f].at = "ongoing" => z % c = 0 /\ z < b
        BY ONLY <1>6, <1>c, <2>2, <3>2, n \in Nat, b \in Nat
      <3> QED
        BY <2>1, <3>1, <3>3, Zenon DEF Counted, Begun, CSize, FSize
    <2>4. Out(f)' = p + 1 /\ Out(f) = p
      <3>1. ChunksFor(f, transfer[f].sent)' = p
        BY <2>1, <2>2, Zenon DEF ChunksFor, CSize, FSize
      <3>2. Begun(f)'
        BY <2>1, Zenon DEF Begun
      <3> QED
        BY <1>o, <1>6, <3>1, <3>2, Zenon DEF Out
    <2>5. Final(f)' = IF last THEN p ELSE 0
      <3>1. transfer'[f].at = "done" <=> last
        BY <2>1, Zenon
      <3>2. Final(f)' = IF last THEN (p + 1) - 1 ELSE 0
        BY <2>1, <2>2, <2>4, <3>1, Zenon DEF Final
      <3>3. (p + 1) - 1 = p
        BY ONLY p \in Nat
      <3> QED
        BY ONLY <3>2, <3>3, Zenon
    <2> DEFINE m == Message(IF last THEN "END" ELSE "CHUNK", k, f, p)
    <2>7. m \in Messages /\ Data(m) /\ m.file = f /\ m.part = p
      BY MessageType, Zenon DEF Message, Data
    <2>8. Shape(m, k, IF last THEN p ELSE 0)
      BY <1>p, Zenon DEF Message, Shape
    <2> QED
      BY <1>6, <2>1, <2>3, <2>4, <2>5, <2>7, <2>8, Zenon
  <1>7. CASE /\ transfer[f].at = "ongoing"
             /\ n = b
             /\ UNCHANGED stream
             /\ transfer' = [transfer EXCEPT ![f].at = "done", ![f].sent = n]
    <2>1. /\ transfer'[f].at = "done" /\ transfer'[f].sent = n /\ transfer'[f].key = k
          /\ \A g \in Files : g # f => transfer'[g] = transfer[g]
      BY <1>4, <1>7, Zenon
    <2>2. ~(n > 0)
      <3>1. n > 0 => n < b
        BY <1>1, <1>7, Zenon
      <3> QED
        BY ONLY <1>7, <3>1, n \in Nat
    <2>3. Counted(f)' /\ Final(f)' = 0
      BY <2>1, <2>2, Zenon DEF Counted, Begun, Final
    <2>4. Out(f)' = Out(f)
      <3>1. Begun(f) /\ Begun(f)'
        BY <1>7, <2>1, Zenon DEF Begun
      <3>2. ChunksFor(f, transfer[f].sent)' = ChunksFor(f, transfer[f].sent)
        BY <2>1, Zenon DEF ChunksFor, CSize, FSize
      <3> QED
        BY <3>1, <3>2, Zenon DEF Out
    <2> QED
      BY <1>3, <1>7, <2>1, <2>3, <2>4, Zenon
  <1> DEFINE L == (n + c) % Modulus >= FSize(f)
  <1>8. L \in BOOLEAN /\ (n + c = b => L)
    <2>1. (n + c) % Modulus \in Nat
      BY <1>c
    <2>2. FSize(f) = b % Modulus
      BY Zenon DEF FSize
    <2>3. FSize(f) \in Nat
      BY ONLY <2>2, b \in Nat, Modulus \in Nat \ {0}
    <2> QED
      BY ONLY <2>1, <2>2, <2>3, AtLeast, Zenon
  <1>9. TransferNextChunk(f) =>
          \/ /\ transfer[f].at = "first"
             /\ stream' = [stream EXCEPT ![Owner[f]] =
                             Append(@, Message("BEGIN", k, f, 0))]
             /\ transfer' = [transfer EXCEPT ![f].at = "ongoing", ![f].sent = n]
          \/ /\ transfer[f].at = "ongoing" /\ n < b
             /\ stream' = [stream EXCEPT ![Owner[f]] =
                            Append(@, Message(IF L THEN "END" ELSE "CHUNK", k, f, p))]
             /\ transfer' = [transfer EXCEPT
                  ![f].at = IF L THEN "done"
                            ELSE IF n + c <= b THEN "ongoing" ELSE "stuck",
                  ![f].sent = IF n + c <= b THEN n + c ELSE b]
          \/ /\ transfer[f].at = "ongoing"
             /\ n = b
             /\ UNCHANGED stream
             /\ transfer' = [transfer EXCEPT ![f].at = "done", ![f].sent = n]
    BY Zenon DEF TransferNextChunk, Put
  <1> HIDE DEF L
  <1> QED
    BY <1>3, <1>5, <1>6, <1>7, <1>8, <1>9, Zenon

(* From q to p, a message of something else than f came or went, if any. *)
Aside(q, p, f, M) ==
  \/ p = q
  \/ \E m \in M : ~ (Data(m) /\ m.file = f) /\ p = Append(q, m)
  \/ q # <<>> /\ ~ (Data(Head(q)) /\ Head(q).file = f) /\ p = Tail(q)

(* The parts of f stay what they are. *)
LEMMA CarriesAside ==
  ASSUME NEW M, NEW q \in Seq(M), NEW p, NEW f, NEW lo \in Nat, NEW hi \in Nat,
         NEW k, NEW last, Carries(q, f, lo, hi, k, last), Aside(q, p, f, M)
  PROVE  Carries(p, f, lo, hi, k, last)
  <1>1. CASE p = q
    BY <1>1
  <1>2. CASE \E m \in M : ~ (Data(m) /\ m.file = f) /\ p = Append(q, m)
    BY <1>2, CarriesAppendOther
  <1>3. CASE q # <<>> /\ ~ (Data(Head(q)) /\ Head(q).file = f) /\ p = Tail(q)
    BY <1>3, CarriesTailOther, Zenon
  <1> QED
    BY <1>1, <1>2, <1>3, Zenon DEF Aside

(* What is on its way of f stays the same while it is others' turn. *)
LEMMA BetweenStays ==
  ASSUME TypeOK, NEW f \in Files, NEW a \in [Files -> Nat], NEW b \in [Files -> Nat],
         NEW x \in [Files -> Nat], NEW y \in [Files -> Nat], x[f] = a[f], y[f] = b[f],
         Between(f, a, b), Out(f)' = Out(f), Final(f)' = Final(f),
         transfer'[f].key = transfer[f].key \/ Out(f) = 0,
         Aside(stream[Owner[f]], stream'[Owner[f]], f, Messages \cup {Chat}),
         Aside(inMailBox, inMailBox', f, Messages)
  PROVE  Between(f, x, y)'
  <1> USE FileAssumption
  <1>1. Out(f) \in Nat /\ a[f] \in Nat /\ b[f] \in Nat
    BY OutType, Zenon
  <1>2. stream[Owner[f]] \in Seq(Messages \cup {Chat}) /\ inMailBox \in Seq(Messages)
    BY Zenon DEF TypeOK
  <1>3. Carries(stream'[Owner[f]], f, a[f], Out(f), transfer[f].key, Final(f))
    BY <1>1, <1>2, CarriesAside, Zenon DEF Between
  <1>4. Carries(inMailBox', f, b[f], a[f], transfer[f].key, Final(f))
    BY <1>1, <1>2, CarriesAside, Zenon DEF Between
  <1>5. b[f] <= a[f] /\ a[f] <= Out(f)
    BY Zenon DEF Between
  <1>6. /\ Carries(stream'[Owner[f]], f, a[f], Out(f), transfer'[f].key, Final(f))
        /\ Carries(inMailBox', f, b[f], a[f], transfer'[f].key, Final(f))
    <2>1. CASE transfer'[f].key = transfer[f].key
      BY <1>3, <1>4, <2>1, Zenon
    <2>2. CASE Out(f) = 0
      <3>1. a[f] = 0 /\ b[f] = 0
        BY ONLY <1>1, <1>5, <2>2
      <3> QED
        <4>1. /\ Carries(stream'[Owner[f]], f, 0, 0, transfer[f].key, Final(f))
              /\ Carries(inMailBox', f, 0, 0, transfer[f].key, Final(f))
          BY ONLY <1>3, <1>4, <2>2, <3>1, Zenon
        <4>2. 0 \in Nat
          BY ONLY TRUE
        <4>3. /\ Carries(stream'[Owner[f]], f, 0, 0, transfer'[f].key, Final(f))
              /\ Carries(inMailBox', f, 0, 0, transfer'[f].key, Final(f))
          BY ONLY <4>1, <4>2, CarriesNone, Zenon
        <4> QED
          BY ONLY <2>2, <3>1, <4>3, Zenon
    <2> QED
      BY <2>1, <2>2, Zenon
  <1> QED
    BY <1>5, <1>6, Zenon DEF Between

(* The sessions and the app are not touched by what a sender does. *)
LEMMA FlowStays ==
  ASSUME TypeOK, NEW a \in [Files -> Nat], NEW b \in [Files -> Nat], Flow(a, b),
         upsets \subseteq upsets', UNCHANGED <<mode, fileTransferData, disk>>,
         \A f \in Files : /\ Final(f)' = Final(f) \/ Final(f) = 0
                          /\ transfer'[f].key = transfer[f].key \/ Out(f) = 0
                          /\ Between(f, a, b)'
  PROVE  Flow(a, b)'
  <1>1. ASSUME NEW f \in Files
        PROVE  /\ Amid(f, a)' => Amid(f, a)
               /\ Amid(f, b)' => Amid(f, b) /\ transfer'[f].key = transfer[f].key
    <2>1. Out(f) \in Nat /\ a[f] \in Nat /\ b[f] \in Nat /\ b[f] <= a[f] /\ a[f] <= Out(f)
      BY OutType, Zenon DEF Flow, Between
    <2>2. (Amid(f, a)' => Amid(f, a)) /\ (Amid(f, b)' => Amid(f, b))
      BY <1>1, Zenon DEF Amid
    <2>3. Amid(f, b) => Out(f) # 0
      BY ONLY <2>1, SMTT(60) DEF Amid
    <2> QED
      BY <1>1, <2>2, <2>3, Zenon
  <1>2. ASSUME Calm' PROVE Reading(a) /\ Writing(b)
    BY <1>2, Zenon DEF Calm, Flow
  <1>3. ASSUME Calm' PROVE Reading(a)'
    BY <1>1, <1>2, <1>3, Zenon DEF Reading
  <1>4. ASSUME Calm' PROVE Writing(b)'
    BY <1>1, <1>2, <1>4, Zenon DEF Writing
  <1> QED
    BY <1>3, <1>4, Zenon DEF Flow

(* What a sender puts into a stream. *)
LEMMA PutAt ==
  ASSUME NEW M, NEW st \in [Senders -> Seq(M)], NEW s \in Senders, NEW m,
         NEW new, new = [st EXCEPT ![s] = Append(@, m)]
  PROVE  new[s] = Append(st[s], m) /\ \A t \in Senders : t # s => new[t] = st[t]
  OBVIOUS

(* A stream holds data of the files of its sender. *)
LEMMA PutOwn ==
  ASSUME TypeOK, OwnStreams, NEW s \in Senders, NEW m \in Messages \cup {Chat},
         Data(m) => Owner[m.file] = s,
         stream' = [stream EXCEPT ![s] = Append(@, m)]
  PROVE  OwnStreams'
  <1>1. stream \in [Senders -> Seq(Messages \cup {Chat})]
    BY Zenon DEF TypeOK
  <1>2. stream'[s] = Append(stream[s], m) /\ \A t \in Senders : t # s => stream'[t] = stream[t]
    BY ONLY <1>1, PutAt, s \in Senders, stream' = [stream EXCEPT ![s] = Append(@, m)], Zenon
  <1> PICK M : M = Messages \cup {Chat}
    BY Zenon
  <1>3. stream[s] \in Seq(M) /\ m \in M /\ stream'[s] = Append(stream[s], m)
    BY <1>1, <1>2, Zenon
  <1>h. HoldsMore(stream'[s], stream[s], m)
    BY ONLY <1>3, AppendHolds, Zenon
  <1>4. ASSUME NEW i \in DOMAIN stream'[s], Data(stream'[s][i])
        PROVE  Owner[stream'[s][i].file] = s
    BY <1>h, <1>4, Zenon DEF OwnStreams, HoldsMore
  <1>5. ASSUME NEW t \in Senders, NEW i \in DOMAIN stream'[t], Data(stream'[t][i])
        PROVE  Owner[stream'[t][i].file] = t
    <2>1. CASE t = s
      BY <1>4, <1>5, <2>1, Zenon
    <2>2. CASE t # s
      BY <1>2, <1>5, <2>2 DEF OwnStreams
    <2> QED
      BY <2>1, <2>2, Zenon
  <1> QED
    BY <1>5, Zenon DEF OwnStreams

(* A step that moves no data and begins no file keeps the invariant. *)
LEMMA StillFlows ==
  ASSUME TypeOK, FInv, upsets \subseteq upsets', OwnStreams',
         UNCHANGED <<mode, fileTransferData, disk, saved>>,
         process'[None] = process[None],
         \A f \in Files : \/ transfer'[f] = transfer[f]
                          \/ /\ ~Begun(f) /\ ~Begun(f)'
                             /\ transfer'[f].sent = transfer[f].sent,
         \A f \in Files : Aside(stream[Owner[f]], stream'[Owner[f]], f,
                                Messages \cup {Chat}),
         \A f \in Files : Aside(inMailBox, inMailBox', f, Messages)
  PROVE  FInv'
  <1>1. PICK a, b \in [Files -> Nat] : Flow(a, b)
    BY Zenon DEF FInv
  <1>2. ASSUME NEW f \in Files
        PROVE  /\ Counted(f)'
               /\ Out(f)' = Out(f) /\ Final(f)' = Final(f)
               /\ transfer'[f].key = transfer[f].key \/ Out(f) = 0
    <2>1. CASE transfer'[f] = transfer[f]
      BY <2>1, SameCounts, Zenon DEF FInv
    <2>2. CASE ~Begun(f) /\ ~Begun(f)' /\ transfer'[f].sent = transfer[f].sent
      <3>1. transfer[f].sent = 0
        BY <2>2, Zenon DEF FInv, Counted
      <3>2. transfer[f].at # "done" /\ transfer'[f].at \notin {"done", "ongoing"}
        BY <2>2, Zenon DEF Begun
      <3> QED
        BY <2>2, <3>1, <3>2, Zenon DEF Counted, Out, Final
    <2> QED
      BY <2>1, <2>2, Zenon
  <1>3. ASSUME NEW f \in Files PROVE Between(f, a, b)'
    BY <1>1, <1>2, BetweenStays, Zenon DEF Flow
  <1>4. Flow(a, b)'
    BY <1>1, <1>2, <1>3, FlowStays, Zenon
  <1>5. NoFatal' /\ SavedIntact'
    BY Zenon DEF FInv, NoFatal, SavedIntact, Fits, Contents, ChunksFor, CSize, FSize
  <1> QED
    BY <1>2, <1>4, <1>5, Zenon DEF FInv

(* TransferNextChunk keeps the invariant: the next part is behind all      *)
(* others.                                                                 *)
LEMMA ChunkFlows ==
  ASSUME TypeOK, TypeOK', FInv, NEW f \in Files, TransferNextChunk(f)
  PROVE  FInv'
  <1> USE FileAssumption
  <1>1. PICK a, b \in [Files -> Nat] : Flow(a, b)
    BY DEF FInv
  <1>u. /\ UNCHANGED <<mode, inMailBox, fileTransferData, disk, saved, process>>
        /\ upsets \subseteq upsets'
    BY DEF TransferNextChunk, Upset, app
  <1>c. Counted(f)
    BY DEF FInv
  <1>2. /\ Counted(f)'
        /\ Final(f) = 0
        /\ transfer'[f].key = transfer[f].key
        /\ \A g \in Files : g # f => transfer'[g] = transfer[g]
        /\ \/ UNCHANGED stream /\ Out(f)' = Out(f) /\ Final(f)' = 0
           \/ \E m \in Messages :
                /\ stream' = [stream EXCEPT ![Owner[f]] = Append(@, m)]
                /\ Data(m) /\ m.file = f /\ m.part = Out(f)
                /\ Shape(m, transfer[f].key, Final(f)')
                /\ Out(f)' = Out(f) + 1
                /\ Final(f)' \in {0, Out(f)}
    BY <1>c, SendsNextPart, Zenon
  <1>k. ASSUME NEW g \in Files
        PROVE  /\ Counted(g)'
               /\ Final(g)' = Final(g) \/ Final(g) = 0
               /\ transfer'[g].key = transfer[g].key
               /\ g # f => Out(g)' = Out(g) /\ Final(g)' = Final(g)
    <2>1. CASE g = f
      BY <1>2, <2>1, Zenon
    <2>2. CASE g # f
      BY <1>2, <2>2, SameCounts, Zenon DEF FInv
    <2> QED
      BY <2>1, <2>2, Zenon
  <1>s. stream \in [Senders -> Seq(Messages \cup {Chat})] /\ inMailBox \in Seq(Messages)
    BY Zenon DEF TypeOK
  <1>m. \A g \in Files : Aside(inMailBox, inMailBox', g, Messages)
    BY <1>u, Zenon DEF Aside
  <1>b. \A g \in Files : Between(g, a, b)
    BY <1>1 DEF Flow
  <1>3. ASSUME UNCHANGED stream, Out(f)' = Out(f), Final(f)' = 0
        PROVE  OwnStreams' /\ \A g \in Files : Between(g, a, b)'
    <2>1. OwnStreams'
      BY <1>3, Zenon DEF FInv, OwnStreams
    <2>2. ASSUME NEW g \in Files PROVE Between(g, a, b)'
      <3>1. Aside(stream[Owner[g]], stream'[Owner[g]], g, Messages \cup {Chat})
        BY <1>3, Zenon DEF Aside
      <3>2. Out(g)' = Out(g) /\ Final(g)' = Final(g)
        BY <1>2, <1>3, <1>k, Zenon
      <3> QED
        BY <1>k, <1>m, <1>b, <3>1, <3>2, BetweenStays, Zenon
    <2> QED
      BY <2>1, <2>2
  <1>4. ASSUME \E m \in Messages :
                 /\ stream' = [stream EXCEPT ![Owner[f]] = Append(@, m)]
                 /\ Data(m) /\ m.file = f /\ m.part = Out(f)
                 /\ Shape(m, transfer[f].key, Final(f)')
                 /\ Out(f)' = Out(f) + 1
                 /\ Final(f)' \in {0, Out(f)}
        PROVE  OwnStreams' /\ \A g \in Files : Between(g, a, b)'
    <2>1. PICK m \in Messages :
                /\ stream' = [stream EXCEPT ![Owner[f]] = Append(@, m)]
                /\ Data(m) /\ m.file = f /\ m.part = Out(f)
                /\ Shape(m, transfer[f].key, Final(f)')
                /\ Out(f)' = Out(f) + 1
                /\ Final(f)' \in {0, Out(f)}
      BY <1>4, Zenon
    <2>2. OwnStreams'
      BY <2>1, PutOwn, Zenon DEF FInv
    <2>p. /\ stream'[Owner[f]] = Append(stream[Owner[f]], m)
          /\ \A t \in Senders : t # Owner[f] => stream'[t] = stream[t]
      <3>1. Owner[f] \in Senders
        OBVIOUS
      <3>2. stream' = [stream EXCEPT ![Owner[f]] = Append(@, m)]
        BY <2>1, Zenon
      <3> QED
        BY ONLY <1>s, <3>1, <3>2, PutAt
    <2>3. ASSUME NEW g \in Files, g # f PROVE Between(g, a, b)'
      <3>1. Aside(stream[Owner[g]], stream'[Owner[g]], g, Messages \cup {Chat})
        <4>1. CASE Owner[g] = Owner[f]
          <5>1. m \in Messages \cup {Chat} /\ ~ (Data(m) /\ m.file = g)
            BY <2>1, <2>3, Zenon
          <5> QED
            BY <2>p, <4>1, <5>1, Zenon DEF Aside
        <4>2. CASE Owner[g] # Owner[f]
          BY <2>p, <4>2, Zenon DEF Aside
        <4> QED
          BY <4>1, <4>2, Zenon
      <3> QED
        BY <1>k, <1>m, <1>b, <2>3, <3>1, BetweenStays, Zenon
    <2>4. Between(f, a, b)'
      <3>1. Out(f) \in Nat /\ a[f] \in Nat /\ b[f] \in Nat
        BY OutType
      <3>2. /\ b[f] <= a[f] /\ a[f] <= Out(f)
            /\ Carries(stream[Owner[f]], f, a[f], Out(f), transfer[f].key, 0)
            /\ Carries(inMailBox, f, b[f], a[f], transfer[f].key, 0)
        BY <1>b, <1>2, Zenon DEF Between
      <3> PICK last \in Nat : last = Final(f)'
        BY <2>1, <3>1, Zenon
      <3>3. /\ Carries(stream[Owner[f]], f, a[f], Out(f), transfer[f].key, last)
            /\ Carries(inMailBox, f, b[f], a[f], transfer[f].key, last)
        <4>1. CASE last = 0
          BY <3>2, <4>1, Zenon
        <4>2. CASE last = Out(f)
          <5>1. Out(f) <= last /\ a[f] <= last
            BY ONLY <3>1, <3>2, <4>2, AtLeast, Zenon
          <5> QED
            BY <3>1, <3>2, <5>1, CarriesLast, ZenonT(60)
        <4> QED
          BY <2>1, <4>1, <4>2, Zenon
      <3>4. Carries(stream'[Owner[f]], f, a[f], Out(f) + 1, transfer[f].key, last)
        <4>1. /\ stream[Owner[f]] \in Seq(Messages \cup {Chat})
              /\ m \in Messages \cup {Chat}
          BY <1>s
        <4>2. Data(m) /\ m.file = f /\ m.part = Out(f) /\ Shape(m, transfer[f].key, last)
          BY <2>1, Zenon
        <4>3. Carries(Append(stream[Owner[f]], m), f, a[f], Out(f) + 1, transfer[f].key, last)
          BY ONLY <3>1, <3>2, <3>3, <4>1, <4>2, CarriesAppend, ZenonT(60)
        <4> QED
          BY <2>p, <4>3, Zenon
      <3>5. a[f] <= Out(f) + 1
        BY ONLY <3>1, <3>2, AtLeast, Zenon
      <3> QED
        BY <1>2, <1>u, <2>1, <3>2, <3>3, <3>4, <3>5, Zenon DEF Between
    <2> QED
      BY <2>2, <2>3, <2>4
  <1>5. OwnStreams' /\ \A g \in Files : Between(g, a, b)'
    BY <1>2, <1>3, <1>4, Zenon
  <1>6. Flow(a, b)'
    BY <1>1, <1>u, <1>k, <1>5, FlowStays, Zenon
  <1>7. NoFatal' /\ SavedIntact'
    BY <1>u, Zenon DEF FInv, NoFatal, SavedIntact, Fits, Contents, ChunksFor, CSize, FSize
  <1> QED
    BY <1>k, <1>5, <1>6, <1>7, Zenon DEF FInv

(* Where the streams are not touched, they are what they were. *)
LEMMA StreamsAside ==
  ASSUME UNCHANGED stream
  PROVE  /\ OwnStreams => OwnStreams'
         /\ \A f \in Files : Aside(stream[Owner[f]], stream'[Owner[f]], f,
                                   Messages \cup {Chat})
  BY Zenon DEF OwnStreams, Aside

(* An offer or a chat message in a stream is aside from all files. *)
LEMMA PutAside ==
  ASSUME TypeOK, OwnStreams, NEW s \in Senders, NEW m \in Messages \cup {Chat}, ~Data(m),
         stream' = [stream EXCEPT ![s] = Append(@, m)]
  PROVE  /\ OwnStreams'
         /\ \A f \in Files : Aside(stream[Owner[f]], stream'[Owner[f]], f,
                                   Messages \cup {Chat})
  <1>1. stream \in [Senders -> Seq(Messages \cup {Chat})]
    BY Zenon DEF TypeOK
  <1>2. /\ stream'[s] = Append(stream[s], m)
        /\ \A t \in Senders : t # s => stream'[t] = stream[t]
    BY ONLY <1>1, PutAt, s \in Senders, stream' = [stream EXCEPT ![s] = Append(@, m)]
  <1>3. ASSUME NEW f \in Files
        PROVE  Aside(stream[Owner[f]], stream'[Owner[f]], f, Messages \cup {Chat})
    <2>1. Owner[f] \in Senders
      BY FileAssumption
    <2>2. CASE Owner[f] = s
      BY <1>2, <2>2 DEF Aside
    <2>3. CASE Owner[f] # s
      BY <1>2, <2>1, <2>3 DEF Aside
    <2> QED
      BY <2>2, <2>3
  <1>4. OwnStreams'
    BY PutOwn, Zenon
  <1> QED
    BY <1>3, <1>4, Zenon

(* InitiateFileTransferWithSession, SignalFileTransfer and SendDataToNode  *)
(* keep the invariant: nothing of a file that waits for a verdict was sent. *)
LEMMA SenderFlows ==
  ASSUME TypeOK, PendingFiled, FInv,
         \/ \E f \in Files : InitiateFileTransferWithSession(f)
         \/ \E s \in Senders : SignalFileTransfer(s) \/ SendDataToNode(s)
  PROVE  FInv'
  <1> USE FileAssumption
  <1>t. transfer \in [Files -> Transfers]
    BY Zenon DEF TypeOK
  <1>o. OwnStreams
    BY DEF FInv
  <1>1. ASSUME NEW f \in Files, InitiateFileTransferWithSession(f) PROVE FInv'
    <2> PICK s \in Senders : s = Owner[f]
      OBVIOUS
    <2> PICK k \in Keys : k = ftcid[s]
      BY Zenon DEF TypeOK
    <2>1. /\ transfer[f].at = "none"
          /\ transfer' = [transfer EXCEPT ![f].at = "offered", ![f].key = k]
          /\ stream' = [stream EXCEPT ![s] = Append(@, Message("OFFER", k, f, 0))]
          /\ UNCHANGED <<mode, fileTransferData, disk, saved, inMailBox, process, upsets>>
      BY <1>1 DEF InitiateFileTransferWithSession, Put, app
    <2>2. /\ transfer'[f].at = "offered" /\ transfer'[f].sent = transfer[f].sent
          /\ \A g \in Files : g # f => transfer'[g] = transfer[g]
      BY ONLY <1>t, <2>1, f \in Files DEF Transfers
    <2>3. \A g \in Files : \/ transfer'[g] = transfer[g]
                           \/ /\ ~Begun(g) /\ ~Begun(g)'
                              /\ transfer'[g].sent = transfer[g].sent
      BY <2>1, <2>2, Zenon DEF Begun
    <2>4. /\ Message("OFFER", k, f, 0) \in Messages \cup {Chat}
          /\ ~Data(Message("OFFER", k, f, 0))
      BY MessageType, Zenon DEF Message, Data
    <2>5. /\ OwnStreams'
          /\ \A g \in Files : Aside(stream[Owner[g]], stream'[Owner[g]], g,
                                    Messages \cup {Chat})
      BY <1>o, <2>1, <2>4, PutAside, Zenon
    <2>6. \A g \in Files : Aside(inMailBox, inMailBox', g, Messages)
      BY <2>1 DEF Aside
    <2> QED
      BY <2>1, <2>3, <2>5, <2>6, StillFlows, Zenon
  <1>2. ASSUME NEW s \in Senders, SignalFileTransfer(s) PROVE FInv'
    <2>1. control \in [Senders -> Seq(Verdicts)] /\ control[s] # <<>>
      BY <1>2, Zenon DEF SignalFileTransfer, TypeOK
    <2>2. Head(control[s]) \in Verdicts
      BY ONLY <2>1, s \in Senders
    <2> PICK k \in Keys : k = Head(control[s]).key
      BY <2>2 DEF Verdicts
    <2>p. pendingOutgoing_m \in [Senders -> [Keys -> Files \cup {None}]]
      BY Zenon DEF TypeOK
    <2> PICK f \in Files \cup {None} : f = pendingOutgoing_m[s][k]
      BY ONLY <2>p, s \in Senders, k \in Keys
    <2>3. /\ UNCHANGED <<stream, mode, fileTransferData, disk, saved, inMailBox, upsets>>
          /\ UNCHANGED process \/ process' = [process EXCEPT ![s] = "aborted"]
          /\ \/ UNCHANGED transfer
             \/ /\ f \in Files
                /\ \E at \in {"rejected", "first"} :
                     transfer' = [transfer EXCEPT ![f].at = at]
      BY <1>2, Zenon DEF SignalFileTransfer, app
    <2>4. process'[None] = process[None]
      BY <2>3, Zenon DEF TypeOK
    <2>5. \A g \in Files : \/ transfer'[g] = transfer[g]
                           \/ /\ ~Begun(g) /\ ~Begun(g)'
                              /\ transfer'[g].sent = transfer[g].sent
      <3>1. CASE UNCHANGED transfer
        BY <3>1, Zenon
      <3>2. ASSUME f \in Files, NEW at \in {"rejected", "first"},
                   transfer' = [transfer EXCEPT ![f].at = at]
            PROVE  \A g \in Files : \/ transfer'[g] = transfer[g]
                                    \/ /\ ~Begun(g) /\ ~Begun(g)'
                                       /\ transfer'[g].sent = transfer[g].sent
        <4>1. transfer[f].at = "offered"
          BY ONLY <3>2, PendingFiled, s \in Senders, k \in Keys,
             f = pendingOutgoing_m[s][k] DEF PendingFiled
        <4>2. /\ transfer'[f].at = at /\ transfer'[f].sent = transfer[f].sent
              /\ \A g \in Files : g # f => transfer'[g] = transfer[g]
          BY ONLY <1>t, <3>2 DEF Transfers
        <4> QED
          BY <4>1, <4>2, Zenon DEF Begun
      <3> QED
        BY <2>3, <3>1, <3>2, Zenon
    <2>6. \A g \in Files : Aside(inMailBox, inMailBox', g, Messages)
      BY <2>3, Zenon DEF Aside
    <2> QED
      BY <1>o, <2>3, <2>4, <2>5, <2>6, StreamsAside, StillFlows, Zenon
  <1>3. ASSUME NEW s \in Senders, SendDataToNode(s) PROVE FInv'
    <2>1. /\ stream' = [stream EXCEPT ![s] = Append(@, Chat)]
          /\ UNCHANGED <<transfer, mode, fileTransferData, disk, saved, inMailBox,
                         process, upsets>>
      BY <1>3, Zenon DEF SendDataToNode, Put, app, sender
    <2>2. Chat \in Messages \cup {Chat} /\ ~Data(Chat)
      BY DEF Chat, Message, Data
    <2>3. /\ OwnStreams'
          /\ \A g \in Files : Aside(stream[Owner[g]], stream'[Owner[g]], g,
                                    Messages \cup {Chat})
      BY <1>o, <2>1, <2>2, PutAside, Zenon
    <2>4. \A g \in Files : Aside(inMailBox, inMailBox', g, Messages)
      BY <2>1, Zenon DEF Aside
    <2> QED
      BY <2>1, <2>3, <2>4, StillFlows, Zenon
  <1> QED
    BY <1>1, <1>2, <1>3

(* Neither the prompt, the GUI nor a removed session touches the data. *)
LEMMA AnswersFlow ==
  ASSUME TypeOK, FInv, upsets \subseteq upsets',
         \/ UNCHANGED <<transfer, stream, mode, inMailBox, fileTransferData, disk,
                        saved, process>>
         \/ HandleFileOffer
  PROVE  FInv'
  <1>1. /\ UNCHANGED <<transfer, stream, mode, fileTransferData, disk, saved, process>>
        /\ \A g \in Files : Aside(inMailBox, inMailBox', g, Messages)
    <2>1. CASE UNCHANGED <<transfer, stream, mode, inMailBox, fileTransferData, disk,
                           saved, process>>
      BY <2>1, Zenon DEF Aside
    <2>2. CASE HandleFileOffer
      <3>1. /\ UNCHANGED <<transfer, stream, mode, fileTransferData, disk, saved, process>>
            /\ inMailBox # <<>> /\ inMailBox' = Tail(inMailBox)
            /\ Head(inMailBox).type = "OFFER"
        BY <2>2 DEF HandleFileOffer, Handles, app, sender
      <3>2. ~Data(Head(inMailBox))
        BY <3>1 DEF Data
      <3> QED
        BY <3>1, <3>2, Zenon DEF Aside
    <2> QED
      BY <2>1, <2>2
  <1>2. OwnStreams
    BY DEF FInv
  <1> QED
    BY <1>1, <1>2, StreamsAside, StillFlows, Zenon

(* Taking a message out of one stream leaves the others alone. *)
LEMMA TakeAt ==
  ASSUME NEW M, NEW st \in [Senders -> Seq(M)], NEW s \in Senders, st[s] # <<>>,
         NEW new, new = [st EXCEPT ![s] = Tail(@)]
  PROVE  new[s] = Tail(st[s]) /\ \A t \in Senders : t # s => new[t] = st[t]
  OBVIOUS

(* What is left of a stream is still of its sender, as is what was first. *)
LEMMA TakeOwn ==
  ASSUME TypeOK, OwnStreams, NEW s \in Senders, stream[s] # <<>>,
         stream' = [stream EXCEPT ![s] = Tail(@)]
  PROVE  /\ OwnStreams'
         /\ Data(Head(stream[s])) => Owner[Head(stream[s]).file] = s
  <1>1. stream \in [Senders -> Seq(Messages \cup {Chat})]
    BY Zenon DEF TypeOK
  <1>2. stream'[s] = Tail(stream[s]) /\ \A t \in Senders : t # s => stream'[t] = stream[t]
    BY ONLY <1>1, TakeAt, s \in Senders, stream[s] # <<>>,
       stream' = [stream EXCEPT ![s] = Tail(@)]
  <1>3. /\ DOMAIN stream[s] = 1..Len(stream[s]) /\ Len(stream[s]) \in Nat \ {0}
        /\ Head(stream[s]) = stream[s][1]
        /\ DOMAIN stream'[s] = 1..Len(stream[s])-1
        /\ \A i \in 1..Len(stream[s])-1 : stream'[s][i] = stream[s][i+1]
    <2>1. stream[s] \in Seq(Messages \cup {Chat})
      BY <1>1
    <2> QED
      BY <1>2, <2>1, TailAt, Zenon
  <1>4. /\ 1 \in DOMAIN stream[s]
        /\ \A i \in DOMAIN stream'[s] :
             i + 1 \in DOMAIN stream[s] /\ stream'[s][i] = stream[s][i+1]
    BY ONLY <1>3, SMTT(30)
  <1>5. ASSUME NEW t \in Senders, NEW i \in DOMAIN stream'[t], Data(stream'[t][i])
        PROVE  Owner[stream'[t][i].file] = t
    <2>1. CASE t = s
      <3>1. i \in DOMAIN stream'[s] /\ Data(stream'[s][i])
        BY ONLY <1>5, <2>1, Zenon
      <3>2. PICK j \in DOMAIN stream[s] : stream'[s][i] = stream[s][j]
        BY ONLY <1>4, <3>1, Zenon
      <3>3. Data(stream[s][j])
        BY ONLY <3>1, <3>2, Zenon
      <3>4. Owner[stream[s][j].file] = s
        BY <3>3, Zenon DEF OwnStreams
      <3> QED
        BY ONLY <2>1, <3>2, <3>4, Zenon
    <2>2. CASE t # s
      BY <1>2, <1>5, <2>2, ZenonT(60) DEF OwnStreams
    <2> QED
      BY <2>1, <2>2, Zenon
  <1> QED
    BY <1>3, <1>4, <1>5, Zenon DEF OwnStreams

(* For a file that is not the one of the message, the step is aside. *)
LEMMA TakeAside ==
  ASSUME TypeOK, NEW s \in Senders, stream[s] # <<>>,
         stream' = [stream EXCEPT ![s] = Tail(@)],
         NEW f \in Files, ~ (Data(Head(stream[s])) /\ Head(stream[s]).file = f)
  PROVE  Aside(stream[Owner[f]], stream'[Owner[f]], f, Messages \cup {Chat})
  <1>1. stream \in [Senders -> Seq(Messages \cup {Chat})]
    BY Zenon DEF TypeOK
  <1>2. stream'[s] = Tail(stream[s]) /\ \A t \in Senders : t # s => stream'[t] = stream[t]
    BY ONLY <1>1, TakeAt, s \in Senders, stream[s] # <<>>,
       stream' = [stream EXCEPT ![s] = Tail(@)]
  <1>3. Owner[f] \in Senders
    BY FileAssumption, SMTT(30)
  <1>4. CASE Owner[f] = s
    BY <1>2, <1>4, SMTT(30) DEF Aside
  <1>5. CASE Owner[f] # s
    BY <1>2, <1>3, <1>5 DEF Aside
  <1> QED
    BY <1>4, <1>5

(* What ReadStream does with the message it reads. *)
LEMMA ReadCases ==
  ASSUME TypeOK, NEW s \in Senders, ReadStream(s)
  PROVE  /\ stream[s] # <<>> /\ stream' = [stream EXCEPT ![s] = Tail(@)]
         /\ Head(stream[s]) \in Messages \cup {Chat}
         /\ UNCHANGED <<transfer, fileTransferData, disk, saved, process>>
         /\ upsets \subseteq upsets'
         /\ \/ /\ mode[s] = "frames" /\ UNCHANGED mode
               /\ ~Data(Head(stream[s]))
               /\ \/ UNCHANGED inMailBox
                  \/ /\ Head(stream[s]) \in Messages
                     /\ inMailBox' = Append(inMailBox, Head(stream[s]))
            \/ /\ mode[s] = "frames" /\ mode' = [mode EXCEPT ![s] = "chunks"]
               /\ Head(stream[s]) \in Messages /\ Head(stream[s]).type = "BEGIN"
               /\ inMailBox' = Append(inMailBox, Head(stream[s]))
            \/ /\ mode[s] = "chunks" /\ UNCHANGED mode
               /\ Head(stream[s]) \in Messages /\ Head(stream[s]).type = "CHUNK"
               /\ inMailBox' = Append(inMailBox, Head(stream[s]))
            \/ /\ mode[s] = "chunks" /\ mode' = [mode EXCEPT ![s] = "frames"]
               /\ Head(stream[s]) \in Messages /\ Head(stream[s]).type = "END"
               /\ inMailBox' = Append(inMailBox, Head(stream[s]))
            \/ /\ ~Calm' /\ UNCHANGED inMailBox
               /\ Data(Head(stream[s])) => Head(stream[s]).type = "BEGIN"
  <1>1. stream[s] # <<>> /\ stream' = [stream EXCEPT ![s] = Tail(@)]
    BY DEF ReadStream
  <1>2. Head(stream[s]) \in Messages \cup {Chat}
    BY <1>1, TakeType, Zenon DEF TypeOK
  <1> PICK m \in Messages \cup {Chat} : m = Head(stream[s])
    BY <1>2
  <1>3. UNCHANGED <<transfer, fileTransferData, disk, saved, process>>
    BY DEF ReadStream, sender, app
  <1>4. CASE ReadMessageFrameCallback(s, m)
    <2>1. CASE m.type = "OFFER"
      <3>1. mode[s] = "frames" /\ mode' = [mode EXCEPT ![s] = mode[s]]
        BY <1>4, <2>1 DEF ReadMessageFrameCallback
      <3>2. UNCHANGED mode
        BY <3>1, Zenon DEF TypeOK
      <3>3. m \in Messages /\ ~Data(m)
        BY <2>1, NoChat DEF Data
      <3> QED
        BY <1>1, <1>2, <1>3, <1>4, <2>1, <3>1, <3>2, <3>3, Zenon
        DEF ReadMessageFrameCallback, PutMessageIntoAppMailbox
    <2>2. CASE m.type = "BEGIN"
      <3>1. m \in Messages
        BY <2>2, NoChat
      <3> QED
        BY <1>1, <1>2, <1>3, <1>4, <2>2, <3>1, Zenon
        DEF ReadMessageFrameCallback, PutMessageIntoAppMailbox
    <2>3. CASE m.type = "CHAT"
      BY <1>1, <1>2, <1>3, <1>4, <2>3, Zenon DEF ReadMessageFrameCallback, Data
    <2> QED
      BY <1>4, <2>1, <2>2, <2>3, Zenon DEF ReadMessageFrameCallback
  <1>5. CASE ReadFileChunkCallback(s, m)
    <2>1. CASE m.type = "CHUNK"
      <3>1. mode[s] = "chunks" /\ mode' = [mode EXCEPT ![s] = mode[s]]
        BY <1>5, <2>1, Zenon DEF ReadFileChunkCallback
      <3>2. UNCHANGED mode
        BY <3>1, Zenon DEF TypeOK
      <3>3. m \in Messages
        BY <2>1, NoChat
      <3> QED
        BY <1>1, <1>2, <1>3, <1>5, <2>1, <3>1, <3>2, <3>3, Zenon
        DEF ReadFileChunkCallback, PutMessageIntoAppMailbox
    <2>2. CASE m.type = "END"
      <3>1. m \in Messages
        BY <2>2, NoChat
      <3> QED
        BY <1>1, <1>2, <1>3, <1>5, <2>2, <3>1, Zenon
        DEF ReadFileChunkCallback, PutMessageIntoAppMailbox
    <2>3. CASE m.type \in {"OFFER", "BEGIN", "CHAT"}
      <3>1. ~Calm'
        BY <1>5, <2>3, Zenon DEF ReadFileChunkCallback, Upset, Calm
      <3> QED
        BY <1>1, <1>2, <1>3, <1>5, <2>3, <3>1, Zenon DEF ReadFileChunkCallback, Upset, Data
    <2> QED
      BY <1>5, <2>1, <2>2, <2>3, Zenon DEF ReadFileChunkCallback
  <1> QED
    BY <1>4, <1>5, Zenon DEF ReadStream

(* The message that is read is the next part of its file. *)
LEMMA ReadsNextPart ==
  ASSUME TypeOK, NEW a \in [Files -> Nat], NEW b, NEW f \in Files, Between(f, a, b),
         stream[Owner[f]] # <<>>,
         Data(Head(stream[Owner[f]])), Head(stream[Owner[f]]).file = f
  PROVE  /\ Head(stream[Owner[f]]).part = a[f] /\ a[f] < Out(f)
         /\ Shape(Head(stream[Owner[f]]), transfer[f].key, Final(f))
         /\ Carries(Tail(stream[Owner[f]]), f, a[f] + 1, Out(f), transfer[f].key, Final(f))
  <1>1. stream[Owner[f]] \in Seq(Messages \cup {Chat})
    BY FileAssumption, Zenon DEF TypeOK
  <1>2. Out(f) \in Nat /\ a[f] \in Nat
    BY OutType, Zenon
  <1>3. Carries(stream[Owner[f]], f, a[f], Out(f), transfer[f].key, Final(f))
    BY Zenon DEF Between
  <1> QED
    BY ONLY <1>1, <1>2, <1>3, stream[Owner[f]] # <<>>,
       Data(Head(stream[Owner[f]])), Head(stream[Owner[f]]).file = f, CarriesTail, Zenon

(* The session hands it on to the mailbox. *)
LEMMA HandsOn ==
  ASSUME TypeOK, NEW a \in [Files -> Nat], NEW b \in [Files -> Nat],
         \A g \in Files : Between(g, a, b),
         NEW s \in Senders, stream[s] # <<>>,
         stream' = [stream EXCEPT ![s] = Tail(@)], UNCHANGED transfer,
         NEW m \in Messages, m = Head(stream[s]), Data(m), NEW f \in Files, f = m.file,
         Owner[f] = s, inMailBox' = Append(inMailBox, m),
         NEW x, x = [a EXCEPT ![f] = a[f] + 1]
  PROVE  x \in [Files -> Nat] /\ \A g \in Files : Between(g, x, b)'
  <1>1. /\ x \in [Files -> Nat] /\ x[f] = a[f] + 1 /\ a[f] \in Nat /\ b[f] \in Nat
        /\ \A g \in Files : g # f => x[g] = a[g]
    BY ONLY a \in [Files -> Nat], b \in [Files -> Nat], f \in Files,
       x = [a EXCEPT ![f] = a[f] + 1]
  <1>f. Between(f, a, b)
    BY Zenon
  <1>2. /\ m.part = a[f] /\ a[f] < Out(f)
        /\ Shape(m, transfer[f].key, Final(f))
        /\ Carries(stream'[Owner[f]], f, a[f] + 1, Out(f), transfer[f].key, Final(f))
        /\ Out(f)' = Out(f) /\ Final(f)' = Final(f)
    <2>1. stream \in [Senders -> Seq(Messages \cup {Chat})]
      BY Zenon DEF TypeOK
    <2>2. stream'[s] = Tail(stream[s])
      BY ONLY <2>1, TakeAt, s \in Senders, stream[s] # <<>>,
         stream' = [stream EXCEPT ![s] = Tail(@)]
    <2>3. stream[Owner[f]] # <<>> /\ Data(Head(stream[Owner[f]]))
          /\ Head(stream[Owner[f]]).file = f
      BY Data(m), Zenon
    <2>4. /\ Head(stream[Owner[f]]).part = a[f] /\ a[f] < Out(f)
          /\ Shape(Head(stream[Owner[f]]), transfer[f].key, Final(f))
          /\ Carries(Tail(stream[Owner[f]]), f, a[f] + 1, Out(f), transfer[f].key, Final(f))
      BY ONLY <1>f, <2>3, TypeOK, a \in [Files -> Nat], f \in Files, ReadsNextPart, Zenon
    <2>5. Out(f)' = Out(f) /\ Final(f)' = Final(f)
      BY SameCounts, Zenon
    <2> QED
      BY ONLY <2>2, <2>4, <2>5, m = Head(stream[s]), Owner[f] = s, Zenon
  <1>3. inMailBox \in Seq(Messages) /\ Out(f) \in Nat
    BY OutType, Zenon DEF TypeOK
  <1>4. b[f] <= a[f] /\ Carries(inMailBox, f, b[f], a[f], transfer[f].key, Final(f))
    BY <1>f, Zenon DEF Between
  <1>5. Carries(inMailBox', f, b[f], a[f] + 1, transfer[f].key, Final(f))
    BY ONLY <1>1, <1>2, <1>3, <1>4, m \in Messages, Data(m), f = m.file,
       inMailBox' = Append(inMailBox, m), CarriesAppend, Zenon
  <1>6. b[f] <= a[f] + 1 /\ a[f] + 1 <= Out(f)
    BY ONLY <1>1, <1>2, <1>3, <1>4, PartsCount, Zenon
  <1>7. Between(f, x, b)'
    BY <1>1, <1>2, <1>5, <1>6, Zenon DEF Between
  <1>8. ASSUME NEW g \in Files, g # f PROVE Between(g, x, b)'
    <2>1. ~ (Data(m) /\ m.file = g)
      BY <1>8, Zenon
    <2>2. Aside(stream[Owner[g]], stream'[Owner[g]], g, Messages \cup {Chat})
      BY <2>1, TakeAside, Zenon
    <2>3. Aside(inMailBox, inMailBox', g, Messages)
      BY <2>1, Zenon DEF Aside
    <2>4. Out(g)' = Out(g) /\ Final(g)' = Final(g) /\ Between(g, a, b) /\ x[g] = a[g]
      BY <1>1, <1>8, SameCounts, Zenon
    <2> QED
      BY <1>1, <2>2, <2>3, <2>4, BetweenStays, Zenon
  <1> QED
    BY <1>1, <1>7, <1>8, Zenon

(* A BEGIN that a session takes for a chunk is gone. *)
LEMMA Drops ==
  ASSUME TypeOK, NEW a \in [Files -> Nat], NEW b \in [Files -> Nat],
         \A g \in Files : Between(g, a, b),
         NEW s \in Senders, stream[s] # <<>>,
         stream' = [stream EXCEPT ![s] = Tail(@)], UNCHANGED <<transfer, inMailBox>>,
         NEW m, m = Head(stream[s]), m.type = "BEGIN", NEW f \in Files, f = m.file,
         Owner[f] = s
  PROVE  \E x, y \in [Files -> Nat] : \A g \in Files : Between(g, x, y)'
  <1> DEFINE x == [a EXCEPT ![f] = 1]
             y == [b EXCEPT ![f] = 1]
  <1>1. /\ x \in [Files -> Nat] /\ y \in [Files -> Nat] /\ x[f] = 1 /\ y[f] = 1
        /\ \A g \in Files : g # f => x[g] = a[g] /\ y[g] = b[g]
        /\ a[f] \in Nat /\ b[f] \in Nat
    BY Zenon
  <1> HIDE DEF x, y
  <1>d. Data(m)
    BY Zenon DEF Data
  <1>f. Between(f, a, b)
    BY Zenon
  <1>2. /\ m.part = a[f] /\ a[f] < Out(f)
        /\ Shape(m, transfer[f].key, Final(f))
        /\ Carries(stream'[Owner[f]], f, a[f] + 1, Out(f), transfer[f].key, Final(f))
        /\ Out(f)' = Out(f) /\ Final(f)' = Final(f)
    <2>1. stream \in [Senders -> Seq(Messages \cup {Chat})]
      BY Zenon DEF TypeOK
    <2>2. stream'[s] = Tail(stream[s])
      BY ONLY <2>1, TakeAt, s \in Senders, stream[s] # <<>>,
         stream' = [stream EXCEPT ![s] = Tail(@)]
    <2>3. stream[Owner[f]] # <<>> /\ Data(Head(stream[Owner[f]]))
          /\ Head(stream[Owner[f]]).file = f
      BY <1>d, Zenon
    <2>4. /\ Head(stream[Owner[f]]).part = a[f] /\ a[f] < Out(f)
          /\ Shape(Head(stream[Owner[f]]), transfer[f].key, Final(f))
          /\ Carries(Tail(stream[Owner[f]]), f, a[f] + 1, Out(f), transfer[f].key, Final(f))
      BY ONLY <1>f, <2>3, TypeOK, a \in [Files -> Nat], f \in Files, ReadsNextPart, Zenon
    <2>5. Out(f)' = Out(f) /\ Final(f)' = Final(f)
      BY SameCounts, Zenon
    <2> QED
      BY ONLY <2>2, <2>4, <2>5, m = Head(stream[s]), Owner[f] = s, Zenon
  <1>3. a[f] = 0
    BY <1>2, Zenon DEF Shape
  <1>4. b[f] = 0 /\ Carries(inMailBox, f, 0, 0, transfer[f].key, Final(f))
    <2>1. b[f] <= a[f] /\ Carries(inMailBox, f, b[f], a[f], transfer[f].key, Final(f))
      BY <1>f, Zenon DEF Between
    <2>2. b[f] = 0
      BY ONLY <1>1, <1>3, <2>1
    <2> QED
      BY ONLY <1>3, <2>1, <2>2, Zenon
  <1>5. Carries(inMailBox, f, 1, 1, transfer[f].key, Final(f))
    BY ONLY <1>4, CarriesNone, Zenon
  <1>6. Carries(stream'[Owner[f]], f, 1, Out(f), transfer[f].key, Final(f)) /\ 1 <= Out(f)
    <2>1. Out(f) \in Nat
      BY OutType, Zenon
    <2>2. a[f] + 1 = 1 /\ 1 <= Out(f)
      BY ONLY <1>2, <1>3, <2>1, PartsCount, Zenon
    <2> QED
      BY ONLY <1>2, <2>2, Zenon
  <1>7. Between(f, x, y)'
    <2>1. y[f] <= x[f] /\ x[f] <= Out(f)
      BY ONLY <1>1, <1>6, PartsCount, Zenon
    <2> QED
      BY <1>1, <1>2, <1>5, <1>6, <2>1, Zenon DEF Between
  <1>8. ASSUME NEW g \in Files, g # f PROVE Between(g, x, y)'
    <2>1. ~ (Data(m) /\ m.file = g)
      BY <1>8, Zenon
    <2>2. Aside(stream[Owner[g]], stream'[Owner[g]], g, Messages \cup {Chat})
      BY <2>1, TakeAside, Zenon
    <2>3. Aside(inMailBox, inMailBox', g, Messages)
      BY Zenon DEF Aside
    <2>4. /\ Out(g)' = Out(g) /\ Final(g)' = Final(g) /\ Between(g, a, b)
          /\ x[g] = a[g] /\ y[g] = b[g]
      BY <1>1, <1>8, SameCounts, Zenon
    <2> QED
      BY <1>1, <2>2, <2>3, <2>4, BetweenStays, Zenon
  <1>9. \A g \in Files : Between(g, x, y)'
    BY <1>7, <1>8, Zenon
  <1> QED
    BY <1>1, <1>9, Zenon

(* The part after the last one has no number: where END was sent, it is    *)
(* the last part of all.                                                   *)
LEMMA FinalIsLast ==
  ASSUME TypeOK, NEW f \in Files
  PROVE  Final(f) # 0 => Out(f) = Final(f) + 1
  BY OutType DEF Final

(* A part that a session hands on: the session that was amid a file goes   *)
(* on with it, begins one or has come to its end.                          *)
LEMMA SessionFlows ==
  ASSUME TypeOK, NEW a \in [Files -> Nat], NEW b, Reading(a), Writing(b),
         NEW f \in Files, a[f] < Out(f),
         NEW m, m.part = a[f], Shape(m, transfer[f].key, Final(f)),
         UNCHANGED <<transfer, fileTransferData, disk>>,
         \/ /\ mode[Owner[f]] = "frames"
            /\ mode' = [mode EXCEPT ![Owner[f]] = "chunks"]
            /\ m.type = "BEGIN"
         \/ UNCHANGED mode /\ m.type = "CHUNK"
         \/ mode' = [mode EXCEPT ![Owner[f]] = "frames"] /\ m.type = "END",
         NEW x, x = [a EXCEPT ![f] = a[f] + 1]
  PROVE  Reading(x)' /\ Writing(b)'
  <1> USE FileAssumption
  <1> PICK s \in Senders : s = Owner[f]
    BY Zenon
  <1>1. /\ x[f] = a[f] + 1 /\ a[f] \in Nat
        /\ \A g \in Files : g # f => x[g] = a[g]
    BY Zenon
  <1>2. \A g \in Files : Final(g)' = Final(g) /\ transfer'[g].key = transfer[g].key
    BY SameCounts, Zenon
  <1>3. Writing(b)'
    BY <1>2, ZenonT(60) DEF Writing, Amid
  <1>4. \A g \in Files : g # f => (Amid(g, x)' <=> Amid(g, a))
    BY <1>1, <1>2, Zenon DEF Amid
  <1>m. mode \in [Senders -> {"frames", "chunks", "out of step"}]
    BY Zenon DEF TypeOK
  <1>t. Out(f) \in Nat /\ Final(f) \in Nat /\ (Final(f) # 0 => Out(f) = Final(f) + 1)
    BY OutType, FinalIsLast, Zenon
  <1>r. /\ \A t \in Senders : mode[t] # "out of step"
        /\ \A g \in Files : Amid(g, a) => mode[Owner[g]] = "chunks"
        /\ \A g, h \in Files : Owner[g] = Owner[h] /\ Amid(g, a) /\ Amid(h, a) => g = h
    BY Zenon DEF Reading
  <1>5. ASSUME mode[s] = "frames", mode' = [mode EXCEPT ![s] = "chunks"]
        PROVE  Reading(x)'
    <2>1. mode'[s] = "chunks" /\ \A t \in Senders : t # s => mode'[t] = mode[t]
      BY ONLY <1>m, <1>5, s \in Senders, Zenon
    <2>2. ASSUME NEW g \in Files, g # f, Amid(g, a) PROVE Owner[g] # s
      BY <1>r, <1>5, <2>2, Zenon
    <2>3. \A t \in Senders : mode'[t] # "out of step"
      BY <1>r, <2>1, Zenon
    <2>4. ASSUME NEW g \in Files, Amid(g, x)' PROVE mode'[Owner[g]] = "chunks"
      <3>1. CASE g = f
        BY <2>1, <3>1, Zenon
      <3>2. CASE g # f
        BY <1>4, <1>r, <2>1, <2>2, <2>4, <3>2, Zenon
      <3> QED
        BY <3>1, <3>2, Zenon
    <2>5. ASSUME NEW g \in Files, NEW h \in Files, Owner[g] = Owner[h], Amid(g, x)',
                 Amid(h, x)'
          PROVE  g = h
      <3>1. CASE g = f
        BY <1>4, <2>2, <2>5, <3>1, Zenon
      <3>2. CASE h = f
        BY <1>4, <2>2, <2>5, <3>2, Zenon
      <3>3. CASE g # f /\ h # f
        BY <1>4, <1>r, <2>5, <3>3, Zenon
      <3> QED
        BY <3>1, <3>2, <3>3, Zenon
    <2> QED
      BY <2>3, <2>4, <2>5, Zenon DEF Reading
  <1>6. ASSUME m.type # "BEGIN" PROVE Amid(f, a)
    <2>1. a[f] # 0
      BY <1>6, Zenon DEF Shape
    <2>2. a[f] >= 1 /\ (Final(f) = 0 \/ a[f] <= Final(f))
      BY ONLY <1>1, <1>t, <2>1, a[f] < Out(f)
    <2> QED
      BY <2>2, Zenon DEF Amid
  <1>7. ASSUME UNCHANGED mode, m.type = "CHUNK" PROVE Reading(x)'
    <2>1. \A g \in Files : Amid(g, x)' => Amid(g, a)
      BY <1>4, <1>6, <1>7, Zenon
    <2> QED
      BY <1>r, <1>7, <2>1, Zenon DEF Reading
  <1>8. ASSUME mode' = [mode EXCEPT ![s] = "frames"], m.type = "END" PROVE Reading(x)'
    <2>1. mode'[s] = "frames" /\ \A t \in Senders : t # s => mode'[t] = mode[t]
      BY ONLY <1>m, <1>8, s \in Senders, Zenon
    <2>2. a[f] = Final(f) /\ Final(f) # 0
      BY <1>8, Zenon DEF Shape
    <2>3. ~Amid(f, x)'
      <3>1. ~ (x[f] >= 1 /\ (Final(f) = 0 \/ x[f] <= Final(f)))
        BY ONLY <1>1, <1>t, <2>2
      <3> QED
        BY <1>2, <3>1, Zenon DEF Amid
    <2>4. \A g \in Files : Amid(g, x)' => Amid(g, a) /\ g # f
      BY <1>4, <2>3, Zenon
    <2>5. \A g \in Files : Amid(g, x)' => Owner[g] # s
      BY <1>6, <1>8, <1>r, <2>4, Zenon
    <2>6. \A t \in Senders : mode'[t] # "out of step"
      BY <1>r, <2>1, Zenon
    <2>7. \A g \in Files : Amid(g, x)' => mode'[Owner[g]] = "chunks"
      BY <1>r, <2>1, <2>4, <2>5, Zenon
    <2> QED
      BY <1>r, <2>4, <2>6, <2>7, Zenon DEF Reading
  <1> QED
    BY <1>3, <1>5, <1>7, <1>8, Zenon

(* ReadStream keeps the invariant. *)
LEMMA ReadFlows ==
  ASSUME TypeOK, FInv, NEW s \in Senders, ReadStream(s)
  PROVE  FInv'
  <1> USE FileAssumption
  <1> DEFINE m == Head(stream[s])
  <1>1. /\ stream[s] # <<>> /\ stream' = [stream EXCEPT ![s] = Tail(@)]
        /\ m \in Messages \cup {Chat}
        /\ UNCHANGED <<transfer, fileTransferData, disk, saved, process>>
        /\ upsets \subseteq upsets'
        /\ \/ /\ mode[s] = "frames" /\ UNCHANGED mode
              /\ ~Data(m)
              /\ \/ UNCHANGED inMailBox
                 \/ m \in Messages /\ inMailBox' = Append(inMailBox, m)
           \/ /\ mode[s] = "frames" /\ mode' = [mode EXCEPT ![s] = "chunks"]
              /\ m \in Messages /\ m.type = "BEGIN"
              /\ inMailBox' = Append(inMailBox, m)
           \/ /\ mode[s] = "chunks" /\ UNCHANGED mode
              /\ m \in Messages /\ m.type = "CHUNK"
              /\ inMailBox' = Append(inMailBox, m)
           \/ /\ mode[s] = "chunks" /\ mode' = [mode EXCEPT ![s] = "frames"]
              /\ m \in Messages /\ m.type = "END"
              /\ inMailBox' = Append(inMailBox, m)
           \/ /\ ~Calm' /\ UNCHANGED inMailBox
              /\ Data(m) => m.type = "BEGIN"
    BY ReadCases
  <1>2. OwnStreams' /\ (Data(m) => Owner[m.file] = s)
    BY <1>1, TakeOwn, Zenon DEF FInv
  <1> HIDE DEF m
  <1>h. m = Head(stream[s])
    BY DEF m
  <1>3. PICK a, b \in [Files -> Nat] : Flow(a, b)
    BY DEF FInv
  <1>b. \A g \in Files : Between(g, a, b)
    BY ONLY <1>3, Zenon DEF Flow
  <1>4. \A f \in Files : /\ Counted(f)' /\ Out(f)' = Out(f) /\ Final(f)' = Final(f)
                         /\ transfer'[f].key = transfer[f].key
    BY <1>1, SameCounts DEF FInv
  <1>5. NoFatal' /\ SavedIntact'
    BY <1>1, Zenon DEF FInv, NoFatal, SavedIntact, Fits, Contents, ChunksFor, CSize, FSize
  <1>6. ASSUME NEW x \in [Files -> Nat], NEW y \in [Files -> Nat], Flow(x, y)' PROVE FInv'
    BY <1>2, <1>4, <1>5, <1>6, Zenon DEF FInv
  <1>7. ASSUME ~Data(m),
               \/ UNCHANGED inMailBox
               \/ m \in Messages /\ inMailBox' = Append(inMailBox, m)
        PROVE  \A f \in Files : Between(f, a, b)'
    <2>1. ASSUME NEW f \in Files
          PROVE  Aside(stream[Owner[f]], stream'[Owner[f]], f, Messages \cup {Chat})
      BY <1>1, <1>7, <1>h, TakeAside, Zenon
    <2>2. ASSUME NEW f \in Files PROVE Aside(inMailBox, inMailBox', f, Messages)
      BY <1>7, Zenon DEF Aside
    <2> QED
      BY <1>4, <1>b, <2>1, <2>2, BetweenStays, Zenon
  <1>8. CASE /\ UNCHANGED mode
             /\ ~Data(m)
             /\ \/ UNCHANGED inMailBox
                \/ m \in Messages /\ inMailBox' = Append(inMailBox, m)
    <2>1. Flow(a, b)'
      BY <1>1, <1>3, <1>4, <1>7, <1>8, FlowStays, Zenon
    <2> QED
      BY <1>6, <2>1
  <1>9. ASSUME /\ m \in Messages /\ m.type \in {"BEGIN", "CHUNK", "END"}
               /\ inMailBox' = Append(inMailBox, m),
               \/ /\ mode[s] = "frames" /\ mode' = [mode EXCEPT ![s] = "chunks"]
                  /\ m.type = "BEGIN"
               \/ mode[s] = "chunks" /\ UNCHANGED mode /\ m.type = "CHUNK"
               \/ /\ mode[s] = "chunks" /\ mode' = [mode EXCEPT ![s] = "frames"]
                  /\ m.type = "END"
        PROVE  FInv'
    <2>d. Data(m)
      BY <1>9, SMTT(30) DEF Data
    <2>1. PICK f \in Files : f = m.file /\ Owner[f] = s
      BY <1>2, <1>9, <2>d, ChunkOfMessage
    <2>2. PICK x : x = [a EXCEPT ![f] = a[f] + 1]
      BY Zenon
    <2>3. x \in [Files -> Nat] /\ \A g \in Files : Between(g, x, b)'
      BY ONLY TypeOK, a \in [Files -> Nat], b \in [Files -> Nat], s \in Senders,
         f \in Files, <1>1, <1>9, <1>b, <1>h, <2>d, <2>1, <2>2, HandsOn, Zenon
    <2>4. stream[Owner[f]] # <<>> /\ Data(Head(stream[Owner[f]]))
          /\ Head(stream[Owner[f]]).file = f
      BY <1>1, <1>h, <2>d, <2>1, Zenon
    <2>5. m.part = a[f] /\ a[f] < Out(f) /\ Shape(m, transfer[f].key, Final(f))
      <3>1. Between(f, a, b)
        BY <1>b
      <3>2. /\ Head(stream[Owner[f]]).part = a[f] /\ a[f] < Out(f)
            /\ Shape(Head(stream[Owner[f]]), transfer[f].key, Final(f))
        BY ONLY <2>4, <3>1, TypeOK, a \in [Files -> Nat], f \in Files, ReadsNextPart, Zenon
      <3> QED
        BY ONLY <1>h, <2>1, <3>2, Zenon
    <2>7. ASSUME Calm' PROVE Reading(x)' /\ Writing(b)'
      <3>1. Reading(a) /\ Writing(b)
        BY <1>1, <1>3, <2>7, SMTT(30) DEF Flow, Calm
      <3>2. UNCHANGED <<transfer, fileTransferData, disk>>
        BY <1>1
      <3>3. \/ /\ mode[Owner[f]] = "frames"
               /\ mode' = [mode EXCEPT ![Owner[f]] = "chunks"]
               /\ m.type = "BEGIN"
            \/ UNCHANGED mode /\ m.type = "CHUNK"
            \/ mode' = [mode EXCEPT ![Owner[f]] = "frames"] /\ m.type = "END"
        BY ONLY <1>9, <2>1, Zenon
      <3> QED
        BY ONLY TypeOK, a \in [Files -> Nat], f \in Files, <2>2, <2>5, <3>1, <3>2, <3>3,
           SessionFlows, Zenon
    <2>8. Flow(x, b)'
      BY <2>3, <2>7 DEF Flow
    <2> QED
      BY <1>6, <2>3, <2>8
  <1>10. CASE /\ ~Calm' /\ UNCHANGED inMailBox
              /\ Data(m) => m.type = "BEGIN"
    <2>1. CASE ~Data(m)
      <3>1. Flow(a, b)'
        BY <1>7, <1>10, <2>1 DEF Flow
      <3> QED
        BY <1>6, <3>1
    <2>2. CASE Data(m)
      <3>0. m \in Messages /\ m.type = "BEGIN"
        BY <1>1, <1>10, <2>2, NoChat, Zenon
      <3>1. PICK f \in Files : f = m.file /\ Owner[f] = s
        BY <1>2, <2>2, <3>0, ChunkOfMessage, Zenon
      <3>2. UNCHANGED <<transfer, inMailBox>>
        BY <1>1, <1>10
      <3>3. PICK x, y \in [Files -> Nat] : \A g \in Files : Between(g, x, y)'
        BY ONLY TypeOK, a \in [Files -> Nat], b \in [Files -> Nat], s \in Senders,
           f \in Files, <1>1, <1>b, <1>h, <3>0, <3>1, <3>2, Drops, Zenon
      <3>4. Flow(x, y)'
        BY <1>10, <3>3 DEF Flow
      <3> QED
        BY <1>6, <3>4
    <2> QED
      BY <2>1, <2>2
  <1> QED
    BY <1>1, <1>8, <1>9, <1>10, Zenon

(* The message the app handles is the next part of its file. *)
LEMMA HandlesNextPart ==
  ASSUME TypeOK, NEW a \in [Files -> Nat], NEW b \in [Files -> Nat], NEW f \in Files,
         Between(f, a, b), inMailBox # <<>>,
         Data(Head(inMailBox)), Head(inMailBox).file = f
  PROVE  /\ Head(inMailBox).part = b[f] /\ b[f] < a[f] /\ a[f] <= Out(f)
         /\ Shape(Head(inMailBox), transfer[f].key, Final(f))
         /\ Carries(Tail(inMailBox), f, b[f] + 1, a[f], transfer[f].key, Final(f))
  <1>1. inMailBox \in Seq(Messages)
    BY Zenon DEF TypeOK
  <1>2. a[f] \in Nat /\ b[f] \in Nat
    OBVIOUS
  <1>3. Carries(inMailBox, f, b[f], a[f], transfer[f].key, Final(f)) /\ a[f] <= Out(f)
    BY Zenon DEF Between
  <1> QED
    BY ONLY <1>1, <1>2, <1>3, inMailBox # <<>>, Data(Head(inMailBox)),
       Head(inMailBox).file = f, CarriesTail, Zenon

(* It is taken out of the mailbox. *)
LEMMA TakesOut ==
  ASSUME TypeOK, NEW a \in [Files -> Nat], NEW b \in [Files -> Nat],
         \A g \in Files : Between(g, a, b), inMailBox # <<>>,
         UNCHANGED <<transfer, stream>>, inMailBox' = Tail(inMailBox),
         NEW f \in Files, Data(Head(inMailBox)), Head(inMailBox).file = f,
         NEW y, y = [b EXCEPT ![f] = b[f] + 1]
  PROVE  y \in [Files -> Nat] /\ \A g \in Files : Between(g, a, y)'
  <1>1. /\ y \in [Files -> Nat] /\ y[f] = b[f] + 1 /\ a[f] \in Nat /\ b[f] \in Nat
        /\ \A g \in Files : g # f => y[g] = b[g]
    OBVIOUS
  <1>f. Between(f, a, b)
    OBVIOUS
  <1>2. /\ b[f] < a[f] /\ a[f] <= Out(f)
        /\ Carries(Tail(inMailBox), f, b[f] + 1, a[f], transfer[f].key, Final(f))
    BY ONLY <1>f, TypeOK, a \in [Files -> Nat], b \in [Files -> Nat], f \in Files,
       inMailBox # <<>>, Data(Head(inMailBox)), Head(inMailBox).file = f, HandlesNextPart, Zenon
  <1>3. Out(f)' = Out(f) /\ Final(f)' = Final(f)
    BY SameCounts, Zenon
  <1>4. b[f] + 1 <= a[f]
    BY ONLY <1>1, <1>2
  <1>5. Carries(stream[Owner[f]], f, a[f], Out(f), transfer[f].key, Final(f))
    BY <1>f, Zenon DEF Between
  <1>6. Between(f, a, y)'
    BY <1>1, <1>2, <1>3, <1>4, <1>5, Zenon DEF Between
  <1>7. ASSUME NEW g \in Files, g # f PROVE Between(g, a, y)'
    <2>1. Aside(stream[Owner[g]], stream'[Owner[g]], g, Messages \cup {Chat})
      BY Zenon DEF Aside
    <2>2. Aside(inMailBox, inMailBox', g, Messages)
      BY <1>7, Zenon DEF Aside
    <2>3. Out(g)' = Out(g) /\ Final(g)' = Final(g) /\ Between(g, a, b) /\ y[g] = b[g]
      BY <1>1, <1>7, SameCounts, Zenon
    <2> QED
      BY <1>1, <2>1, <2>2, <2>3, BetweenStays, Zenon
  <1> QED
    BY <1>1, <1>6, <1>7, Zenon

(* What the handlers of the three messages have in common. *)
LEMMA HandleData ==
  ASSUME TypeOK, FInv, UNCHANGED <<transfer, stream, mode>>, upsets \subseteq upsets',
         inMailBox # <<>>, inMailBox' = Tail(inMailBox), Data(Head(inMailBox))
  PROVE  \E f \in Files, a, b, y \in [Files -> Nat] :
           /\ Head(inMailBox).file = f
           /\ y[f] = b[f] + 1 /\ \A g \in Files : g # f => y[g] = b[g]
           /\ Head(inMailBox).part = b[f] /\ b[f] < Out(f)
           /\ Head(inMailBox).key = transfer[f].key
           /\ Head(inMailBox).type =
                IF b[f] = 0 THEN "BEGIN" ELSE IF b[f] = Final(f) THEN "END" ELSE "CHUNK"
           /\ Calm' => Writing(b)
           /\ (NoFatal /\ SavedIntact /\ (Calm => Writing(y)))' => FInv'
  <1>1. PICK a, b \in [Files -> Nat] : Flow(a, b)
    BY SMTT(60) DEF FInv
  <1>b. \A g \in Files : Between(g, a, b)
    BY <1>1 DEF Flow
  <1>2. Head(inMailBox) \in Messages
    <2>1. inMailBox \in Seq(Messages) /\ inMailBox # <<>>
      BY Zenon DEF TypeOK
    <2> QED
      BY ONLY <2>1
  <1>3. PICK f \in Files : Head(inMailBox).file = f
    BY <1>2, ChunkOfMessage
  <1>4. PICK y : y = [b EXCEPT ![f] = b[f] + 1]
    BY Zenon
  <1>5. y[f] = b[f] + 1 /\ \A g \in Files : g # f => y[g] = b[g]
    BY <1>4
  <1>6. y \in [Files -> Nat] /\ \A g \in Files : Between(g, a, y)'
    BY ONLY <1>3, <1>4, <1>b, TypeOK, a \in [Files -> Nat], b \in [Files -> Nat],
       f \in Files, inMailBox # <<>>, UNCHANGED <<transfer, stream, mode>>,
       inMailBox' = Tail(inMailBox), Data(Head(inMailBox)), TakesOut, Zenon
  <1>7. /\ Head(inMailBox).part = b[f] /\ b[f] < a[f] /\ a[f] <= Out(f)
        /\ Shape(Head(inMailBox), transfer[f].key, Final(f))
    <2>1. Between(f, a, b)
      BY <1>b
    <2> QED
      BY ONLY <1>3, <2>1, TypeOK, a \in [Files -> Nat], b \in [Files -> Nat], f \in Files,
         inMailBox # <<>>, Data(Head(inMailBox)), HandlesNextPart, Zenon
  <1>8. b[f] < Out(f)
    <2>1. a[f] \in Nat /\ b[f] \in Nat /\ Out(f) \in Nat
      BY OutType
    <2> QED
      BY ONLY <1>7, <2>1
  <1>9. Calm' => Calm /\ Reading(a) /\ Writing(b)
    BY <1>1 DEF Flow, Calm
  <1>10. \A g \in Files : Counted(g)' /\ Final(g)' = Final(g)
    BY SameCounts DEF FInv
  <1>11. Calm' => Reading(a)'
    BY <1>9, <1>10, Zenon DEF Reading, Amid
  <1>12. OwnStreams'
    BY Zenon DEF FInv, OwnStreams
  <1>13. (NoFatal /\ SavedIntact /\ (Calm => Writing(y)))' => FInv'
    <2>1. (Calm => Writing(y))' => Flow(a, y)'
      BY <1>6, <1>11 DEF Flow
    <2> QED
      BY <1>6, <1>10, <1>12, <2>1, Zenon DEF FInv
  <1>14. /\ Head(inMailBox).key = transfer[f].key
         /\ Head(inMailBox).type =
              IF b[f] = 0 THEN "BEGIN" ELSE IF b[f] = Final(f) THEN "END" ELSE "CHUNK"
    BY <1>7, Zenon DEF Shape
  <1> QED
    BY <1>3, <1>5, <1>6, <1>7, <1>8, <1>9, <1>13, <1>14, Zenon

(* A file the app is amid has parts to come. *)
LEMMA StillAmid ==
  ASSUME TypeOK, NEW f \in Files, NEW b \in [Files -> Nat], b[f] # 0, b[f] < Out(f)
  PROVE  Amid(f, b)
  <1>1. /\ Out(f) \in Nat /\ Final(f) \in Nat /\ (Final(f) # 0 => Out(f) = Final(f) + 1)
        /\ b[f] \in Nat
    BY OutType, FinalIsLast
  <1>2. b[f] >= 1 /\ (Final(f) = 0 \/ b[f] <= Final(f))
    BY ONLY <1>1, b[f] # 0, b[f] < Out(f)
  <1> QED
    BY <1>2 DEF Amid

(* HandleFileTransferBegin keeps the invariant: without a clash of keys    *)
(* the key was free.                                                       *)
LEMMA BeginFlows ==
  ASSUME TypeOK, FInv, HandleFileTransferBegin
  PROVE  FInv'
  <1> USE FileAssumption
  <1> DEFINE m == Head(inMailBox)
  <1>1. /\ UNCHANGED <<transfer, stream, mode, saved, process>>
        /\ upsets' = upsets \cup {u \in {"keys"} : fileTransferData[m.key] # None}
        /\ inMailBox # <<>> /\ inMailBox' = Tail(inMailBox) /\ m.type = "BEGIN"
        /\ disk' = [disk EXCEPT ![m.file] = <<>>]
        /\ fileTransferData' = [fileTransferData EXCEPT ![m.key] = m.file]
    BY Zenon DEF HandleFileTransferBegin, Handles, Begin, Upset, sender
  <1>u. upsets \subseteq upsets' /\ (Calm' => fileTransferData[m.key] = None)
    BY <1>1, Zenon DEF Calm
  <1>d. Data(m)
    BY <1>1 DEF Data
  <1>2. PICK f \in Files, a, b, y \in [Files -> Nat] :
           /\ m.file = f
           /\ y[f] = b[f] + 1 /\ \A g \in Files : g # f => y[g] = b[g]
           /\ m.part = b[f] /\ b[f] < Out(f)
           /\ m.key = transfer[f].key
           /\ m.type =
                IF b[f] = 0 THEN "BEGIN" ELSE IF b[f] = Final(f) THEN "END" ELSE "CHUNK"
           /\ Calm' => Writing(b)
           /\ (NoFatal /\ SavedIntact /\ (Calm => Writing(y)))' => FInv'
    BY ONLY <1>1, <1>u, <1>d, TypeOK, FInv, HandleData, Zenon
  <1> HIDE DEF m
  <1>3. b[f] = 0
    BY <1>1, <1>2, Zenon
  <1>k. PICK k \in Keys : k = transfer[f].key
    BY Zenon DEF TypeOK, Transfers
  <1>4. NoFatal' /\ SavedIntact'
    BY <1>1, <1>u, Zenon DEF FInv, NoFatal, SavedIntact, Fits, Contents, ChunksFor, CSize, FSize
  <1>5. /\ disk'[f] = <<>> /\ \A g \in Files : g # f => disk'[g] = disk[g]
        /\ fileTransferData'[k] = f
        /\ \A j \in Keys : j # k => fileTransferData'[j] = fileTransferData[j]
    BY <1>1, <1>2, <1>k, Zenon DEF TypeOK
  <1>6. ASSUME Calm', NEW g \in Files, Amid(g, y)'
        PROVE  /\ fileTransferData'[transfer'[g].key] = g
               /\ disk'[g] = [n \in 1..y[g]-1 |-> Chunk(g, n)]
    <2>1. transfer'[g].key = transfer[g].key /\ Final(g)' = Final(g)
      BY <1>1, SameCounts, Zenon
    <2>2. CASE g = f
      <3>1. y[f] = 1
        BY ONLY <1>2, <1>3, PartsCount, Zenon
      <3>2. [n \in 1..y[g]-1 |-> Chunk(g, n)] = <<>>
        BY <2>2, <3>1
      <3> QED
        BY <1>5, <1>k, <2>1, <2>2, <3>2, Zenon
    <2>3. CASE g # f
      <3>1. Amid(g, b) /\ y[g] = b[g]
        BY <1>2, <1>6, <2>1, <2>3, Zenon DEF Amid
      <3>2. /\ fileTransferData[transfer[g].key] = g
            /\ disk[g] = [n \in 1..b[g]-1 |-> Chunk(g, n)]
        BY <1>2, <1>6, <3>1, Zenon DEF Writing
      <3>3. transfer[g].key # k /\ transfer[g].key \in Keys
        <4>1. transfer[g].key \in Keys
          BY Zenon DEF TypeOK, Transfers
        <4>2. fileTransferData[k] = None /\ g # None
          BY <1>2, <1>6, <1>k, <1>u, Zenon
        <4> QED
          BY <3>2, <4>1, <4>2, Zenon
      <3> QED
        BY <1>5, <2>1, <2>3, <3>1, <3>2, <3>3, Zenon
    <2> QED
      BY <2>2, <2>3, Zenon
  <1>7. Calm' => Writing(y)'
    BY <1>6, Zenon DEF Writing
  <1> QED
    BY <1>2, <1>4, <1>7, Zenon

(* Writing a part behind the parts that are there. *)
LEMMA PartAppended ==
  ASSUME NEW f, NEW n \in Nat \ {0}
  PROVE  Append([i \in 1..n-1 |-> Chunk(f, i)], Chunk(f, n)) = [i \in 1..n |-> Chunk(f, i)]
  <1> DEFINE q == [i \in 1..n-1 |-> Chunk(f, i)]
             S == {Chunk(f, i) : i \in Nat}
  <1>1. q \in Seq(S) /\ Len(q) = n - 1 /\ Chunk(f, n) \in S
    OBVIOUS
  <1>2. \A i \in 1..n-1 : q[i] = Chunk(f, i)
    OBVIOUS
  <1> HIDE DEF q, S
  <1> PICK c \in S : c = Chunk(f, n)
    BY <1>1
  <1> DEFINE p == Append(q, c)
  <1>3. p \in Seq(S) /\ Len(p) = n
    BY ONLY <1>1, c \in S, n \in Nat \ {0}
  <1>4. (\A i \in 1..n-1 : p[i] = q[i]) /\ p[n] = c
    BY ONLY <1>1, c \in S, n \in Nat \ {0}
  <1> HIDE DEF p
  <1>5. ASSUME NEW i \in 1..n PROVE p[i] = Chunk(f, i)
    <2>1. i \in 1..n-1 \/ i = n
      BY ONLY n \in Nat \ {0}, i \in 1..n
    <2> QED
      BY <1>2, <1>4, <2>1, Zenon
  <1>6. p = [i \in 1..n |-> p[i]]
    BY ONLY <1>3
  <1>7. p = [i \in 1..n |-> Chunk(f, i)]
    BY ONLY <1>5, <1>6
  <1> QED
    BY <1>7 DEF p, q

(* HandleFileChunkSent keeps the invariant: the key leads to the file of   *)
(* the chunk, which is its next part.                                      *)
LEMMA SentFlows ==
  ASSUME TypeOK, FInv, HandleFileChunkSent
  PROVE  FInv'
  <1> USE FileAssumption
  <1> DEFINE m == Head(inMailBox)
             to == fileTransferData[m.key]
  <1>1. /\ UNCHANGED <<transfer, stream, mode, saved, fileTransferData, upsets>>
        /\ inMailBox # <<>> /\ inMailBox' = Tail(inMailBox) /\ m.type = "CHUNK"
        /\ to # None => /\ disk' = [disk EXCEPT ![to] = Append(@, Chunk(m.file, m.part))]
                        /\ UNCHANGED process
    BY Zenon DEF HandleFileChunkSent, Handles, AppendChunk, sender
  <1>u. upsets \subseteq upsets' /\ (Calm' <=> Calm)
    BY <1>1, Zenon DEF Calm
  <1>d. Data(m)
    BY <1>1 DEF Data
  <1>2. PICK f \in Files, a, b, y \in [Files -> Nat] :
           /\ m.file = f
           /\ y[f] = b[f] + 1 /\ \A g \in Files : g # f => y[g] = b[g]
           /\ m.part = b[f] /\ b[f] < Out(f)
           /\ m.key = transfer[f].key
           /\ m.type =
                IF b[f] = 0 THEN "BEGIN" ELSE IF b[f] = Final(f) THEN "END" ELSE "CHUNK"
           /\ Calm' => Writing(b)
           /\ (NoFatal /\ SavedIntact /\ (Calm => Writing(y)))' => FInv'
    BY ONLY <1>1, <1>u, <1>d, TypeOK, FInv, HandleData, Zenon
  <1> HIDE DEF m, to
  <1>3. b[f] # 0
    BY <1>1, <1>2, Zenon
  <1>4. Amid(f, b)
    BY <1>2, <1>3, StillAmid, Zenon
  <1>5. ASSUME Calm'
        PROVE  /\ fileTransferData[transfer[f].key] = f /\ to = f
               /\ disk[f] = [n \in 1..b[f]-1 |-> Chunk(f, n)]
    BY <1>2, <1>4, <1>5, Zenon DEF Writing, to
  <1>6. SavedIntact'
    BY <1>1, Zenon DEF FInv, SavedIntact, Fits, Contents, ChunksFor, CSize, FSize
  <1>7. NoFatal'
    <2>1. ASSUME Calm' PROVE UNCHANGED process
      BY <1>1, <1>5, <2>1, Zenon
    <2> QED
      BY <1>1, <2>1 DEF FInv, NoFatal, Calm
  <1>8. ASSUME Calm', NEW g \in Files, Amid(g, y)'
        PROVE  /\ fileTransferData'[transfer'[g].key] = g
               /\ disk'[g] = [n \in 1..y[g]-1 |-> Chunk(g, n)]
    <2>1. transfer'[g].key = transfer[g].key /\ Final(g)' = Final(g)
      BY <1>1, SameCounts, Zenon
    <2>2. /\ disk'[f] = Append(disk[f], Chunk(f, b[f]))
          /\ \A h \in Files : h # f => disk'[h] = disk[h]
      <3>1. disk \in [Files -> Seq(Chunks)]
        BY Zenon DEF TypeOK
      <3>2. disk' = [disk EXCEPT ![f] = Append(@, Chunk(f, b[f]))]
        BY <1>1, <1>2, <1>5, <1>8, Zenon
      <3> QED
        BY ONLY <3>1, <3>2, f \in Files
    <2>3. CASE g = f
      <3>1. b[f] \in Nat \ {0} /\ y[f] - 1 = b[f]
        <4>1. b[f] \in Nat /\ b[f] # 0 /\ y[f] = b[f] + 1
          BY <1>2, <1>3, Zenon
        <4> QED
          BY ONLY <4>1
      <3>2. disk'[f] = [n \in 1..b[f] |-> Chunk(f, n)]
        <4>1. disk'[f] = Append([n \in 1..b[f]-1 |-> Chunk(f, n)], Chunk(f, b[f]))
          BY <1>5, <1>8, <2>2, Zenon
        <4> QED
          BY ONLY <3>1, <4>1, PartAppended, Zenon
      <3> QED
        BY <1>1, <1>5, <1>8, <2>3, <3>1, <3>2, Zenon
    <2>4. CASE g # f
      <3>1. Amid(g, b) /\ y[g] = b[g]
        BY <1>2, <1>8, <2>1, <2>4, Zenon DEF Amid
      <3> QED
        BY <1>1, <1>2, <1>8, <2>2, <2>4, <3>1, Zenon DEF Writing
    <2> QED
      BY <2>3, <2>4, Zenon
  <1>9. Calm' => Writing(y)'
    BY <1>8 DEF Writing
  <1> QED
    BY <1>2, <1>6, <1>7, <1>9, Zenon

(* A file that has as many parts as it should keeps them all. *)
LEMMA AllParts ==
  ASSUME NEW f, NEW n \in Nat, NEW q, q = [i \in 1..n |-> Chunk(f, i)]
  PROVE  Resized(q, n) = q
  <1>1. Len(q) = n /\ \A i \in 1..n : q[i] = Chunk(f, i)
    OBVIOUS
  <1>2. \A i \in 1..n : (IF i <= Len(q) THEN q[i] ELSE Leftover) = Chunk(f, i)
    BY ONLY <1>1, n \in Nat
  <1>3. Resized(q, n) = [i \in 1..n |-> Chunk(f, i)]
    BY ONLY <1>2 DEF Resized
  <1> QED
    BY <1>3

(* Finish makes the file whole when the part that ends it is the next one  *)
(* and all bytes were sent.                                                *)
LEMMA FinishesWhole ==
  ASSUME TypeOK, WholeFileSent, NEW f \in Files, Fits(f), NEW n \in Nat \ {0},
         n = Final(f), disk[f] = [i \in 1..n-1 |-> Chunk(f, i)]
  PROVE  Finish(f, Chunk(f, n)) = Contents(f)
  <1> USE FileAssumption
  <1>1. transfer[f].at = "done" /\ n = Out(f) - 1
    BY SMTT(30) DEF Final
  <1>2. transfer[f].sent = Bytes[f]
    BY <1>1, SMTT(30) DEF WholeFileSent
  <1>3. n = ChunksFor(f, Bytes[f])
    <2>1. ChunksFor(f, Bytes[f]) \in Nat
      BY ChunkSize
    <2>2. Out(f) = ChunksFor(f, Bytes[f]) + 1
      BY <1>1, <1>2, Zenon DEF Out, Begun
    <2> QED
      BY ONLY <1>1, <2>1, <2>2
  <1>4. FSize(f) = Bytes[f]
    <2> PICK z \in Nat : z = Bytes[f]
      BY SMTT(30)
    <2> PICK M \in Nat \ {0} : M = Modulus
      BY SMTT(60)
    <2> PICK c \in Nat \ {0} : c = CSize(f)
      BY ChunkSize, SMTT(60)
    <2>1. z + c <= M
      BY SMTT(30) DEF Fits
    <2>2. z < M
      BY ONLY <2>1, z \in Nat, M \in Nat \ {0}, c \in Nat \ {0}
    <2>3. z % M = z
      BY ONLY <2>2, z \in Nat, M \in Nat \ {0}, NoWrap, SMTT(30)
    <2> QED
      BY <2>3, SMTT(30) DEF FSize
  <1>5. Append(disk[f], Chunk(f, n)) = [i \in 1..n |-> Chunk(f, i)]
    BY ONLY n \in Nat \ {0}, disk[f] = [i \in 1..n-1 |-> Chunk(f, i)], PartAppended
  <1>6. Resized(Append(disk[f], Chunk(f, n)), n) = [i \in 1..n |-> Chunk(f, i)]
    BY ONLY n \in Nat \ {0}, <1>5, AllParts, Zenon
  <1>7. Chunk(f, n).file = f
    BY DEF Chunk
  <1> QED
    BY <1>3, <1>4, <1>6, <1>7, Zenon DEF Finish, Contents

(* HandleFileTransferEnd keeps the invariant. *)
LEMMA EndFlows ==
  ASSUME TypeOK, WholeFileSent, FInv, HandleFileTransferEnd
  PROVE  FInv'
  <1> USE FileAssumption
  <1> DEFINE m == Head(inMailBox)
             to == fileTransferData[m.key]
  <1>1. /\ UNCHANGED <<transfer, stream, mode, upsets>>
        /\ inMailBox # <<>> /\ inMailBox' = Tail(inMailBox) /\ m.type = "END"
        /\ to # None =>
             /\ \E d : disk' = [disk EXCEPT ![to] = d]
             /\ saved' = [saved EXCEPT ![to] = Finish(to, Chunk(m.file, m.part))]
             /\ fileTransferData' = [fileTransferData EXCEPT ![m.key] = None]
             /\ UNCHANGED process
    BY Zenon DEF HandleFileTransferEnd, MoveToSaveDirectory, Handles, sender
  <1>u. upsets \subseteq upsets' /\ (Calm' <=> Calm)
    BY <1>1, Zenon DEF Calm
  <1>d. Data(m)
    BY <1>1, Zenon DEF Data
  <1>2. PICK f \in Files, a, b, y \in [Files -> Nat] :
           /\ m.file = f
           /\ y[f] = b[f] + 1 /\ \A g \in Files : g # f => y[g] = b[g]
           /\ m.part = b[f] /\ b[f] < Out(f)
           /\ m.key = transfer[f].key
           /\ m.type =
                IF b[f] = 0 THEN "BEGIN" ELSE IF b[f] = Final(f) THEN "END" ELSE "CHUNK"
           /\ Calm' => Writing(b)
           /\ (NoFatal /\ SavedIntact /\ (Calm => Writing(y)))' => FInv'
    BY ONLY <1>1, <1>u, <1>d, TypeOK, FInv, HandleData, Zenon
  <1> HIDE DEF m, to
  <1>3. b[f] # 0 /\ b[f] = Final(f) /\ b[f] \in Nat
    BY <1>1, <1>2, Zenon
  <1>4. Amid(f, b)
    BY <1>2, <1>3, StillAmid, Zenon
  <1>k. PICK k \in Keys : k = transfer[f].key
    BY Zenon DEF TypeOK, Transfers
  <1>5. ASSUME Calm'
        PROVE  /\ fileTransferData[k] = f /\ to = f
               /\ disk[f] = [n \in 1..b[f]-1 |-> Chunk(f, n)]
    BY <1>2, <1>4, <1>5, <1>k, Zenon DEF Writing, to
  <1>6. ASSUME Calm'
        PROVE  /\ \A g \in Files : g # f => disk'[g] = disk[g] /\ saved'[g] = saved[g]
               /\ saved'[f] = Finish(f, Chunk(f, b[f]))
               /\ \A j \in Keys : j # k => fileTransferData'[j] = fileTransferData[j]
               /\ UNCHANGED process
    <2>1. /\ \E d : disk' = [disk EXCEPT ![f] = d]
          /\ saved' = [saved EXCEPT ![f] = Finish(f, Chunk(f, b[f]))]
          /\ fileTransferData' = [fileTransferData EXCEPT ![k] = None]
          /\ UNCHANGED process
      BY <1>1, <1>2, <1>5, <1>6, <1>k, Zenon
    <2> QED
      BY <2>1, Zenon DEF TypeOK
  <1>7. NoFatal'
    BY <1>6, <1>u, Zenon DEF FInv, NoFatal, Calm
  <1>8. SavedIntact'
    <2>1. ASSUME Calm', NEW g \in Files, saved'[g] # None, Fits(g)
          PROVE  saved'[g] = Contents(g)
      <3>1. CASE g = f
        BY <1>3, <1>5, <1>6, <2>1, <3>1, FinishesWhole, Zenon
      <3>2. CASE g # f
        BY <1>6, <1>u, <2>1, <3>2, Zenon DEF FInv, SavedIntact, Calm
      <3> QED
        BY <3>1, <3>2
    <2> QED
      BY <2>1, Zenon DEF SavedIntact, Calm, Fits, Contents, ChunksFor, CSize, FSize
  <1>9. ASSUME Calm', NEW g \in Files, Amid(g, y)'
        PROVE  /\ fileTransferData'[transfer'[g].key] = g
               /\ disk'[g] = [n \in 1..y[g]-1 |-> Chunk(g, n)]
    <2>1. transfer'[g].key = transfer[g].key /\ Final(g)' = Final(g)
      BY <1>1, SameCounts, Zenon
    <2>2. g # f
      <3>1. SUFFICES ASSUME g = f PROVE FALSE
        BY Zenon
      <3>2. y[f] >= 1 /\ (Final(f) = 0 \/ y[f] <= Final(f))
        BY <1>9, <2>1, <3>1, Zenon DEF Amid
      <3>3. y[f] = b[f] + 1
        BY <1>2, Zenon
      <3> QED
        BY ONLY <1>3, <3>2, <3>3
    <2>3. Amid(g, b) /\ y[g] = b[g]
      BY <1>2, <1>9, <2>1, <2>2, Zenon DEF Amid
    <2>4. /\ fileTransferData[transfer[g].key] = g
          /\ disk[g] = [n \in 1..b[g]-1 |-> Chunk(g, n)]
      BY <1>2, <1>9, <2>3, Zenon DEF Writing
    <2>5. transfer[g].key \in Keys /\ transfer[g].key # k
      <3>1. transfer[g].key \in Keys
        BY Zenon DEF TypeOK, Transfers
      <3> QED
        BY <1>5, <1>9, <2>2, <2>4, <3>1, Zenon
    <2> QED
      BY <1>6, <1>9, <2>1, <2>2, <2>3, <2>4, <2>5, Zenon
  <1>10. Calm' => Writing(y)'
    BY <1>9, Zenon DEF Writing
  <1> QED
    BY <1>2, <1>7, <1>8, <1>10, Zenon

(* Nothing is on its way at first. *)
LEMMA InitFlows == Init => FInv
  <1> SUFFICES ASSUME Init PROVE FInv
    OBVIOUS
  <1> USE FileAssumption
  <1>1. \A f \in Files : transfer[f].at = "none" /\ transfer[f].sent = 0
    BY Zenon DEF Init
  <1>2. \A f \in Files : Counted(f) /\ Out(f) = 0 /\ Final(f) = 0
    BY ONLY <1>1 DEF Counted, Begun, Out, Final
  <1>s. inMailBox = <<>> /\ \A s \in Senders : stream[s] = <<>>
    BY Zenon DEF Init
  <1>3. OwnStreams
    BY ONLY <1>s DEF OwnStreams
  <1>4. NoFatal /\ SavedIntact
    BY Zenon DEF Init, NoFatal, SavedIntact
  <1> DEFINE z == [f \in Files |-> 0]
  <1>5. z \in [Files -> Nat] /\ \A f \in Files : z[f] = 0
    BY ONLY TRUE
  <1> HIDE DEF z
  <1>7. \A f \in Files : Between(f, z, z)
    <2>1. ASSUME NEW f \in Files PROVE z[f] <= z[f] /\ z[f] <= Out(f)
      BY ONLY <1>2, <1>5, <2>1, PartsCount, Zenon
    <2>2. ASSUME NEW f \in Files
          PROVE  /\ Carries(stream[Owner[f]], f, z[f], Out(f), transfer[f].key, Final(f))
                 /\ Carries(inMailBox, f, z[f], z[f], transfer[f].key, Final(f))
      <3>1. stream[Owner[f]] = <<>>
        BY <1>s, <2>2, Zenon
      <3>2. Carries(<<>>, f, 0, 0, transfer[f].key, 0)
        BY ONLY CarriesNothing
      <3> QED
        BY ONLY <1>2, <1>5, <1>s, <2>2, <3>1, <3>2, Zenon
    <2> QED
      BY <2>1, <2>2, Zenon DEF Between
  <1>8. Reading(z) /\ Writing(z)
    <2>1. \A f \in Files : ~Amid(f, z)
      BY ONLY <1>5 DEF Amid
    <2> QED
      BY <2>1, Zenon DEF Init, Reading, Writing
  <1>9. Flow(z, z)
    BY <1>7, <1>8, Zenon DEF Flow
  <1> QED
    BY <1>2, <1>3, <1>4, <1>5, <1>9, Zenon DEF FInv

(* Every step keeps the invariant. *)
LEMMA StepFlows ==
  ASSUME TypeOK, TypeOK', PendingFiled, WholeFileSent, FInv, [Next]_vars
  PROVE  FInv'
  <1>1. upsets \subseteq upsets'
    BY UpsetsGrow
  <1>2. \/ \E f \in Files : InitiateFileTransferWithSession(f)
        \/ \E f \in Files : TransferNextChunk(f)
        \/ \E s \in Senders : SignalFileTransfer(s) \/ SendDataToNode(s)
        \/ \E s \in Senders : ReadStream(s)
        \/ HandleFileOffer
        \/ HandleFileTransferBegin
        \/ HandleFileChunkSent
        \/ HandleFileTransferEnd
        \/ UNCHANGED <<transfer, stream, mode, inMailBox, fileTransferData, disk,
                       saved, process>>
    BY Zenon DEF Next, Progress, vars, RemoveSession, MailboxThread, IoThread, ShowOffer,
        PostedResponse, TakeFileOffers, Answer, HandleFileOfferKey, RespondToOffer,
        sender, app
  <1> QED
    BY <1>1, <1>2, SenderFlows, ChunkFlows, ReadFlows, AnswersFlow, BeginFlows, SentFlows,
       EndFlows

(* What is on its way stays in order, in every reachable state. *)
LEMMA AlwaysFlows == Spec => []FInv
  <1>1. TypeOK /\ PendingFiled /\ [Next]_vars => PendingFiled'
    BY StepPendingFiled
  <1>2. TypeOK /\ TypeOK' /\ PendingFiled /\ WholeFileSent /\ FInv /\ [Next]_vars => FInv'
    BY StepFlows
  <1> QED
    BY <1>1, <1>2, InitPendingFiled, InitFlows, TypeCorrect, WholeFileSentHolds, PTL
    DEF Spec

(* NoFatal holds in every reachable state: the mailbox thread finds the    *)
(* key of every chunk and END it handles, for any number of senders and    *)
(* files, as long as no two transfers share a key and nothing comes into   *)
(* the stream of a file.                                                   *)
THEOREM NoFatalHolds == Spec => []NoFatal
  <1>1. FInv => NoFatal
    BY DEF FInv
  <1> QED
    BY <1>1, AlwaysFlows, PTL

(* SavedIntact holds in every reachable state: a file reported as saved    *)
(* has all its parts, in order and no others, for files of every size that *)
(* fits and whatever other files are on their way.                         *)
THEOREM SavedIntactHolds == Spec => []SavedIntact
  <1>1. FInv => SavedIntact
    BY DEF FInv
  <1> QED
    BY <1>1, AlwaysFlows, PTL
=============================================================================
