------------------------------ MODULE Session ------------------------------
(***************************************************************************)
(* One TCP connection as the two BVTCPSessions at its ends drive it: the   *)
(* handshake HELLO, HELLOBACK, CONFIRM_ESTABLISHED, then chat messages and *)
(* file offers, each one frame of MESSAGE_FRAME_SIZE_BYTES.                *)
(*                                                                         *)
(* An end has ONE buffer to write from and ONE to read into, and both are  *)
(* used by operations that are still under way when a handler returns:     *)
(*   - async_read tries the socket at once.  If a frame is there it is in  *)
(*     readBuf before the handler that armed the read has finished, and    *)
(*     only its callback comes later;                                      *)
(*   - async_write too: the kernel takes the frame at once while the       *)
(*     connection holds less than Window frames, later otherwise, and then *)
(*     it takes what writeBuf holds by that time.                          *)
(*                                                                         *)
(* Abstracted: a frame is its type and a number, the kernel takes a frame  *)
(* whole or not at all.  OFFER stands for the three frames written through *)
(* WriteFileChunkSync that are answered by re-arming (offer, accept,       *)
(* reject).  A connection closed as a duplicate belongs to Connections,    *)
(* the file stream itself to FileTransfer.                                 *)
(***************************************************************************)
EXTENDS Naturals, Sequences

CONSTANTS
  MaxChats,   \* bound: chat lines the user of each end types
  MaxOffers,  \* bound: files the user of each end offers
  Window,     \* frames the kernel holds in one direction
  Marked      \* the numbers of the chats whose third character, which is byte
              \*   12 of the frame, has the value of a type of file frame

VARIABLES
  state,      \* BVTCPSession::state of each end
  io,         \* what the end's io thread is in the middle of
  writer,     \* writeBuf, and the writes not taken / not called back yet
  reader,     \* readBuf, the reads not filled / not called back yet, and
              \*   the frames on their way to the end
  sent,       \* history: what each user sent, in order
  got,        \* history: what the session gave the app, in order
  upsets      \* history: what has gone wrong on the connection so far

vars == <<state, io, writer, reader, sent, got, upsets>>

Ends == {"dialler", "acceptor"}

ASSUME BoundsAssumption ==
  /\ MaxChats \in [Ends -> Nat]
  /\ MaxOffers \in [Ends -> Nat]
  /\ Window \in Nat \ {0}
  /\ Marked \subseteq Nat

Peer(e) == IF e = "dialler" THEN "acceptor" ELSE "dialler"

Types == {"HELLO", "HELLOBACK", "CONFIRM", "CHAT", "OFFER"}

Frame(type, n) == [type |-> type, id |-> n]

(* A buffer of zeros: its type byte is that of HELLO. *)
Zeros == Frame("HELLO", 0)

(* GetFileHeader finds the type of a file frame in the buffer. *)
HasFileType(f) == f.type = "OFFER" \/ (f.type = "CHAT" /\ f.id \in Marked)

(* What the frame is then taken for: a chat for a file frame nobody sent. *)
AsFileFrame(f) == IF f.type = "OFFER" THEN f ELSE Frame("OFFER", 0)

(***************************************************************************)
(* The two asynchronous operations.                                        *)
(***************************************************************************)

Filled(r) == [r EXCEPT !.in = Tail(@), !.buf = Head(r.in), !.filled = @ + 1]

(* StartReadingFrames: the read finds a frame at once, or waits for one.  A *)
(* read behind another one always waits.                                   *)
StartReadingFrames(r) ==
  {[r EXCEPT !.armed = @ + 1]}
    \cup (IF r.armed = 0 /\ r.in # <<>> THEN {Filled(r)} ELSE {})

ClearReadBuffer(r) == [r EXCEPT !.buf = Zeros]

Room(e) == Len(reader[Peer(e)].in) < Window

Taken(e) == writer[e].waiting = 0 /\ Room(e)

(* writer of e after WriteMessageFrame(f). *)
Writing(e, f) ==
  IF Taken(e) THEN [writer[e] EXCEPT !.buf = f, !.completed = @ + 1]
              ELSE [writer[e] EXCEPT !.buf = f, !.waiting = @ + 1]

(* The reader at the other end of e after it. *)
Reaching(e, f) ==
  [reader[Peer(e)] EXCEPT !.in = IF Taken(e) THEN Append(@, f) ELSE @]

Upset(why) == upsets' = upsets \cup why

WaitUpset(e) == Upset({u \in {"waited"} : ~ Taken(e)})

AheadUpset(before, after) ==
  Upset({u \in {"read ahead"} : after.filled > before.filled})

(***************************************************************************)
(* Both ends are connected: ConnectHandler has listed the dialler's        *)
(* session and armed its read, Accept has written HELLO and armed its own. *)
(***************************************************************************)
Init ==
  /\ state  = [e \in Ends |-> "UNPREPARED"]
  /\ io     = [e \in Ends |-> "idle"]
  /\ writer = [e \in Ends |->
       [buf |-> Zeros, erased |-> "no", waiting |-> 0,
        completed |-> IF e = "acceptor" THEN 1 ELSE 0]]
  /\ reader = [e \in Ends |->
       [in |-> IF e = "dialler" THEN <<Frame("HELLO", 0)>> ELSE <<>>,
        buf |-> Zeros, armed |-> 1, filled |-> 0]]
  /\ sent   = [e \in Ends |-> <<>>]
  /\ got    = [e \in Ends |-> <<>>]
  /\ upsets = {}

(* Idle: no handler of e is running; everything but the peer waits for it. *)
Idle(e) == io[e] = "idle"

(* The reactor fills the oldest read that waits. *)
FillRead(e) ==
  /\ Idle(e)
  /\ reader[e].armed > 0
  /\ reader[e].in # <<>>
  /\ reader' = [reader EXCEPT
                  ![e] = [Filled(reader[e]) EXCEPT !.armed = reader[e].armed - 1]]
  /\ UNCHANGED <<state, io, writer, sent, got, upsets>>

(* The reactor lets the oldest write that waits have the buffer as it is. *)
FlushWrite(e) ==
  /\ Idle(e)
  /\ writer[e].waiting > 0
  /\ Room(e)
  /\ reader' = [reader EXCEPT ![Peer(e)].in = Append(@, writer[e].buf)]
  /\ writer' = [writer EXCEPT ![e].waiting = @ - 1, ![e].completed = @ + 1]
  /\ UNCHANGED <<state, io, sent, got, upsets>>

(* WriteMessageFrameCallback: ClearWriteBuffer, whoever uses the buffer now. *)
WriteMessageFrameCallback(e) ==
  /\ Idle(e)
  /\ writer[e].completed > 0
  /\ writer' = [writer EXCEPT ![e].completed = @ - 1, ![e].buf = Zeros,
                              ![e].erased = "no"]
  /\ UNCHANGED <<state, io, reader, sent, got, upsets>>

(***************************************************************************)
(* ReadMessageFrameCallback.  Called(e, s, types) is its dispatch: a frame *)
(* of one of the types was read in state s.  Read(e) is the reader when    *)
(* the handler starts.                                                     *)
(***************************************************************************)
Called(e, s, types) ==
  /\ Idle(e)
  /\ reader[e].filled > 0
  /\ state[e] = s
  /\ reader[e].buf.type \in types

Read(e) == [reader[e] EXCEPT !.filled = @ - 1]

(* Mutant: HELLOBACK is not followed by a new read. *)
OnReceiveHelloFrameOnce(e) ==
  /\ Called(e, "UNPREPARED", {"HELLO"})
  /\ writer' = [writer EXCEPT ![e] = Writing(e, Frame("HELLOBACK", 0))]
  /\ reader' = [reader EXCEPT ![e] = Read(e),
                              ![Peer(e)] = Reaching(e, Frame("HELLOBACK", 0))]
  /\ UNCHANGED <<state, io, sent, got, upsets>>

(* OnReceiveHelloFrame writes HELLOBACK and erases the buffer it is written *)
(* from.  The read is armed by Rearm: the peer may answer in between.      *)
OnReceiveHelloFrame(e) ==
  /\ Called(e, "UNPREPARED", {"HELLO"})
  /\ writer[e].erased = "no"
  /\ LET f == Frame("HELLOBACK", 0) IN
     /\ writer' = [writer EXCEPT
                     ![e] = [Writing(e, f) EXCEPT !.erased = "yes"]]
     /\ reader' = [reader EXCEPT ![e] = Read(e), ![Peer(e)] = Reaching(e, f)]
  /\ io' = [io EXCEPT ![e] = "rearm"]
  /\ WaitUpset(e)
  /\ UNCHANGED <<state, sent, got>>

(* OnReceiveHelloBackFrame and HandleSessionIdentification, for a          *)
(* connection that is no duplicate.  Byte 9 of a file frame lies in its    *)
(* millisecond timestamp and has the value of HELLOBACK, so an offer that  *)
(* reaches an end in UNPREPARED is taken for one.                          *)
OnReceiveHelloBackFrame(e) ==
  /\ Called(e, "UNPREPARED", {"HELLOBACK", "OFFER"})
  /\ writer[e].erased = "no"
  /\ state' = [state EXCEPT ![e] = "ESTABLISHED"]
  /\ LET f == Frame("CONFIRM", 0) IN
     /\ writer' = [writer EXCEPT ![e] = Writing(e, f)]
     /\ reader' = [reader EXCEPT ![e] = Read(e), ![Peer(e)] = Reaching(e, f)]
  /\ io' = [io EXCEPT ![e] = "rearm"]
  /\ Upset({u \in {"waited"} : ~ Taken(e)}
             \cup {u \in {"mistaken"} : reader[e].buf.type = "OFFER"})
  /\ UNCHANGED <<sent, got>>

(* The rest of either handler, and the ClearReadBuffer that ends the       *)
(* callback: it also clears a frame the new read has found.                *)
Rearm(e) ==
  /\ io[e] = "rearm"
  /\ io' = [io EXCEPT ![e] = "idle"]
  /\ \E r \in StartReadingFrames(reader[e]) :
       /\ reader' = [reader EXCEPT ![e] = ClearReadBuffer(r)]
       /\ AheadUpset(reader[e], r)
  /\ UNCHANGED <<state, writer, sent, got>>

OnReceiveConfirmEstablished(e) ==
  /\ Called(e, "UNPREPARED", {"CONFIRM"})
  /\ state' = [state EXCEPT ![e] = "ESTABLISHED"]
  /\ \E r \in StartReadingFrames(Read(e)) :
       /\ reader' = [reader EXCEPT ![e] = ClearReadBuffer(r)]
       /\ AheadUpset(Read(e), r)
  /\ UNCHANGED <<io, writer, sent, got>>

(* No handler takes the frame: the buffer is cleared and no read is armed. *)
IgnoreFrame(e) ==
  /\ \/ Called(e, "UNPREPARED", {"CHAT"}) /\ Upset({"early"})
     \/ Called(e, "ESTABLISHED", {"HELLO", "HELLOBACK", "CONFIRM"}) /\ Upset({"stray"})
  /\ reader' = [reader EXCEPT ![e] = ClearReadBuffer(Read(e))]
  /\ UNCHANGED <<state, io, writer, sent, got>>

(* Mutant: the chat is handed over after the read was armed and filled. *)
OnReceiveChatMessageFrameLate(e) ==
  /\ Called(e, "ESTABLISHED", {"CHAT"})
  /\ \E r \in StartReadingFrames(Read(e)) :
       /\ got' = [got EXCEPT ![e] = Append(@, r.buf)]
       /\ reader' = [reader EXCEPT ![e] = ClearReadBuffer(r)]
  /\ UNCHANGED <<state, io, writer, sent, upsets>>

(* Mutant: the handler of a chat does not arm the next read. *)
OnReceiveChatMessageFrameOnce(e) ==
  /\ Called(e, "ESTABLISHED", {"CHAT"})
  /\ got' = [got EXCEPT ![e] = Append(@, reader[e].buf)]
  /\ reader' = [reader EXCEPT ![e] = ClearReadBuffer(Read(e))]
  /\ UNCHANGED <<state, io, writer, sent, upsets>>

(* OnReceiveStandardFrame for a chat: the message goes to the app, the read *)
(* is armed, and then the buffer is looked at again for a file header.  If *)
(* the new read has already found an offer there, it is handled now and    *)
(* stays in the buffer for its own callback.  The look also sees the third *)
(* character of a chat, the one just handled or the next: with the value   *)
(* of an offer, an accept or a reject it is handled as one and a second    *)
(* read is armed; with that of FILE_TRANSFER_BEGIN a read of chunks is     *)
(* started beside the read of frames, and the end, out of step with its    *)
(* stream, is followed no further.                                         *)
OnReceiveChatMessageFrame(e) ==
  /\ Called(e, "ESTABLISHED", {"CHAT"})
  /\ \E r \in StartReadingFrames(Read(e)) :
       \/ /\ HasFileType(r.buf)
          /\ got' = [got EXCEPT ![e] = @ \o <<reader[e].buf, AsFileFrame(r.buf)>>]
          /\ \/ /\ \E q \in StartReadingFrames(r) :
                     reader' = [reader EXCEPT ![e] = q]
                /\ UNCHANGED io
             \/ /\ r.buf.type = "CHAT"
                /\ reader' = [reader EXCEPT ![e] = ClearReadBuffer(r)]
                /\ io' = [io EXCEPT ![e] = "chunks"]
          /\ Upset({IF r.buf.type = "OFFER" THEN "twice" ELSE "marked"})
       \/ /\ ~ HasFileType(r.buf)
          /\ got' = [got EXCEPT ![e] = Append(@, reader[e].buf)]
          /\ reader' = [reader EXCEPT ![e] = ClearReadBuffer(r)]
          /\ AheadUpset(Read(e), r)
          /\ UNCHANGED io
  /\ UNCHANGED <<state, writer, sent>>

(* OnReceiveStandardFrame for an offer, an accept or a reject: the callback *)
(* returns before ClearReadBuffer.                                         *)
OnReceiveFileOffer(e) ==
  /\ Called(e, "ESTABLISHED", {"OFFER"})
  /\ got' = [got EXCEPT ![e] = Append(@, reader[e].buf)]
  /\ \E r \in StartReadingFrames(Read(e)) : reader' = [reader EXCEPT ![e] = r]
  /\ UNCHANGED <<state, io, writer, sent, upsets>>

(***************************************************************************)
(* The user.  A session can be written to once it is listed: the dialler's *)
(* from the start, the acceptor's when its peer is identified.             *)
(***************************************************************************)
Listed(e) == e = "dialler" \/ state[e] = "ESTABLISHED"

Count(e, type) == Len(SelectSeq(sent[e], LAMBDA f : f.type = type))

CanChat(e) == Idle(e) /\ Listed(e) /\ Count(e, "CHAT") < MaxChats[e]

SendDataToNode(e) ==
  /\ CanChat(e)
  /\ writer[e].erased = "no"
  /\ LET f == Frame("CHAT", Len(sent[e]) + 1) IN
     /\ sent' = [sent EXCEPT ![e] = Append(@, f)]
     /\ writer' = [writer EXCEPT ![e] = Writing(e, f)]
     /\ reader' = [reader EXCEPT ![Peer(e)] = Reaching(e, f)]
  /\ WaitUpset(e)
  /\ UNCHANGED <<state, io, got>>

(* WriteFileChunkSync blocks until the kernel takes the frame, from a      *)
(* buffer of its own and past the writes that wait.                        *)
SendFileOffer(e) ==
  /\ Idle(e)
  /\ Listed(e)
  /\ Count(e, "OFFER") < MaxOffers[e]
  /\ Room(e)
  /\ LET f == Frame("OFFER", Len(sent[e]) + 1) IN
     /\ sent' = [sent EXCEPT ![e] = Append(@, f)]
     /\ reader' = [reader EXCEPT ![Peer(e)].in = Append(@, f)]
  /\ UNCHANGED <<state, io, writer, got, upsets>>

(* assert(writeBuf.size() != 0) of WriteMessageFrame: between              *)
(* OnReceiveHelloFrame and the callback of its write the buffer is empty.  *)
AssertFails(e) ==
  /\ writer[e].erased = "yes"
  /\ CanChat(e) \/ Called(e, "UNPREPARED", {"HELLO", "HELLOBACK", "OFFER"})
  /\ io' = [io EXCEPT ![e] = "aborted"]
  /\ Upset({"assert"})
  /\ UNCHANGED <<state, writer, reader, sent, got>>

Works(e) ==
  \/ FillRead(e)
  \/ FlushWrite(e)
  \/ WriteMessageFrameCallback(e)
  \/ OnReceiveHelloFrame(e)
  \/ OnReceiveHelloBackFrame(e)
  \/ Rearm(e)
  \/ OnReceiveConfirmEstablished(e)
  \/ IgnoreFrame(e)
  \/ OnReceiveChatMessageFrame(e)
  \/ OnReceiveFileOffer(e)

Next == \E e \in Ends :
  Works(e) \/ SendDataToNode(e) \/ SendFileOffer(e) \/ AssertFails(e)

Spec == Init /\ [][Next]_vars

(* The io thread runs what is ready; nobody has to type. *)
FairSpec == Spec /\ \A e \in Ends : WF_vars(Works(e))

----------------------------------------------------------------------------
(***************************************************************************)
(* Properties.                                                             *)
(***************************************************************************)

Frames == [type : Types, id : Nat]

Writers == [buf : Frames, erased : {"yes", "no"}, waiting : Nat, completed : Nat]

Readers == [in : Seq(Frames), buf : Frames, armed : Nat, filled : Nat]

(* The state of a session, its buffers and its operations stay in range,   *)
(* and a connection never holds more than the kernel takes.                *)
TypeOK ==
  /\ state \in [Ends -> {"UNPREPARED", "ESTABLISHED"}]
  /\ io \in [Ends -> {"idle", "rearm", "chunks", "aborted"}]
  /\ writer \in [Ends -> Writers]
  /\ reader \in [Ends -> Readers]
  /\ \A e \in Ends : Len(reader[e].in) <= Window
  /\ sent \in [Ends -> Seq(Frames)]
  /\ got \in [Ends -> Seq(Frames)]
  /\ upsets \subseteq {"waited", "read ahead", "early", "mistaken", "stray",
                 "twice", "marked", "assert"}

IsPrefixOf(s, t) == Len(s) <= Len(t) /\ s = SubSeq(t, 1, Len(s))

(* What the app is given is what the peer's user sent, in that order and   *)
(* with nothing left out before it, although both ends share one buffer    *)
(* among overlapping operations: a frame cleared by ReadMessageFrameCallback *)
(* is never followed by another.                                           *)
InOrder ==
  upsets \cap {"waited", "twice", "marked", "mistaken"} = {} =>
    \A e \in Ends : IsPrefixOf(got[e], sent[Peer(e)])

(* A session that has met none of the upsets always has exactly one read   *)
(* outstanding, so that the next frame finds a reader.                     *)
ReaderLives ==
  upsets = {} =>
    \A e \in Ends :
      reader[e].armed + reader[e].filled = IF io[e] = "rearm" THEN 0 ELSE 1

(* Without an upset both ends become ESTABLISHED and all that was sent     *)
(* reaches the app of the other end.                                       *)
Converges ==
  <>[](\/ upsets # {}
       \/ \A e \in Ends : state[e] = "ESTABLISHED" /\ got[e] = sent[Peer(e)])

(* docs/design.md: "User writes a message", "Host (receiver) receives the   *)
(* message".  Once both ends are ESTABLISHED and nothing has gone wrong,    *)
(* what either user writes from then on reaches the other, unless a process *)
(* ends.                                                                   *)
MessagesArrive ==
  (upsets = {} /\ \A e \in Ends : state[e] = "ESTABLISHED") ~>
    [](\/ \E e \in Ends : io[e] = "aborted"
      \/ \A e \in Ends : <>(got[Peer(e)] = sent[e]))
=============================================================================
