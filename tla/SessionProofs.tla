---------------------------- MODULE SessionProofs ----------------------------
(***************************************************************************)
(* What the runs of module Session check for a few frames, proved for any  *)
(* number of chats and offers and any room in the kernel: the types, that  *)
(* what an app is given is a prefix of what the other user sent, and that  *)
(* a session nothing has upset has exactly one read outstanding.           *)
(***************************************************************************)
EXTENDS Session, TLAPS

Data == {"CHAT", "OFFER"}

(* The upsets after which InOrder promises nothing. *)
Calm == upsets \cap {"waited", "twice", "marked", "mistaken"} = {}
-----------------------------------------------------------------------------
(* The inductive invariant *)

(* The frames of users that reader r holds, or that are on their way to it, *)
(* are those of s after the first g: each once, in order, none left out.   *)
Intact(r, s, g) ==
  /\ \A i \in DOMAIN r.in : r.in[i].type \in Data =>
       r.in[i].id \in g + 1 .. Len(s) /\ r.in[i] = s[r.in[i].id]
  /\ \A i, j \in DOMAIN r.in :
       i < j /\ r.in[i].type \in Data /\ r.in[j].type \in Data => r.in[i].id < r.in[j].id
  /\ r.filled > 0 /\ r.buf.type \in Data =>
       /\ g < Len(s)
       /\ r.buf = s[g + 1]
       /\ \A i \in DOMAIN r.in : r.in[i].type \in Data => r.in[i].id # g + 1
  /\ \A k \in g + 1 .. Len(s) :
       \/ \E i \in DOMAIN r.in : r.in[i].type \in Data /\ r.in[i].id = k
       \/ k = g + 1 /\ r.filled > 0 /\ r.buf.type \in Data

(* CONFIRM_ESTABLISHED is the next thing but handshake frames that r reads. *)
ConfirmDue(r) ==
  \/ r.filled > 0 /\ r.buf.type = "CONFIRM"
  \/ /\ r.filled > 0 => r.buf.type \notin Data
     /\ \E c \in DOMAIN r.in :
          /\ r.in[c].type = "CONFIRM"
          /\ \A i \in DOMAIN r.in : i < c => r.in[i].type \notin Data

(* It is nowhere in r. *)
NoConfirm(r) ==
  /\ \A i \in DOMAIN r.in : r.in[i].type # "CONFIRM"
  /\ r.filled > 0 => r.buf.type # "CONFIRM"

(* There is at most one of it. *)
OneConfirm(r) ==
  /\ \A i, j \in DOMAIN r.in : r.in[i].type = "CONFIRM" /\ r.in[j].type = "CONFIRM" => i = j
  /\ r.filled > 0 /\ r.buf.type = "CONFIRM" =>
       \A i \in DOMAIN r.in : r.in[i].type # "CONFIRM"

(* At most one read is outstanding, none while a handler is about to arm one. *)
OneRead(e) ==
  /\ reader[e].armed + reader[e].filled <= 1
  /\ io[e] = "rearm" => reader[e].armed + reader[e].filled = 0

(* The types of the frames on their way to r. *)
Arriving(r) == {r.in[i].type : i \in DOMAIN r.in}

(* Which frames are on their way to the acceptor, or read there: the       *)
(* dialler writes HELLOBACK and what its user sends.                       *)
ToAcceptor ==
  /\ Arriving(reader["acceptor"]) \subseteq {"HELLOBACK", "CHAT", "OFFER"}
  /\ reader["acceptor"].filled > 0 /\ state["acceptor"] = "UNPREPARED" =>
       reader["acceptor"].buf.type \in {"HELLOBACK", "CHAT", "OFFER"}
  /\ io["acceptor"] = "rearm" => state["acceptor"] = "ESTABLISHED"

(* To the dialler, nothing but HELLO before the acceptor is established,   *)
(* and CONFIRM_ESTABLISHED once.                                           *)
ToDialler ==
  /\ "HELLOBACK" \notin Arriving(reader["dialler"])
  /\ reader["dialler"].filled > 0 => reader["dialler"].buf.type # "HELLOBACK"
  /\ io["dialler"] = "rearm" => state["dialler"] = "UNPREPARED"
  /\ state["acceptor"] = "UNPREPARED" =>
       /\ state["dialler"] = "UNPREPARED"
       /\ sent["acceptor"] = <<>>
       /\ Arriving(reader["dialler"]) \subseteq {"HELLO"}
       /\ reader["dialler"].filled > 0 => reader["dialler"].buf.type = "HELLO"
  /\ OneConfirm(reader["dialler"])

(* e reads no more: its last read brought zeros to an established session, *)
(* or no read was armed.                                                   *)
Deaf(e) ==
  /\ reader[e].armed = 0
  /\ io[e] # "rearm"
  /\ \/ reader[e].filled = 0
     \/ state[e] = "ESTABLISHED" /\ reader[e].buf.type = "HELLO"

(* The dialler has lost CONFIRM_ESTABLISHED, and gives nothing to its app. *)
Unconfirmed(e) ==
  /\ e = "dialler"
  /\ state["dialler"] = "UNPREPARED"
  /\ state["acceptor"] = "ESTABLISHED"
  /\ NoConfirm(reader["dialler"])

(* Nothing for e is lost yet. *)
Whole(e) ==
  /\ Intact(reader[e], sent[Peer(e)], Len(got[e]))
  /\ e = "dialler" /\ state["dialler"] = "UNPREPARED" /\ state["acceptor"] = "ESTABLISHED" =>
       ConfirmDue(reader["dialler"])

Prefix(s, t) == Len(s) <= Len(t) /\ \A k \in 1..Len(s) : s[k] = t[k]

Delivery(e) ==
  /\ Prefix(got[e], sent[Peer(e)])
  /\ Deaf(e) \/ Unconfirmed(e) \/ Whole(e)

CalmInv ==
  /\ \A e \in Ends : writer[e].waiting = 0
  /\ \A e \in Ends : OneRead(e)
  /\ ToAcceptor
  /\ ToDialler
  /\ \A e \in Ends : Delivery(e)

IInv ==
  /\ TypeOK
  /\ ReaderLives
  /\ Calm => CalmInv
-----------------------------------------------------------------------------
(* Operators *)

(* There are two ends, and each is the other's peer. *)
LEMMA Peers ==
  ASSUME NEW e \in Ends
  PROVE  /\ Peer(e) \in Ends /\ Peer(e) # e /\ Peer(Peer(e)) = e
         /\ \A x \in Ends : x = e \/ x = Peer(e)
BY DEF Ends, Peer

(* The fields of a reader. *)
LEMMA Fields ==
  ASSUME NEW r \in Readers
  PROVE  /\ r.in \in Seq(Frames) /\ Len(r.in) \in Nat
         /\ r.buf \in Frames /\ r.armed \in Nat /\ r.filled \in Nat
BY DEF Readers

(* q is r with one read more that waits. *)
Waits(r, q) ==
  q.in = r.in /\ q.buf = r.buf /\ q.armed = r.armed + 1 /\ q.filled = r.filled

(* q is r with one read more that has found the first frame. *)
Finds(r, q) ==
  /\ r.armed = 0 /\ r.in # <<>>
  /\ q.in = Tail(r.in) /\ q.buf = Head(r.in) /\ q.armed = 0 /\ q.filled = r.filled + 1

(* StartReadingFrames does one or the other. *)
LEMMA Starts ==
  ASSUME NEW r \in Readers, NEW q \in StartReadingFrames(r)
  PROVE  /\ q \in Readers
         /\ Waits(r, q) \/ Finds(r, q)
         /\ Len(q.in) <= Len(r.in)
<1>1. CASE q = [r EXCEPT !.armed = @ + 1]
  BY <1>1 DEF Readers, Waits
<1>2. CASE r.armed = 0 /\ r.in # <<>> /\ q = Filled(r)
  <2>1. Head(r.in) \in Frames /\ Tail(r.in) \in Seq(Frames) /\ Len(Tail(r.in)) <= Len(r.in)
    BY <1>2 DEF Readers
  <2>2. q = [in |-> Tail(r.in), buf |-> Head(r.in), armed |-> r.armed, filled |-> r.filled + 1]
    BY <1>2, Zenon DEF Readers, Filled
  <2>3. r.armed \in Nat /\ r.filled + 1 \in Nat
    BY DEF Readers
  <2>4. q \in Readers
    BY <2>1, <2>2, <2>3 DEF Readers
  <2> QED
    BY <1>2, <2>1, <2>2, <2>4 DEF Finds
<1> QED
  BY <1>1, <1>2 DEF StartReadingFrames

(* What WriteMessageFrame does to the two ends. *)
LEMMA Writes ==
  ASSUME TypeOK, NEW e \in Ends, NEW f \in Frames
  PROVE  /\ Writing(e, f) \in Writers
         /\ Writing(e, f).waiting = IF Taken(e) THEN writer[e].waiting ELSE writer[e].waiting + 1
         /\ Reaching(e, f) \in Readers
         /\ Reaching(e, f).in = IF Taken(e) THEN Append(reader[Peer(e)].in, f)
                                ELSE reader[Peer(e)].in
         /\ Reaching(e, f).buf = reader[Peer(e)].buf
         /\ Reaching(e, f).armed = reader[Peer(e)].armed
         /\ Reaching(e, f).filled = reader[Peer(e)].filled
         /\ Len(Reaching(e, f).in) <= Window
<1>1. writer[e] \in Writers /\ reader[Peer(e)] \in Readers /\ Len(reader[Peer(e)].in) <= Window
  BY Peers, Zenon DEF TypeOK
<1> DEFINE w == writer[e]
           r == reader[Peer(e)]
<1>2. Writing(e, f) = [buf |-> f, erased |-> w.erased,
                       waiting   |-> IF Taken(e) THEN w.waiting ELSE w.waiting + 1,
                       completed |-> IF Taken(e) THEN w.completed + 1 ELSE w.completed]
  <2>1. CASE Taken(e)
    BY <1>1, <2>1, Zenon DEF Writing, Writers
  <2>2. CASE ~Taken(e)
    BY <1>1, <2>2, Zenon DEF Writing, Writers
  <2> QED
    BY <2>1, <2>2
<1>3. w.erased \in {"yes", "no"} /\ w.waiting \in Nat /\ w.completed \in Nat
  BY <1>1 DEF Writers
<1>4. Writing(e, f) \in Writers
  <2> HIDE DEF w
  <2> QED
    BY <1>2, <1>3 DEF Writers
<1>5. Reaching(e, f) = [in |-> IF Taken(e) THEN Append(r.in, f) ELSE r.in, buf |-> r.buf,
                        armed |-> r.armed, filled |-> r.filled]
  BY <1>1, SMTT(60) DEF Reaching, Readers
<1>6. r.in \in Seq(Frames) /\ r.buf \in Frames /\ r.armed \in Nat /\ r.filled \in Nat
  BY <1>1 DEF Readers
<1>7. Taken(e) => Len(r.in) < Window
  BY DEF Taken, Room
<1>8. Reaching(e, f) \in Readers /\ Len(Reaching(e, f).in) <= Window
  <2> HIDE DEF r
  <2> QED
    BY <1>1, <1>5, <1>6, <1>7, BoundsAssumption DEF Readers, r
<1> QED
  BY <1>2, <1>4, <1>5, <1>8

(* q is r without the frame whose callback runs. *)
Took(r, q) ==
  q.in = r.in /\ q.buf = r.buf /\ q.armed = r.armed /\ r.filled > 0 /\ q.filled = r.filled - 1

(* q is r with a buffer of zeros. *)
Cleared(r, q) ==
  q.in = r.in /\ q.buf = Zeros /\ q.armed = r.armed /\ q.filled = r.filled

(* q is r with frame f behind the others. *)
Gets(r, q, f) ==
  q.in = Append(r.in, f) /\ q.buf = r.buf /\ q.armed = r.armed /\ q.filled = r.filled

(* The reader a callback starts with. *)
LEMMA Reads ==
  ASSUME TypeOK, NEW e \in Ends, reader[e].filled > 0
  PROVE  Read(e) \in Readers /\ Took(reader[e], Read(e))
<1>1. reader[e] \in Readers
  BY Zenon DEF TypeOK
<1> QED
  BY <1>1 DEF Read, Readers, Took

(* Zeros are a frame, and so is what the program writes. *)
LEMMA FramesTyped ==
  /\ Zeros \in Frames /\ Zeros.type = "HELLO"
  /\ \A t \in Types, n \in Nat : /\ Frame(t, n) \in Frames
                                 /\ Frame(t, n).type = t /\ Frame(t, n).id = n
BY DEF Zeros, Frame, Frames, Types

(* ClearReadBuffer leaves all but the buffer. *)
LEMMA Clears ==
  ASSUME NEW r \in Readers
  PROVE  ClearReadBuffer(r) \in Readers /\ Cleared(r, ClearReadBuffer(r))
BY FramesTyped DEF ClearReadBuffer, Readers, Cleared
-----------------------------------------------------------------------------
(* What the actions do to the two readers *)

(* q is r with its oldest read filled. *)
Fills(r, q) ==
  /\ r.armed > 0 /\ r.in # <<>>
  /\ q.in = Tail(r.in) /\ q.buf = Head(r.in) /\ q.armed = r.armed - 1 /\ q.filled = r.filled + 1

(* What FillRead makes of a reader. *)
LEMMA Fill ==
  ASSUME NEW r \in Readers, r.armed > 0, r.in # <<>>,
         NEW q, q = [Filled(r) EXCEPT !.armed = r.armed - 1]
  PROVE  q \in Readers /\ Fills(r, q) /\ Len(q.in) <= Len(r.in)
<1>1. /\ r.armed \in Nat /\ r.filled \in Nat /\ Head(r.in) \in Frames
      /\ Tail(r.in) \in Seq(Frames) /\ Len(Tail(r.in)) <= Len(r.in)
  BY DEF Readers
<1>2. q = [in |-> Tail(r.in), buf |-> Head(r.in), armed |-> r.armed - 1, filled |-> r.filled + 1]
  BY Zenon DEF Readers, Filled
<1>3. r.armed - 1 \in Nat /\ r.filled + 1 \in Nat
  BY <1>1
<1>4. q \in Readers
  BY ONLY <1>1, <1>2, <1>3 DEF Readers
<1>5. r.armed > 0 /\ r.in # <<>>
  OBVIOUS
<1> QED
  BY ONLY <1>1, <1>2, <1>4, <1>5 DEF Fills

(* FillRead moves the first frame into the buffer. *)
LEMMA FillReadEffect ==
  ASSUME TypeOK, NEW e \in Ends, FillRead(e)
  PROVE  /\ reader' \in [Ends -> Readers] /\ \A x \in Ends : Len(reader'[x].in) <= Window
         /\ Fills(reader[e], reader'[e]) /\ reader'[Peer(e)] = reader[Peer(e)]
<1>1. reader[e] \in Readers /\ Len(reader[e].in) <= Window
  BY Zenon DEF TypeOK
<1>2. PICK q : q = [Filled(reader[e]) EXCEPT !.armed = reader[e].armed - 1]
  BY Zenon
<1>3. reader' = [reader EXCEPT ![e] = q] /\ reader[e].armed > 0 /\ reader[e].in # <<>>
  BY <1>2, Zenon DEF FillRead
<1>4. q \in Readers /\ Fills(reader[e], q) /\ Len(q.in) <= Len(reader[e].in)
  BY <1>1, <1>2, <1>3, Fill, Zenon
<1>5. reader'[e] = q /\ reader'[Peer(e)] = reader[Peer(e)]
  BY <1>3, Peers, Zenon DEF TypeOK
<1>6. Len(q.in) <= Window
  <2>1. Len(q.in) \in Nat /\ Len(reader[e].in) \in Nat
    BY <1>1, <1>4 DEF Readers
  <2> QED
    BY <1>1, <1>4, <2>1, BoundsAssumption
<1> QED
  BY <1>3, <1>4, <1>5, <1>6, Peers, Zenon DEF TypeOK

(* WriteMessageFrame(f) by a handler that has taken a frame. *)
LEMMA WriteEffect ==
  ASSUME TypeOK, NEW e \in Ends, NEW f \in Frames,
         reader[e].filled > 0,
         reader' = [reader EXCEPT ![e] = Read(e), ![Peer(e)] = Reaching(e, f)]
  PROVE  /\ reader' \in [Ends -> Readers] /\ \A x \in Ends : Len(reader'[x].in) <= Window
         /\ Took(reader[e], reader'[e])
         /\ Taken(e) => Gets(reader[Peer(e)], reader'[Peer(e)], f)
         /\ reader'[Peer(e)].armed = reader[Peer(e)].armed
         /\ reader'[Peer(e)].filled = reader[Peer(e)].filled
<1>1. Read(e) \in Readers /\ Took(reader[e], Read(e))
  BY Reads
<1>2. Len(Read(e).in) <= Window
  BY <1>1, Zenon DEF TypeOK, Took
<1>3. reader'[e] = Read(e) /\ reader'[Peer(e)] = Reaching(e, f)
  BY Peers, Zenon DEF TypeOK
<1> QED
  BY <1>1, <1>2, <1>3, Writes, Peers, Zenon DEF TypeOK, Gets

(* A callback that arms a read and clears the buffer. *)
LEMMA RearmEffect ==
  ASSUME TypeOK, NEW e \in Ends, NEW b \in Readers, NEW r \in StartReadingFrames(b),
         b.in = reader[e].in,
         reader' = [reader EXCEPT ![e] = ClearReadBuffer(r)]
  PROVE  /\ reader' \in [Ends -> Readers] /\ \A x \in Ends : Len(reader'[x].in) <= Window
         /\ Cleared(r, reader'[e])
         /\ r \in Readers /\ (Waits(b, r) \/ Finds(b, r))
         /\ reader'[Peer(e)] = reader[Peer(e)]
<1>1. r \in Readers /\ (Waits(b, r) \/ Finds(b, r)) /\ Len(r.in) <= Len(b.in)
  BY Starts
<1>2. ClearReadBuffer(r) \in Readers /\ Cleared(r, ClearReadBuffer(r))
  BY <1>1, Clears
<1>3. Len(r.in) \in Nat /\ Len(b.in) \in Nat /\ Len(b.in) <= Window
  BY <1>1, Fields, Zenon DEF TypeOK
<1>4. Len(ClearReadBuffer(r).in) <= Window
  BY <1>1, <1>2, <1>3, BoundsAssumption DEF Cleared
<1>5. reader'[e] = ClearReadBuffer(r) /\ reader'[Peer(e)] = reader[Peer(e)]
  BY Peers, Zenon DEF TypeOK
<1> QED
  BY <1>1, <1>2, <1>4, <1>5, Peers, Zenon DEF TypeOK

(* A callback that keeps what the read it arms has found. *)
LEMMA KeepEffect ==
  ASSUME TypeOK, NEW e \in Ends, NEW b \in Readers, NEW r \in StartReadingFrames(b),
         b.in = reader[e].in,
         reader' = [reader EXCEPT ![e] = r]
  PROVE  /\ reader' \in [Ends -> Readers] /\ \A x \in Ends : Len(reader'[x].in) <= Window
         /\ reader'[e] = r
         /\ Waits(b, r) \/ Finds(b, r)
         /\ reader'[Peer(e)] = reader[Peer(e)]
<1>1. r \in Readers /\ (Waits(b, r) \/ Finds(b, r)) /\ Len(r.in) <= Len(b.in)
  BY Starts
<1>2. Len(r.in) \in Nat /\ Len(b.in) \in Nat /\ Len(b.in) <= Window
  BY <1>1, Fields, Zenon DEF TypeOK
<1>3. Len(r.in) <= Window
  BY <1>1, <1>2, BoundsAssumption
<1>4. reader'[e] = r /\ reader'[Peer(e)] = reader[Peer(e)]
  BY Peers, Zenon DEF TypeOK
<1> QED
  BY <1>1, <1>3, <1>4, Peers, Zenon DEF TypeOK

(* WriteMessageFrame(f) by the user. *)
LEMMA SendEffect ==
  ASSUME TypeOK, NEW e \in Ends, NEW f \in Frames,
         reader' = [reader EXCEPT ![Peer(e)] = Reaching(e, f)]
  PROVE  /\ reader' \in [Ends -> Readers] /\ \A x \in Ends : Len(reader'[x].in) <= Window
         /\ reader'[e] = reader[e]
         /\ Taken(e) => Gets(reader[Peer(e)], reader'[Peer(e)], f)
         /\ reader'[Peer(e)].armed = reader[Peer(e)].armed
         /\ reader'[Peer(e)].filled = reader[Peer(e)].filled
<1>1. reader'[e] = reader[e] /\ reader'[Peer(e)] = Reaching(e, f)
  BY Peers, Zenon DEF TypeOK
<1> QED
  BY <1>1, Writes, Peers, Zenon DEF TypeOK, Gets

(* A frame the kernel takes from another buffer, or later. *)
LEMMA OfferEffect ==
  ASSUME TypeOK, NEW e \in Ends, NEW f \in Frames, Room(e),
         reader' = [reader EXCEPT ![Peer(e)].in = Append(@, f)]
  PROVE  /\ reader' \in [Ends -> Readers] /\ \A x \in Ends : Len(reader'[x].in) <= Window
         /\ reader'[e] = reader[e]
         /\ Gets(reader[Peer(e)], reader'[Peer(e)], f)
<1>1. PICK r \in Readers : r = reader[Peer(e)]
  BY Peers, Zenon DEF TypeOK
<1>2. reader' = [reader EXCEPT ![Peer(e)] = [r EXCEPT !.in = Append(r.in, f)]]
  BY <1>1
<1>3. PICK q : q = [r EXCEPT !.in = Append(r.in, f)]
  BY Zenon
<1>4. q \in Readers /\ Gets(r, q, f)
  <2>1. q = [in |-> Append(r.in, f), buf |-> r.buf, armed |-> r.armed, filled |-> r.filled]
    BY ONLY <1>3, r \in Readers, Zenon DEF Readers
  <2>2. Append(r.in, f) \in Seq(Frames)
    BY Fields
  <2> QED
    BY ONLY <2>1, <2>2, r \in Readers, Fields DEF Readers, Gets
<1>5. Len(q.in) <= Window
  <2>1. Len(r.in) < Window
    BY <1>1 DEF Room
  <2>2. r.in \in Seq(Frames) /\ q.in = Append(r.in, f)
    BY <1>1, <1>4 DEF Readers, Gets
  <2> QED
    BY <2>1, <2>2, BoundsAssumption
<1>6. reader'[e] = reader[e] /\ reader'[Peer(e)] = q
  BY <1>2, <1>3, Peers, Zenon DEF TypeOK
<1>7. reader' \in [Ends -> Readers]
  BY <1>2, <1>3, <1>4, Peers, ZenonT(60) DEF TypeOK
<1>8. \A x \in Ends : Len(reader'[x].in) <= Window
  BY <1>5, <1>6, Peers, Zenon DEF TypeOK
<1> QED
  BY <1>1, <1>4, <1>6, <1>7, <1>8, Zenon
-----------------------------------------------------------------------------
(* Types *)

(* The readers are typed. *)
ReaderOK == reader \in [Ends -> Readers] /\ \A e \in Ends : Len(reader[e].in) <= Window

(* The rest is. *)
OthersOK ==
  /\ state \in [Ends -> {"UNPREPARED", "ESTABLISHED"}]
  /\ io \in [Ends -> {"idle", "rearm", "chunks", "aborted"}]
  /\ sent \in [Ends -> Seq(Frames)]
  /\ got \in [Ends -> Seq(Frames)]
  /\ upsets \subseteq {"waited", "read ahead", "early", "mistaken", "stray",
                 "twice", "marked", "assert"}

(* A chat in which the second look finds no file frame is handed over once, *)
(* and the read that was armed for it is cleared.                          *)
LEMMA PlainChat ==
  ASSUME NEW e \in Ends, OnReceiveChatMessageFrame(e),
         "twice" \notin upsets', "marked" \notin upsets'
  PROVE  \E r \in StartReadingFrames(Read(e)) :
           /\ reader' = [reader EXCEPT ![e] = ClearReadBuffer(r)]
           /\ got' = [got EXCEPT ![e] = Append(@, reader[e].buf)]
           /\ AheadUpset(Read(e), r)
           /\ UNCHANGED io
BY Zenon DEF OnReceiveChatMessageFrame, Upset

(* What the program writes are frames. *)
LEMMA Written ==
  /\ Frame("HELLOBACK", 0) \in Frames /\ Frame("CONFIRM", 0) \in Frames
  /\ Frame("HELLOBACK", 0).type = "HELLOBACK" /\ Frame("CONFIRM", 0).type = "CONFIRM"
BY DEF Frame, Frames, Types

(* What users send are frames with their number. *)
LEMMA SentFrames ==
  ASSUME TypeOK, NEW e \in Ends, NEW t \in Data
  PROVE  /\ Frame(t, Len(sent[e]) + 1) \in Frames
         /\ Frame(t, Len(sent[e]) + 1).type = t
         /\ Frame(t, Len(sent[e]) + 1).id = Len(sent[e]) + 1
<1>1. sent[e] \in Seq(Frames)
  BY Zenon DEF TypeOK
<1>2. Len(sent[e]) + 1 \in Nat
  BY <1>1
<1> QED
  BY ONLY <1>2, t \in Data DEF Frame, Frames, Types, Data

(* Every step keeps the readers typed. *)
LEMMA ReadersStep ==
  ASSUME TypeOK, NEW e \in Ends,
         Works(e) \/ SendDataToNode(e) \/ SendFileOffer(e) \/ AssertFails(e)
  PROVE  ReaderOK'
<1>a. reader[e] \in Readers /\ writer[e].buf \in Frames
  BY Zenon DEF TypeOK, Writers
<1>b. ASSUME NEW s, NEW types, Called(e, s, types)
      PROVE  reader[e].filled > 0 /\ Read(e) \in Readers /\ Read(e).in = reader[e].in
  <2>1. reader[e].filled > 0
    BY <1>b DEF Called
  <2> QED
    BY <2>1, Reads DEF Took
<1>c. ASSUME UNCHANGED reader PROVE ReaderOK'
  BY <1>c, Zenon DEF ReaderOK, TypeOK
<1>1. CASE FillRead(e)
  BY <1>1, FillReadEffect, Zenon DEF ReaderOK
<1>2. CASE FlushWrite(e)
  BY <1>2, <1>a, OfferEffect, Zenon DEF FlushWrite, ReaderOK
<1>3. CASE WriteMessageFrameCallback(e)
  BY <1>3, <1>c, Zenon DEF WriteMessageFrameCallback
<1>4. CASE OnReceiveHelloFrame(e)
  BY <1>4, <1>b, WriteEffect, Written, Zenon DEF OnReceiveHelloFrame, ReaderOK
<1>5. CASE OnReceiveHelloBackFrame(e)
  BY <1>5, <1>b, WriteEffect, Written, Zenon DEF OnReceiveHelloBackFrame, ReaderOK
<1>6. CASE Rearm(e)
  <2>1. PICK r \in StartReadingFrames(reader[e]) :
          reader' = [reader EXCEPT ![e] = ClearReadBuffer(r)]
    BY <1>6, Zenon DEF Rearm
  <2> QED
    BY <2>1, <1>a, RearmEffect, Zenon DEF ReaderOK
<1>7. CASE OnReceiveConfirmEstablished(e)
  <2>1. PICK r \in StartReadingFrames(Read(e)) :
          reader' = [reader EXCEPT ![e] = ClearReadBuffer(r)]
    BY <1>7, Zenon DEF OnReceiveConfirmEstablished
  <2>2. Read(e) \in Readers /\ Read(e).in = reader[e].in
    BY <1>7, <1>b, Zenon DEF OnReceiveConfirmEstablished
  <2> QED
    BY <2>1, <2>2, RearmEffect, Zenon DEF ReaderOK
<1>8. CASE IgnoreFrame(e)
  <2>1. Read(e) \in Readers /\ Read(e).in = reader[e].in
    BY <1>8, <1>b, Zenon DEF IgnoreFrame
  <2>2. reader' = [reader EXCEPT ![e] = ClearReadBuffer(Read(e))]
    BY <1>8, Zenon DEF IgnoreFrame
  <2>3. ClearReadBuffer(Read(e)) \in Readers /\ ClearReadBuffer(Read(e)).in = reader[e].in
    BY <2>1, Clears, Zenon DEF Cleared
  <2> QED
    BY <2>2, <2>3, Zenon DEF TypeOK, ReaderOK
<1>9. CASE OnReceiveChatMessageFrame(e)
  <2>1. Read(e) \in Readers /\ Read(e).in = reader[e].in
    BY <1>9, <1>b, Zenon DEF OnReceiveChatMessageFrame
  <2>2. PICK r \in StartReadingFrames(Read(e)) :
          \/ reader' = [reader EXCEPT ![e] = ClearReadBuffer(r)]
          \/ \E q \in StartReadingFrames(r) : reader' = [reader EXCEPT ![e] = q]
    BY <1>9, Zenon DEF OnReceiveChatMessageFrame
  <2>3. CASE reader' = [reader EXCEPT ![e] = ClearReadBuffer(r)]
    BY <2>1, <2>3, RearmEffect, Zenon DEF ReaderOK
  <2>4. ASSUME NEW q \in StartReadingFrames(r), reader' = [reader EXCEPT ![e] = q]
        PROVE  ReaderOK'
    <3>1. r \in Readers /\ q \in Readers /\ Len(r.in) <= Len(Read(e).in) /\ Len(q.in) <= Len(r.in)
      BY <2>1, <2>4, Starts, Zenon
    <3>2. Len(r.in) \in Nat /\ Len(q.in) \in Nat /\ Len(Read(e).in) \in Nat /\ Len(Read(e).in) <= Window
      BY <3>1, <2>1, Fields, Zenon DEF TypeOK
    <3>3. Len(q.in) <= Window
      BY <3>1, <3>2, BoundsAssumption
    <3> QED
      BY <2>4, <3>1, <3>3, Zenon DEF TypeOK, ReaderOK
  <2> QED
    BY <2>2, <2>3, <2>4, Zenon
<1>10. CASE OnReceiveFileOffer(e)
  <2>1. Read(e) \in Readers /\ Read(e).in = reader[e].in
    BY <1>10, <1>b, Zenon DEF OnReceiveFileOffer
  <2>2. PICK r \in StartReadingFrames(Read(e)) : reader' = [reader EXCEPT ![e] = r]
    BY <1>10, Zenon DEF OnReceiveFileOffer
  <2> QED
    BY <2>1, <2>2, KeepEffect, Zenon DEF ReaderOK
<1>11. CASE SendDataToNode(e)
  BY <1>11, SentFrames, SendEffect, Zenon DEF SendDataToNode, ReaderOK, Data
<1>12. CASE SendFileOffer(e)
  BY <1>12, SentFrames, OfferEffect, Zenon DEF SendFileOffer, ReaderOK, Data
<1>13. CASE AssertFails(e)
  BY <1>13, <1>c, Zenon DEF AssertFails
<1> QED
  BY <1>1, <1>2, <1>3, <1>4, <1>5, <1>6, <1>7, <1>8, <1>9, <1>10, <1>11, <1>12, <1>13, Zenon
     DEF Works

(* Every step keeps the writers typed. *)
LEMMA WritersStep ==
  ASSUME TypeOK, NEW e \in Ends,
         Works(e) \/ SendDataToNode(e) \/ SendFileOffer(e) \/ AssertFails(e)
  PROVE  writer' \in [Ends -> Writers]
<1>a. writer[e] \in Writers
  BY Zenon DEF TypeOK
<1>b. ASSUME UNCHANGED writer PROVE writer' \in [Ends -> Writers]
  BY <1>b, Zenon DEF TypeOK
<1>c. ASSUME NEW w \in Writers, writer' = [writer EXCEPT ![e] = w]
      PROVE  writer' \in [Ends -> Writers]
  BY <1>c, Zenon DEF TypeOK
<1>1. CASE FlushWrite(e)
  <2>1. PICK w \in Writers : w = writer[e]
    BY <1>a
  <2>2. PICK v : v = [w EXCEPT !.waiting = w.waiting - 1, !.completed = w.completed + 1]
    OBVIOUS
  <2>3. w.waiting > 0 /\ writer' = [writer EXCEPT ![e] = v]
    BY <1>1, <2>1, <2>2, Zenon DEF FlushWrite
  <2>4. v = [buf |-> w.buf, erased |-> w.erased, waiting |-> w.waiting - 1,
             completed |-> w.completed + 1]
    BY ONLY <2>2, w \in Writers, Zenon DEF Writers
  <2>5. /\ w.buf \in Frames /\ w.erased \in {"yes", "no"} /\ w.waiting - 1 \in Nat
        /\ w.completed + 1 \in Nat
    BY ONLY <2>3, w \in Writers DEF Writers
  <2>6. v \in Writers
    BY ONLY <2>4, <2>5 DEF Writers
  <2> QED
    BY <1>c, <2>3, <2>6, Zenon
<1>2. CASE WriteMessageFrameCallback(e)
  <2>1. PICK w \in Writers : w = writer[e]
    BY <1>a
  <2>2. PICK v : v = [w EXCEPT !.completed = w.completed - 1, !.buf = Zeros, !.erased = "no"]
    OBVIOUS
  <2>3. w.completed > 0 /\ writer' = [writer EXCEPT ![e] = v]
    BY <1>2, <2>1, <2>2, Zenon DEF WriteMessageFrameCallback
  <2>4. v = [buf |-> Zeros, erased |-> "no", waiting |-> w.waiting, completed |-> w.completed - 1]
    BY ONLY <2>2, w \in Writers, Zenon DEF Writers
  <2>5. w.waiting \in Nat /\ w.completed - 1 \in Nat
    BY ONLY <2>3, w \in Writers DEF Writers
  <2>6. v \in Writers
    BY ONLY <2>4, <2>5, FramesTyped DEF Writers
  <2> QED
    BY <1>c, <2>3, <2>6, Zenon
<1>3. CASE OnReceiveHelloFrame(e)
  <2>1. PICK w \in Writers : w = Writing(e, Frame("HELLOBACK", 0))
    BY Written, Writes, Zenon
  <2>2. [w EXCEPT !.erased = "yes"] \in Writers
    BY DEF Writers
  <2>3. writer' = [writer EXCEPT ![e] = [w EXCEPT !.erased = "yes"]]
    BY <1>3, <2>1, Zenon DEF OnReceiveHelloFrame
  <2> QED
    BY <1>c, <2>2, <2>3, Zenon
<1>4. CASE OnReceiveHelloBackFrame(e)
  BY <1>4, <1>c, Written, Writes, Zenon DEF OnReceiveHelloBackFrame
<1>5. CASE SendDataToNode(e)
  BY <1>5, <1>c, SentFrames, Writes, Zenon DEF SendDataToNode, Data
<1>6. CASE FillRead(e) \/ Rearm(e) \/ OnReceiveConfirmEstablished(e) \/ IgnoreFrame(e)
           \/ OnReceiveChatMessageFrame(e) \/ OnReceiveFileOffer(e) \/ SendFileOffer(e)
           \/ AssertFails(e)
  BY <1>6, <1>b, Zenon DEF FillRead, Rearm, OnReceiveConfirmEstablished, IgnoreFrame,
     OnReceiveChatMessageFrame, OnReceiveFileOffer, SendFileOffer, AssertFails
<1> QED
  BY <1>1, <1>2, <1>3, <1>4, <1>5, <1>6, Zenon DEF Works

(* Every step keeps the rest typed. *)
LEMMA OthersStep ==
  ASSUME TypeOK, NEW e \in Ends,
         Works(e) \/ SendDataToNode(e) \/ SendFileOffer(e) \/ AssertFails(e)
  PROVE  OthersOK'
<1>a. ASSUME NEW s \in {"UNPREPARED", "ESTABLISHED"} PROVE [state EXCEPT ![e] = s] \in [Ends -> {"UNPREPARED", "ESTABLISHED"}]
  BY Zenon DEF TypeOK
<1>b. ASSUME NEW s \in {"idle", "rearm", "chunks", "aborted"}
      PROVE  [io EXCEPT ![e] = s] \in [Ends -> {"idle", "rearm", "chunks", "aborted"}]
  BY Zenon DEF TypeOK
<1>c. ASSUME NEW f \in Frames PROVE [sent EXCEPT ![e] = Append(@, f)] \in [Ends -> Seq(Frames)]
  <2>1. sent[e] \in Seq(Frames)
    BY Zenon DEF TypeOK
  <2>2. Append(sent[e], f) \in Seq(Frames)
    BY <2>1
  <2> QED
    BY <2>2, Zenon DEF TypeOK
<1>d. ASSUME NEW f \in Frames PROVE [got EXCEPT ![e] = Append(@, f)] \in [Ends -> Seq(Frames)]
  <2>1. got[e] \in Seq(Frames)
    BY Zenon DEF TypeOK
  <2>2. Append(got[e], f) \in Seq(Frames)
    BY <2>1
  <2> QED
    BY <2>2, Zenon DEF TypeOK
<1>e. reader[e] \in Readers /\ reader[e].buf \in Frames
  BY Fields, Zenon DEF TypeOK
<1>1. CASE FillRead(e) \/ FlushWrite(e) \/ WriteMessageFrameCallback(e)
  BY <1>1, Zenon DEF FillRead, FlushWrite, WriteMessageFrameCallback, TypeOK, OthersOK
<1>2. CASE OnReceiveHelloFrame(e)
  BY <1>2, <1>b, Zenon DEF OnReceiveHelloFrame, WaitUpset, Upset, TypeOK, OthersOK
<1>3. CASE OnReceiveHelloBackFrame(e)
  BY <1>3, <1>a, <1>b, Zenon DEF OnReceiveHelloBackFrame, Upset, TypeOK, OthersOK
<1>4. CASE Rearm(e)
  BY <1>4, <1>b, Zenon DEF Rearm, AheadUpset, Upset, TypeOK, OthersOK
<1>5. CASE OnReceiveConfirmEstablished(e)
  BY <1>5, <1>a, Zenon DEF OnReceiveConfirmEstablished, AheadUpset, Upset, TypeOK, OthersOK
<1>6. CASE IgnoreFrame(e)
  BY <1>6, Zenon DEF IgnoreFrame, Upset, TypeOK, OthersOK
<1>7. CASE OnReceiveChatMessageFrame(e)
  <2>1. Read(e) \in Readers
    BY <1>7, Reads DEF OnReceiveChatMessageFrame, Called
  <2>2. PICK r \in StartReadingFrames(Read(e)) :
          \/ /\ got' = [got EXCEPT ![e] = @ \o <<reader[e].buf, AsFileFrame(r.buf)>>]
             /\ upsets' = upsets \cup {IF r.buf.type = "OFFER" THEN "twice" ELSE "marked"}
             /\ UNCHANGED io \/ io' = [io EXCEPT ![e] = "chunks"]
          \/ /\ got' = [got EXCEPT ![e] = Append(@, reader[e].buf)]
             /\ AheadUpset(Read(e), r)
             /\ UNCHANGED io
    BY <1>7, Zenon DEF OnReceiveChatMessageFrame, Upset
  <2>3. AsFileFrame(r.buf) \in Frames
    <3>1. r.buf \in Frames
      BY <2>1, Starts, Fields, Zenon
    <3>2. Frame("OFFER", 0) \in Frames
      BY DEF Frame, Frames, Types
    <3> QED
      BY <3>1, <3>2, Zenon DEF AsFileFrame
  <2>4. got' \in [Ends -> Seq(Frames)]
    <3>1. got[e] \in Seq(Frames)
      BY Zenon DEF TypeOK
    <3>2. got[e] \o <<reader[e].buf, AsFileFrame(r.buf)>> \in Seq(Frames)
      BY ONLY <1>e, <2>3, <3>1
    <3> QED
      BY <1>d, <1>e, <2>2, <3>2, ZenonT(60) DEF TypeOK
  <2>5. upsets' \subseteq {"waited", "read ahead", "early", "mistaken", "stray", "twice", "marked",
                           "assert"}
    BY <2>2, Zenon DEF TypeOK, AheadUpset, Upset
  <2>6. UNCHANGED <<state, sent>>
    BY <1>7, Zenon DEF OnReceiveChatMessageFrame
  <2>7. io' \in [Ends -> {"idle", "rearm", "chunks", "aborted"}]
    BY <1>b, <2>2, Zenon DEF TypeOK
  <2> QED
    BY <2>4, <2>5, <2>6, <2>7, Zenon DEF TypeOK, OthersOK
<1>8. CASE OnReceiveFileOffer(e)
  BY <1>8, <1>d, <1>e, Zenon DEF OnReceiveFileOffer, TypeOK, OthersOK
<1>9. CASE SendDataToNode(e)
  <2>1. sent' \in [Ends -> Seq(Frames)]
    BY <1>9, <1>c, SentFrames, Zenon DEF SendDataToNode, Data
  <2> QED
    BY <1>9, <2>1, Zenon DEF SendDataToNode, WaitUpset, Upset, TypeOK, OthersOK
<1>10. CASE SendFileOffer(e)
  <2>1. sent' \in [Ends -> Seq(Frames)]
    BY <1>10, <1>c, SentFrames, Zenon DEF SendFileOffer, Data
  <2> QED
    BY <1>10, <2>1, Zenon DEF SendFileOffer, TypeOK, OthersOK
<1>11. CASE AssertFails(e)
  BY <1>11, <1>b, Zenon DEF AssertFails, Upset, TypeOK, OthersOK
<1> QED
  BY <1>1, <1>2, <1>3, <1>4, <1>5, <1>6, <1>7, <1>8, <1>9, <1>10, <1>11, Zenon DEF Works

(* The session starts typed. *)
LEMMA InitTypeOK == Init => TypeOK
<1> SUFFICES ASSUME Init PROVE TypeOK
  OBVIOUS
<1>1. Frame("HELLO", 0) \in Frames /\ Zeros \in Frames
  BY DEF Frame, Frames, Types, Zeros
<1>2. writer \in [Ends -> Writers]
  BY <1>1 DEF Init, Writers
<1>3. reader \in [Ends -> Readers] /\ \A e \in Ends : Len(reader[e].in) <= Window
  <2> DEFINE start(e) == IF e = "dialler" THEN <<Frame("HELLO", 0)>> ELSE <<>>
  <2>1. \A e \in Ends : start(e) \in Seq(Frames) /\ Len(start(e)) <= Window
    BY <1>1, BoundsAssumption
  <2>2. reader = [e \in Ends |-> [in |-> start(e), buf |-> Zeros, armed |-> 1, filled |-> 0]]
    BY DEF Init
  <2> HIDE DEF start
  <2>3. \A e \in Ends : [in |-> start(e), buf |-> Zeros, armed |-> 1, filled |-> 0] \in Readers
    BY <1>1, <2>1 DEF Readers
  <2> QED
    BY <2>1, <2>2, <2>3
<1> QED
  BY <1>2, <1>3 DEF Init, TypeOK

(* Every step keeps the types. *)
LEMMA StepTypeOK == TypeOK /\ [Next]_vars => TypeOK'
<1> SUFFICES ASSUME TypeOK, [Next]_vars PROVE TypeOK'
  OBVIOUS
<1>1. CASE UNCHANGED vars
  BY <1>1, Zenon DEF vars, TypeOK
<1>2. CASE Next
  <2>1. PICK e \in Ends : Works(e) \/ SendDataToNode(e) \/ SendFileOffer(e) \/ AssertFails(e)
    BY <1>2, Zenon DEF Next
  <2>2. ReaderOK' /\ writer' \in [Ends -> Writers] /\ OthersOK'
    BY <2>1, ReadersStep, WritersStep, OthersStep, Zenon
  <2> QED
    BY <2>2, Zenon DEF TypeOK, ReaderOK, OthersOK
<1> QED
  BY <1>1, <1>2

(* The state of both sessions, their buffers and the number of their       *)
(* operations stay in range, however many frames are sent, and a           *)
(* connection never holds more than the kernel takes.                      *)
THEOREM TypeCorrect == Spec => []TypeOK
<1> QED
  BY InitTypeOK, StepTypeOK, PTL DEF Spec
-----------------------------------------------------------------------------
(* A read is outstanding *)

(* How many reads of r are. *)
Outstanding(r) == r.armed + r.filled

(* What the ways to change a reader do to the number. *)
LEMMA Counts ==
  ASSUME NEW r \in Readers, NEW q \in Readers
  PROVE  /\ Waits(r, q) => Outstanding(q) = Outstanding(r) + 1
         /\ Finds(r, q) => Outstanding(q) = Outstanding(r) + 1 /\ q.filled > r.filled
         /\ Fills(r, q) => Outstanding(q) = Outstanding(r)
         /\ Took(r, q) => Outstanding(r) = Outstanding(q) + 1
         /\ Cleared(r, q) => Outstanding(q) = Outstanding(r)
         /\ q.armed = r.armed /\ q.filled = r.filled => Outstanding(q) = Outstanding(r)
         /\ Outstanding(q) \in Nat
<1>1. r.armed \in Nat /\ r.filled \in Nat /\ q.armed \in Nat /\ q.filled \in Nat
  BY Fields
<1>2. ASSUME Waits(r, q) PROVE Outstanding(q) = Outstanding(r) + 1
  BY ONLY <1>1, <1>2 DEF Waits, Outstanding
<1>3. ASSUME Finds(r, q) PROVE Outstanding(q) = Outstanding(r) + 1 /\ q.filled > r.filled
  BY ONLY <1>1, <1>3 DEF Finds, Outstanding
<1>4. ASSUME Fills(r, q) PROVE Outstanding(q) = Outstanding(r)
  BY ONLY <1>1, <1>4 DEF Fills, Outstanding
<1>5. ASSUME Took(r, q) PROVE Outstanding(r) = Outstanding(q) + 1
  BY ONLY <1>1, <1>5 DEF Took, Outstanding
<1>6. ASSUME Cleared(r, q) PROVE Outstanding(q) = Outstanding(r)
  BY ONLY <1>1, <1>6 DEF Cleared, Outstanding
<1>7. q.armed = r.armed /\ q.filled = r.filled => Outstanding(q) = Outstanding(r)
  BY ONLY <1>1 DEF Outstanding
<1>8. Outstanding(q) \in Nat
  BY ONLY <1>1 DEF Outstanding
<1> QED
  BY <1>2, <1>3, <1>4, <1>5, <1>6, <1>7, <1>8, Zenon

(* A session that nothing has upset has one read, or none while a handler  *)
(* is about to arm it.                                                     *)
LEMMA LivesStep ==
  ASSUME TypeOK, TypeOK', ReaderLives, NEW e \in Ends,
         Works(e) \/ SendDataToNode(e) \/ SendFileOffer(e) \/ AssertFails(e)
  PROVE  ReaderLives'
<1> DEFINE p == Peer(e)
           n(x) == IF io[x] = "rearm" THEN 0 ELSE 1
<1> SUFFICES ASSUME upsets' = {}
             PROVE  \A x \in Ends : Outstanding(reader'[x]) = IF io'[x] = "rearm" THEN 0 ELSE 1
  BY Zenon DEF ReaderLives, Outstanding
<1>a. p \in Ends /\ p # e /\ \A x \in Ends : x = e \/ x = p
  BY Peers
<1>b. /\ reader[e] \in Readers /\ reader[p] \in Readers
      /\ reader'[e] \in Readers /\ reader'[p] \in Readers
  BY <1>a, Zenon DEF TypeOK
<1>c. ASSUME upsets = {}
      PROVE  Outstanding(reader[e]) = n(e) /\ Outstanding(reader[p]) = n(p)
  BY <1>a, <1>c, Zenon DEF ReaderLives, Outstanding
<1>d. ASSUME UNCHANGED upsets PROVE upsets = {}
  BY <1>d
<1>e. ASSUME NEW why, Upset(why) PROVE upsets = {} /\ why = {}
  BY <1>e DEF Upset
<1>f. ASSUME NEW s, NEW types, Called(e, s, types)
      PROVE  /\ Read(e) \in Readers /\ Took(reader[e], Read(e)) /\ reader[e].filled > 0
             /\ n(e) = 1 /\ Read(e).in = reader[e].in
  BY <1>f, Reads, Zenon DEF Called, Idle, Took
<1>g. ASSUME NEW b \in Readers, NEW r \in Readers, AheadUpset(b, r), Waits(b, r) \/ Finds(b, r)
      PROVE  upsets = {} /\ Waits(b, r)
  <2>1. upsets = {} /\ ~ (r.filled > b.filled)
    BY <1>e, <1>g, Zenon DEF AheadUpset
  <2> QED
    BY <1>g, <2>1, Counts, Zenon
<1> HIDE DEF p, n
<1>1. CASE FillRead(e)
  <2>1. Fills(reader[e], reader'[e]) /\ reader'[p] = reader[p] /\ UNCHANGED <<io, upsets>>
    BY <1>1, FillReadEffect, Zenon DEF FillRead, p
  <2> QED
    BY <1>a, <1>b, <1>c, <1>d, <2>1, Counts, Zenon DEF n
<1>2. CASE FlushWrite(e) \/ SendFileOffer(e)
  <2>1. PICK f \in Frames : Room(e) /\ reader' = [reader EXCEPT ![Peer(e)].in = Append(@, f)]
    <3>1. writer[e].buf \in Frames
      BY Zenon DEF TypeOK, Writers
    <3> QED
      BY <1>2, <3>1, SentFrames, Zenon DEF FlushWrite, SendFileOffer, Data
  <2>2. reader'[e] = reader[e] /\ reader'[p].armed = reader[p].armed
        /\ reader'[p].filled = reader[p].filled
    BY <2>1, OfferEffect, Zenon DEF Gets, p
  <2>3. UNCHANGED <<io, upsets>>
    BY <1>2, Zenon DEF FlushWrite, SendFileOffer
  <2>4. Outstanding(reader'[p]) = Outstanding(reader[p])
    BY <1>b, <2>2, Counts, Zenon
  <2> QED
    BY <1>a, <1>c, <1>d, <2>2, <2>3, <2>4, Zenon DEF n
<1>3. CASE WriteMessageFrameCallback(e)
  BY <1>3, <1>a, <1>c, <1>d, Zenon DEF WriteMessageFrameCallback, n
<1>4. CASE OnReceiveHelloFrame(e) \/ OnReceiveHelloBackFrame(e)
  <2>1. PICK f \in Frames :
          reader' = [reader EXCEPT ![e] = Read(e), ![Peer(e)] = Reaching(e, f)]
    BY <1>4, Written, Zenon DEF OnReceiveHelloFrame, OnReceiveHelloBackFrame
  <2>2. reader[e].filled > 0 /\ n(e) = 1
    BY <1>4, <1>f, Zenon DEF OnReceiveHelloFrame, OnReceiveHelloBackFrame
  <2>3. /\ Took(reader[e], reader'[e])
        /\ reader'[p].armed = reader[p].armed /\ reader'[p].filled = reader[p].filled
    BY <2>1, <2>2, WriteEffect, Zenon DEF p
  <2>4. upsets = {} /\ io' = [io EXCEPT ![e] = "rearm"]
    BY <1>4, <1>e, Zenon DEF OnReceiveHelloFrame, OnReceiveHelloBackFrame, WaitUpset
  <2>5. io'[e] = "rearm" /\ io'[p] = io[p]
    BY <1>a, <2>4 DEF TypeOK
  <2>6. Outstanding(reader'[e]) = 0
    <3>1. /\ Outstanding(reader[e]) = Outstanding(reader'[e]) + 1
          /\ Outstanding(reader'[e]) \in Nat /\ Outstanding(reader[e]) = 1
      BY <1>b, <1>c, <2>2, <2>3, <2>4, Counts, Zenon
    <3> QED
      BY ONLY <3>1
  <2>7. Outstanding(reader'[p]) = Outstanding(reader[p])
    BY <1>b, <2>3, Counts, Zenon
  <2> QED
    BY <1>a, <1>c, <2>4, <2>5, <2>6, <2>7, Zenon DEF n
<1>5. CASE Rearm(e)
  <2>1. PICK r \in StartReadingFrames(reader[e]) :
          reader' = [reader EXCEPT ![e] = ClearReadBuffer(r)] /\ AheadUpset(reader[e], r)
    BY <1>5, Zenon DEF Rearm
  <2>2. /\ r \in Readers /\ Cleared(r, reader'[e]) /\ (Waits(reader[e], r) \/ Finds(reader[e], r))
        /\ reader'[p] = reader[p]
    BY <1>b, <2>1, RearmEffect, Zenon DEF p
  <2>3. upsets = {} /\ Waits(reader[e], r)
    BY <1>b, <1>g, <2>1, <2>2, Zenon
  <2>4. io[e] = "rearm" /\ io'[e] = "idle" /\ io'[p] = io[p]
    BY <1>5, <1>a, Zenon DEF Rearm, TypeOK
  <2>5. Outstanding(reader'[e]) = 1
    <3>1. /\ Outstanding(r) = Outstanding(reader[e]) + 1 /\ Outstanding(reader[e]) = 0
          /\ Outstanding(reader'[e]) = Outstanding(r)
      BY <1>b, <1>c, <2>2, <2>3, <2>4, Counts, Zenon DEF n
    <3> QED
      BY ONLY <3>1
  <2>6. io'[e] # "rearm"
    BY <2>4
  <2> QED
    BY <1>a, <1>c, <2>2, <2>3, <2>4, <2>5, <2>6, Zenon DEF n
<1>6. ASSUME NEW r \in Readers, Waits(Read(e), r) \/ Finds(Read(e), r),
             Outstanding(reader'[e]) = Outstanding(r), reader'[p] = reader[p],
             NEW s, NEW types, Called(e, s, types), upsets = {}, UNCHANGED io
      PROVE  \A x \in Ends : Outstanding(reader'[x]) = IF io'[x] = "rearm" THEN 0 ELSE 1
  <2>1. Read(e) \in Readers /\ Took(reader[e], Read(e)) /\ n(e) = 1
    BY <1>6, <1>f, Zenon
  <2>2. /\ Outstanding(r) = Outstanding(Read(e)) + 1
        /\ Outstanding(reader[e]) = Outstanding(Read(e)) + 1
    BY <1>6, <1>b, <2>1, Counts, Zenon
  <2> QED
    BY <1>6, <1>a, <1>c, <2>1, <2>2, Zenon DEF n
<1>7. CASE OnReceiveConfirmEstablished(e)
  <2>1. PICK r \in StartReadingFrames(Read(e)) :
          reader' = [reader EXCEPT ![e] = ClearReadBuffer(r)] /\ AheadUpset(Read(e), r)
    BY <1>7, Zenon DEF OnReceiveConfirmEstablished
  <2>2. Called(e, "UNPREPARED", {"CONFIRM"}) /\ UNCHANGED io
    BY <1>7, Zenon DEF OnReceiveConfirmEstablished
  <2>3. Read(e) \in Readers /\ Read(e).in = reader[e].in
    BY <2>2, <1>f, Zenon
  <2>4. /\ r \in Readers /\ Cleared(r, reader'[e]) /\ (Waits(Read(e), r) \/ Finds(Read(e), r))
        /\ reader'[p] = reader[p]
    BY <2>1, <2>3, RearmEffect, Zenon DEF p
  <2>5. upsets = {} /\ Outstanding(reader'[e]) = Outstanding(r)
    BY <1>b, <1>g, <2>1, <2>3, <2>4, Counts, Zenon
  <2> QED
    BY <1>6, <2>2, <2>4, <2>5, Zenon
<1>8. CASE IgnoreFrame(e) \/ AssertFails(e)
  <2>1. upsets' # {}
    BY <1>8 DEF IgnoreFrame, AssertFails, Upset
  <2> QED
    BY <2>1
<1>9. CASE OnReceiveChatMessageFrame(e)
  <2>2. "twice" \notin upsets' /\ "marked" \notin upsets'
    OBVIOUS
  <2>3. PICK r \in StartReadingFrames(Read(e)) :
          /\ reader' = [reader EXCEPT ![e] = ClearReadBuffer(r)] /\ AheadUpset(Read(e), r)
          /\ UNCHANGED io
    BY <1>9, <2>2, PlainChat, Zenon
  <2>1. Called(e, "ESTABLISHED", {"CHAT"}) /\ UNCHANGED io
    BY <1>9, <2>3, Zenon DEF OnReceiveChatMessageFrame
  <2>4. Read(e) \in Readers /\ Read(e).in = reader[e].in
    BY <2>1, <1>f, Zenon
  <2>5. /\ r \in Readers /\ Cleared(r, reader'[e]) /\ (Waits(Read(e), r) \/ Finds(Read(e), r))
        /\ reader'[p] = reader[p]
    BY <2>3, <2>4, RearmEffect, Zenon DEF p
  <2>6. upsets = {} /\ Outstanding(reader'[e]) = Outstanding(r)
    BY <1>b, <1>g, <2>3, <2>4, <2>5, Counts, Zenon
  <2> QED
    BY <1>6, <2>1, <2>5, <2>6, Zenon
<1>10. CASE OnReceiveFileOffer(e)
  <2>1. Called(e, "ESTABLISHED", {"OFFER"}) /\ UNCHANGED <<io, upsets>>
    BY <1>10, Zenon DEF OnReceiveFileOffer
  <2>2. PICK r \in StartReadingFrames(Read(e)) : reader' = [reader EXCEPT ![e] = r]
    BY <1>10, Zenon DEF OnReceiveFileOffer
  <2>3. Read(e) \in Readers /\ Read(e).in = reader[e].in
    BY <2>1, <1>f, Zenon
  <2>4. reader'[e] = r /\ (Waits(Read(e), r) \/ Finds(Read(e), r)) /\ reader'[p] = reader[p]
    BY <2>2, <2>3, KeepEffect, Zenon DEF p
  <2> QED
    BY <1>6, <1>b, <1>d, <2>1, <2>4, Zenon
<1>11. CASE SendDataToNode(e)
  <2>1. PICK f \in Frames : reader' = [reader EXCEPT ![Peer(e)] = Reaching(e, f)]
    BY <1>11, SentFrames, Zenon DEF SendDataToNode, Data
  <2>2. /\ reader'[e] = reader[e]
        /\ reader'[p].armed = reader[p].armed /\ reader'[p].filled = reader[p].filled
    BY <2>1, SendEffect, Zenon DEF p
  <2>3. upsets = {} /\ UNCHANGED io
    BY <1>11, <1>e, Zenon DEF SendDataToNode, WaitUpset
  <2>4. /\ Outstanding(reader'[e]) = Outstanding(reader[e])
        /\ Outstanding(reader'[p]) = Outstanding(reader[p])
    <3>1. reader'[e].armed = reader[e].armed /\ reader'[e].filled = reader[e].filled
      BY ONLY <2>2, Zenon
    <3>2. Outstanding(reader'[e]) = Outstanding(reader[e])
      BY ONLY <1>b, <3>1, Counts, Zenon
    <3> QED
      BY ONLY <1>b, <2>2, <3>2, Counts, Zenon
  <2>5. Outstanding(reader[e]) = n(e) /\ Outstanding(reader[p]) = n(p)
    BY ONLY <1>c, <2>3, Zenon
  <2> QED
    BY ONLY <1>a, <2>3, <2>4, <2>5, Zenon DEF n
<1> QED
  BY <1>1, <1>2, <1>3, <1>4, <1>5, <1>7, <1>8, <1>9, <1>10, <1>11, Zenon DEF Works
-----------------------------------------------------------------------------
(* Order: what the operations on a reader do to what it holds *)

(* A read that is filled takes the first frame, which is the next one of   *)
(* the user if it is a user's.                                             *)
LEMMA IntactFill ==
  ASSUME NEW r \in Readers, NEW q \in Readers, NEW s \in Seq(Frames), NEW g \in Nat,
         Intact(r, s, g), r.filled = 0, r.in # <<>>,
         q.in = Tail(r.in), q.buf = Head(r.in), q.filled > 0
  PROVE  Intact(q, s, g)
<1>1. PICK a \in Seq(Frames) : a = r.in
  BY Fields
<1>2. PICK b \in Seq(Frames) : b = q.in
  BY Fields, Zenon
<1>3. /\ Len(a) \in Nat /\ Len(a) > 0 /\ DOMAIN a = 1..Len(a)
      /\ Len(b) = Len(a) - 1 /\ DOMAIN b = 1..Len(a) - 1
      /\ \A i \in DOMAIN b : b[i] = a[i + 1] /\ i + 1 \in DOMAIN a
      /\ q.buf = a[1] /\ Len(s) \in Nat
  BY <1>1, <1>2
<1>4. \A i \in DOMAIN a : a[i].type \in Data => a[i].id \in g + 1 .. Len(s) /\ a[i] = s[a[i].id]
  BY <1>1 DEF Intact
<1>5. \A i, j \in DOMAIN a :
        i < j /\ a[i].type \in Data /\ a[j].type \in Data => a[i].id < a[j].id
  BY <1>1 DEF Intact
<1>6. \A k \in g + 1 .. Len(s) : \E i \in DOMAIN a : a[i].type \in Data /\ a[i].id = k
  BY <1>1 DEF Intact
<1>7. \A i \in DOMAIN a : a[i].id \in Nat
  <2>1. \A i \in DOMAIN a : a[i] \in Frames
    BY ONLY a \in Seq(Frames)
  <2> QED
    BY ONLY <2>1 DEF Frames
<1>8. ASSUME a[1].type \in Data PROVE a[1].id = g + 1 /\ g < Len(s)
  <2>1. a[1].id \in g + 1 .. Len(s)
    BY ONLY <1>3, <1>4, <1>8
  <2>2. g + 1 \in g + 1 .. Len(s) /\ g < Len(s)
    BY ONLY <2>1, <1>3, g \in Nat
  <2>3. PICK i \in DOMAIN a : a[i].type \in Data /\ a[i].id = g + 1
    BY ONLY <1>6, <2>2
  <2>4. i = 1 \/ 1 < i
    BY ONLY <1>3, i \in DOMAIN a
  <2>5. 1 < i => a[1].id < g + 1
    BY ONLY <1>3, <1>5, <1>8, <2>3, i \in DOMAIN a
  <2>6. ~ (1 < i)
    BY ONLY <2>1, <2>5, g \in Nat
  <2> QED
    BY ONLY <2>2, <2>3, <2>4, <2>6
<1>9. \A i \in DOMAIN b : b[i].type \in Data => b[i].id \in g + 1 .. Len(s) /\ b[i] = s[b[i].id]
  BY ONLY <1>3, <1>4
<1>10. \A i, j \in DOMAIN b :
         i < j /\ b[i].type \in Data /\ b[j].type \in Data => b[i].id < b[j].id
  <2> SUFFICES ASSUME NEW i \in DOMAIN b, NEW j \in DOMAIN b, i < j,
                      b[i].type \in Data, b[j].type \in Data
               PROVE  b[i].id < b[j].id
    OBVIOUS
  <2>1. i + 1 < j + 1
    BY ONLY <1>3, i < j, i \in DOMAIN b, j \in DOMAIN b
  <2> QED
    BY <1>3, <1>5, <2>1
<1>11. q.buf.type \in Data =>
         /\ g < Len(s)
         /\ q.buf = s[g + 1]
         /\ \A i \in DOMAIN b : b[i].type \in Data => b[i].id # g + 1
  <2> SUFFICES ASSUME q.buf.type \in Data
               PROVE  /\ g < Len(s) /\ q.buf = s[g + 1]
                      /\ \A i \in DOMAIN b : b[i].type \in Data => b[i].id # g + 1
    OBVIOUS
  <2>1. a[1].id = g + 1 /\ g < Len(s) /\ a[1].type \in Data
    BY <1>3, <1>8
  <2>2. a[1] = s[g + 1]
    BY ONLY <1>3, <1>4, <2>1
  <2>3. \A i \in DOMAIN b : b[i].type \in Data => b[i].id # g + 1
    <3> SUFFICES ASSUME NEW i \in DOMAIN b, b[i].type \in Data PROVE b[i].id # g + 1
      OBVIOUS
    <3>1. b[i] = a[i + 1] /\ i + 1 \in DOMAIN a /\ 1 < i + 1 /\ 1 \in DOMAIN a
      BY ONLY <1>3, i \in DOMAIN b
    <3>2. g + 1 < b[i].id
      BY <1>5, <2>1, <3>1
    <3> QED
      BY ONLY <3>1, <3>2, <1>7, g \in Nat
  <2> QED
    BY <1>3, <2>1, <2>2, <2>3
<1>12. ASSUME NEW k \in g + 1 .. Len(s)
       PROVE  \/ \E i \in DOMAIN b : b[i].type \in Data /\ b[i].id = k
              \/ k = g + 1 /\ q.buf.type \in Data
  <2>1. PICK i \in DOMAIN a : a[i].type \in Data /\ a[i].id = k
    BY <1>6
  <2>2. CASE i = 1
    BY <1>3, <1>8, <2>1, <2>2
  <2>3. CASE i # 1
    <3>1. i - 1 \in DOMAIN b /\ b[i - 1] = a[i]
      BY ONLY <1>3, <2>1, <2>3, i \in DOMAIN a
    <3> QED
      BY <2>1, <3>1
  <2> QED
    BY <2>2, <2>3
<1> QED
  BY ONLY <1>2, <1>9, <1>10, <1>11, <1>12, q.filled > 0 DEF Intact

(* A frame of the handshake changes nothing. *)
LEMMA IntactControl ==
  ASSUME NEW r \in Readers, NEW q \in Readers, NEW s \in Seq(Frames), NEW g \in Nat,
         NEW f \in Frames, f.type \notin Data,
         Intact(r, s, g), Gets(r, q, f)
  PROVE  Intact(q, s, g)
<1>1. PICK a \in Seq(Frames) : a = r.in
  BY Fields
<1>2. PICK b \in Seq(Frames) : b = q.in
  BY Fields
<1>3. b = Append(a, f) /\ q.buf = r.buf /\ q.filled = r.filled
  BY <1>1, <1>2 DEF Gets
<1>4. /\ Len(a) \in Nat /\ DOMAIN a = 1..Len(a) /\ DOMAIN b = 1..Len(a) + 1
      /\ (\A i \in DOMAIN a : b[i] = a[i] /\ i \in DOMAIN b) /\ b[Len(a) + 1] = f
      /\ \A i \in DOMAIN b : i \in DOMAIN a \/ i = Len(a) + 1
  BY <1>3
<1>5. \A i \in DOMAIN b : b[i].type \in Data => i \in DOMAIN a /\ b[i] = a[i]
  BY ONLY <1>4, f.type \notin Data
<1>6. Intact(r, s, g)
  OBVIOUS
<1>7. \A i \in DOMAIN b : b[i].type \in Data => b[i].id \in g + 1 .. Len(s) /\ b[i] = s[b[i].id]
  BY ONLY <1>1, <1>5, <1>6 DEF Intact
<1>8. \A i, j \in DOMAIN b :
        i < j /\ b[i].type \in Data /\ b[j].type \in Data => b[i].id < b[j].id
  BY ONLY <1>1, <1>5, <1>6 DEF Intact
<1>9. q.filled > 0 /\ q.buf.type \in Data =>
        /\ g < Len(s)
        /\ q.buf = s[g + 1]
        /\ \A i \in DOMAIN b : b[i].type \in Data => b[i].id # g + 1
  BY ONLY <1>1, <1>3, <1>5, <1>6 DEF Intact
<1>10. \A k \in g + 1 .. Len(s) :
         \/ \E i \in DOMAIN b : b[i].type \in Data /\ b[i].id = k
         \/ k = g + 1 /\ q.filled > 0 /\ q.buf.type \in Data
  BY ONLY <1>1, <1>3, <1>4, <1>6 DEF Intact
<1> QED
  BY ONLY <1>2, <1>7, <1>8, <1>9, <1>10 DEF Intact

(* A frame of a user comes behind the others, in the reader as in what     *)
(* was sent.                                                               *)
LEMMA IntactData ==
  ASSUME NEW r \in Readers, NEW q \in Readers, NEW s \in Seq(Frames), NEW g \in Nat,
         NEW f \in Frames, f.type \in Data, f.id = Len(s) + 1, g <= Len(s),
         Intact(r, s, g), Gets(r, q, f)
  PROVE  Intact(q, Append(s, f), g)
<1>1. PICK a \in Seq(Frames) : a = r.in
  BY Fields
<1>2. PICK b \in Seq(Frames) : b = q.in
  BY Fields
<1>3. b = Append(a, f) /\ q.buf = r.buf /\ q.filled = r.filled
  BY <1>1, <1>2 DEF Gets
<1>4. /\ Len(a) \in Nat /\ DOMAIN a = 1..Len(a) /\ DOMAIN b = 1..Len(a) + 1
      /\ (\A i \in DOMAIN a : b[i] = a[i] /\ i \in DOMAIN b) /\ b[Len(a) + 1] = f
      /\ \A i \in DOMAIN b : i \in DOMAIN a \/ i = Len(a) + 1
      /\ Len(a) + 1 \in DOMAIN b /\ \A i \in DOMAIN a : i < Len(a) + 1 /\ i \in Nat
  BY <1>3
<1>5. PICK t \in Seq(Frames) : t = Append(s, f)
  <2>1. Append(s, f) \in Seq(Frames)
    BY ONLY s \in Seq(Frames), f \in Frames
  <2> QED
    BY <2>1, Zenon
<1>6. /\ Len(s) \in Nat /\ Len(t) = Len(s) + 1 /\ t[Len(s) + 1] = f
      /\ \A k \in 1..Len(s) : t[k] = s[k]
  BY <1>5
<1>7. /\ \A i \in DOMAIN a : a[i].type \in Data =>
           a[i].id \in g + 1 .. Len(s) /\ a[i] = s[a[i].id]
      /\ \A i, j \in DOMAIN a :
           i < j /\ a[i].type \in Data /\ a[j].type \in Data => a[i].id < a[j].id
      /\ r.filled > 0 /\ r.buf.type \in Data =>
           /\ g < Len(s)
           /\ r.buf = s[g + 1]
           /\ \A i \in DOMAIN a : a[i].type \in Data => a[i].id # g + 1
      /\ \A k \in g + 1 .. Len(s) :
           \/ \E i \in DOMAIN a : a[i].type \in Data /\ a[i].id = k
           \/ k = g + 1 /\ r.filled > 0 /\ r.buf.type \in Data
  BY <1>1 DEF Intact
<1>8. g \in Nat /\ g <= Len(s) /\ f.type \in Data /\ f.id = Len(s) + 1
  OBVIOUS
<1>9. ASSUME NEW i \in DOMAIN b, b[i].type \in Data
      PROVE  b[i].id \in g + 1 .. Len(t) /\ b[i] = t[b[i].id]
  <2>1. CASE i \in DOMAIN a
    <3>1. a[i].id \in g + 1 .. Len(s) /\ a[i] = s[a[i].id] /\ b[i] = a[i]
      BY ONLY <1>4, <1>7, <1>9, <2>1
    <3>2. a[i].id \in 1..Len(s) /\ a[i].id \in g + 1 .. Len(t)
      BY ONLY <1>6, <1>8, <3>1
    <3> QED
      BY ONLY <1>6, <3>1, <3>2
  <2>2. CASE i = Len(a) + 1
    BY ONLY <1>4, <1>6, <1>8, <2>2
  <2> QED
    BY <1>4, <2>1, <2>2
<1>10. ASSUME NEW i \in DOMAIN b, NEW j \in DOMAIN b, i < j, b[i].type \in Data, b[j].type \in Data
       PROVE  b[i].id < b[j].id
  <2>1. i \in DOMAIN a
    BY ONLY <1>4, <1>10
  <2>2. CASE j \in DOMAIN a
    BY ONLY <1>4, <1>7, <1>10, <2>1, <2>2
  <2>3. CASE j = Len(a) + 1
    BY ONLY <1>4, <1>6, <1>7, <1>8, <1>10, <2>1, <2>3
  <2> QED
    BY <1>4, <2>2, <2>3
<1>11. ASSUME q.filled > 0, q.buf.type \in Data
       PROVE  /\ g < Len(t)
              /\ q.buf = t[g + 1]
              /\ \A i \in DOMAIN b : b[i].type \in Data => b[i].id # g + 1
  <2>1. /\ g < Len(s) /\ q.buf = s[g + 1]
        /\ \A i \in DOMAIN a : a[i].type \in Data => a[i].id # g + 1
    BY ONLY <1>3, <1>7, <1>11
  <2>2. g + 1 \in 1..Len(s) /\ g < Len(t)
    BY ONLY <1>6, <1>8, <2>1
  <2>3. \A i \in DOMAIN b : b[i].type \in Data => b[i].id # g + 1
    BY ONLY <1>4, <1>6, <1>8, <2>1, SMTT(60)
  <2> QED
    BY ONLY <1>6, <2>1, <2>2, <2>3
<1>12. ASSUME NEW k \in g + 1 .. Len(t)
       PROVE  \/ \E i \in DOMAIN b : b[i].type \in Data /\ b[i].id = k
              \/ k = g + 1 /\ q.filled > 0 /\ q.buf.type \in Data
  <2>1. CASE k = Len(s) + 1
    BY ONLY <1>4, <1>8, <2>1
  <2>2. CASE k # Len(s) + 1
    <3>1. k \in g + 1 .. Len(s)
      BY ONLY <1>6, <1>8, <1>12, <2>2
    <3> QED
      BY ONLY <1>3, <1>4, <1>7, <3>1
  <2> QED
    BY <2>1, <2>2
<1> QED
  BY ONLY <1>2, <1>5, <1>9, <1>10, <1>11, <1>12, SMTT(60) DEF Intact

(* A frame of the handshake is taken, or a read is armed. *)
LEMMA IntactIdle ==
  ASSUME NEW r \in Readers, NEW q \in Readers, NEW s \in Seq(Frames), NEW g \in Nat,
         Intact(r, s, g), r.filled > 0 => r.buf.type \notin Data,
         q.in = r.in, q.filled = 0
  PROVE  Intact(q, s, g)
BY DEF Intact

(* A frame of the user is taken: it is the next one. *)
LEMMA IntactTaken ==
  ASSUME NEW r \in Readers, NEW q \in Readers, NEW s \in Seq(Frames), NEW g \in Nat,
         Intact(r, s, g), r.filled > 0, r.buf.type \in Data,
         q.in = r.in, q.filled = 0
  PROVE  g < Len(s) /\ r.buf = s[g + 1] /\ Intact(q, s, g + 1)
<1>1. PICK a \in Seq(Frames) : a = r.in /\ a = q.in
  BY Fields
<1>2. g < Len(s) /\ r.buf = s[g + 1] /\ Len(s) \in Nat
  BY DEF Intact
<1>3. \A i \in DOMAIN a : a[i].type \in Data =>
        /\ a[i].id \in g + 1 .. Len(s) /\ a[i] = s[a[i].id] /\ a[i].id # g + 1
  BY <1>1 DEF Intact
<1>4. \A i \in DOMAIN a : a[i].type \in Data =>
        /\ a[i].id \in (g + 1) + 1 .. Len(s) /\ a[i] = s[a[i].id]
  BY ONLY <1>2, <1>3, g \in Nat
<1>5. \A i, j \in DOMAIN a :
        i < j /\ a[i].type \in Data /\ a[j].type \in Data => a[i].id < a[j].id
  BY <1>1 DEF Intact
<1>6. \A k \in g + 1 .. Len(s) : k # g + 1 =>
        \E i \in DOMAIN a : a[i].type \in Data /\ a[i].id = k
  BY <1>1 DEF Intact
<1>7. \A k \in (g + 1) + 1 .. Len(s) : \E i \in DOMAIN a : a[i].type \in Data /\ a[i].id = k
  BY ONLY <1>2, <1>6, g \in Nat
<1>8. ~ (q.filled > 0)
  OBVIOUS
<1>9. Intact(q, s, g + 1)
  BY ONLY <1>1, <1>4, <1>5, <1>7, <1>8 DEF Intact
<1> QED
  BY <1>2, <1>9

(* Taking the first frame moves the others up. *)
LEMMA TailIn ==
  ASSUME NEW r \in Readers, NEW q \in Readers, r.in # <<>>, q.in = Tail(r.in)
  PROVE  /\ \A i \in DOMAIN q.in : i + 1 \in DOMAIN r.in /\ q.in[i] = r.in[i + 1]
         /\ \A i \in DOMAIN r.in : i = 1 \/ (i - 1 \in DOMAIN q.in /\ q.in[i - 1] = r.in[i])
         /\ 1 \in DOMAIN r.in /\ Head(r.in) = r.in[1]
         /\ DOMAIN r.in \subseteq Nat \ {0} /\ DOMAIN q.in \subseteq Nat \ {0}
<1>1. PICK a \in Seq(Frames) : a = r.in
  BY Fields
<1>2. q.in = Tail(a) /\ a # <<>>
  BY <1>1
<1> QED
  BY ONLY <1>1, <1>2, a \in Seq(Frames)

(* A frame that comes is behind the others. *)
LEMMA AppendIn ==
  ASSUME NEW r \in Readers, NEW q \in Readers, NEW f \in Frames, Gets(r, q, f)
  PROVE  /\ \A i \in DOMAIN q.in :
              \/ i \in DOMAIN r.in /\ q.in[i] = r.in[i]
              \/ i = Len(r.in) + 1 /\ q.in[i] = f
         /\ \A i \in DOMAIN r.in : i \in DOMAIN q.in /\ q.in[i] = r.in[i] /\ i < Len(r.in) + 1
         /\ Len(r.in) + 1 \in DOMAIN q.in /\ q.in[Len(r.in) + 1] = f
         /\ q.buf = r.buf /\ q.filled = r.filled
<1>1. PICK a \in Seq(Frames) : a = r.in
  BY Fields
<1>2. q.in = Append(a, f) /\ q.buf = r.buf /\ q.filled = r.filled
  BY <1>1 DEF Gets
<1> QED
  BY ONLY <1>1, <1>2, a \in Seq(Frames), f \in Frames

(* CONFIRM_ESTABLISHED is read before any frame of the user, or it is lost *)
(* when the buffer it was read into is cleared.                            *)
LEMMA ConfirmFill ==
  ASSUME NEW r \in Readers, NEW q \in Readers, r.in # <<>>, q.in = Tail(r.in),
         r.filled = 0, q.filled > 0, q.buf = Head(r.in) \/ q.buf.type = "HELLO"
  PROVE  /\ OneConfirm(r) => OneConfirm(q)
         /\ NoConfirm(r) => NoConfirm(q)
         /\ OneConfirm(r) /\ ConfirmDue(r) => ConfirmDue(q) \/ NoConfirm(q)
         /\ ConfirmDue(r) /\ q.buf = Head(r.in) => ConfirmDue(q)
<1>1. /\ \A i \in DOMAIN q.in : i + 1 \in DOMAIN r.in /\ q.in[i] = r.in[i + 1]
      /\ \A i \in DOMAIN r.in : i = 1 \/ (i - 1 \in DOMAIN q.in /\ q.in[i - 1] = r.in[i])
      /\ 1 \in DOMAIN r.in /\ Head(r.in) = r.in[1]
      /\ DOMAIN r.in \subseteq Nat \ {0} /\ DOMAIN q.in \subseteq Nat \ {0}
  BY TailIn, Zenon
<1>2. ~ (r.filled > 0)
  OBVIOUS
<1>3. q.filled > 0 /\ (q.buf = r.in[1] \/ q.buf.type = "HELLO")
  BY <1>1
<1>4. ASSUME OneConfirm(r) PROVE OneConfirm(q)
  <2>1. \A i, j \in DOMAIN r.in : r.in[i].type = "CONFIRM" /\ r.in[j].type = "CONFIRM" => i = j
    BY ONLY <1>4 DEF OneConfirm
  <2>2. ASSUME NEW i \in DOMAIN q.in, NEW j \in DOMAIN q.in,
               q.in[i].type = "CONFIRM", q.in[j].type = "CONFIRM"
        PROVE  i = j
    <3>1. i + 1 = j + 1
      BY ONLY <1>1, <2>1, <2>2, i \in DOMAIN q.in, j \in DOMAIN q.in
    <3> QED
      BY ONLY <1>1, <3>1, i \in DOMAIN q.in, j \in DOMAIN q.in
  <2>3. ASSUME q.buf.type = "CONFIRM", NEW i \in DOMAIN q.in PROVE q.in[i].type # "CONFIRM"
    <3>1. r.in[1].type = "CONFIRM" /\ i + 1 \in DOMAIN r.in /\ q.in[i] = r.in[i + 1]
      BY ONLY <1>1, <1>3, <2>3, i \in DOMAIN q.in
    <3>2. i + 1 # 1
      BY ONLY <1>1, i \in DOMAIN q.in
    <3> QED
      BY ONLY <1>1, <2>1, <3>1, <3>2
  <2> QED
    BY ONLY <2>2, <2>3 DEF OneConfirm
<1>5. NoConfirm(r) => NoConfirm(q)
  BY ONLY <1>1, <1>2, <1>3 DEF NoConfirm
<1>6. ASSUME ConfirmDue(r) PROVE r.in[1].type = "CONFIRM" \/ (ConfirmDue(q) /\ r.in[1].type \notin Data)
  <2>1. PICK c \in DOMAIN r.in : /\ r.in[c].type = "CONFIRM"
                                 /\ \A i \in DOMAIN r.in : i < c => r.in[i].type \notin Data
    BY ONLY <1>2, <1>6 DEF ConfirmDue
  <2>2. CASE c = 1
    BY <2>1, <2>2
  <2>3. CASE c # 1
    <3>1. c - 1 \in DOMAIN q.in /\ q.in[c - 1] = r.in[c] /\ 1 < c
      BY ONLY <1>1, <2>3, c \in DOMAIN r.in
    <3>2. r.in[1].type \notin Data
      BY <1>1, <2>1, <3>1
    <3>3. \A i \in DOMAIN q.in : i < c - 1 => q.in[i].type \notin Data
      BY ONLY <1>1, <2>1, <3>1, c \in DOMAIN r.in
    <3>4. q.buf.type \notin Data
      BY <1>3, <3>2 DEF Data
    <3> QED
      BY ONLY <2>1, <3>1, <3>2, <3>3, <3>4 DEF ConfirmDue
  <2> QED
    BY <2>2, <2>3
<1>7. ASSUME OneConfirm(r), r.in[1].type = "CONFIRM", q.buf.type = "HELLO" PROVE NoConfirm(q)
  <2>1. ASSUME NEW i \in DOMAIN q.in PROVE q.in[i].type # "CONFIRM"
    <3>1. i + 1 \in DOMAIN r.in /\ q.in[i] = r.in[i + 1] /\ i + 1 # 1
      BY ONLY <1>1, i \in DOMAIN q.in
    <3> QED
      BY ONLY <1>1, <1>7, <3>1 DEF OneConfirm
  <2> QED
    BY ONLY <1>7, <2>1 DEF NoConfirm
<1>8. ASSUME r.in[1].type = "CONFIRM", q.buf = r.in[1] PROVE ConfirmDue(q)
  BY ONLY <1>3, <1>8 DEF ConfirmDue
<1> QED
  BY <1>1, <1>3, <1>4, <1>5, <1>6, <1>7, <1>8, Zenon

(* A frame that comes changes nothing about it, unless it is another one. *)
LEMMA ConfirmGets ==
  ASSUME NEW r \in Readers, NEW q \in Readers, NEW f \in Frames, Gets(r, q, f)
  PROVE  /\ f.type # "CONFIRM" /\ OneConfirm(r) => OneConfirm(q)
         /\ f.type # "CONFIRM" /\ NoConfirm(r) => NoConfirm(q)
         /\ ConfirmDue(r) => ConfirmDue(q)
<1>1. /\ \A i \in DOMAIN q.in :
           \/ i \in DOMAIN r.in /\ q.in[i] = r.in[i]
           \/ i = Len(r.in) + 1 /\ q.in[i] = f
      /\ \A i \in DOMAIN r.in : i \in DOMAIN q.in /\ q.in[i] = r.in[i] /\ i < Len(r.in) + 1
      /\ q.buf = r.buf /\ q.filled = r.filled
  BY AppendIn
<1>2. Len(r.in) \in Nat /\ DOMAIN r.in \subseteq Nat
  <2>1. r.in \in Seq(Frames)
    BY Fields
  <2> QED
    BY ONLY <2>1
<1>3. f.type # "CONFIRM" /\ OneConfirm(r) => OneConfirm(q)
  BY ONLY <1>1 DEF OneConfirm
<1>4. f.type # "CONFIRM" /\ NoConfirm(r) => NoConfirm(q)
  BY ONLY <1>1 DEF NoConfirm
<1>5. ASSUME ConfirmDue(r) PROVE ConfirmDue(q)
  <2>1. CASE r.filled > 0 /\ r.buf.type = "CONFIRM"
    BY ONLY <1>1, <2>1 DEF ConfirmDue
  <2>2. CASE /\ r.filled > 0 => r.buf.type \notin Data
             /\ \E c \in DOMAIN r.in :
                  /\ r.in[c].type = "CONFIRM"
                  /\ \A i \in DOMAIN r.in : i < c => r.in[i].type \notin Data
    <3>1. PICK c \in DOMAIN r.in : /\ r.in[c].type = "CONFIRM"
                                   /\ \A i \in DOMAIN r.in : i < c => r.in[i].type \notin Data
      BY <2>2
    <3>2. c \in DOMAIN q.in /\ q.in[c].type = "CONFIRM" /\ c < Len(r.in) + 1 /\ c \in Nat
      BY ONLY <1>1, <1>2, <3>1, c \in DOMAIN r.in
    <3>3. ~ (Len(r.in) + 1 < c)
      BY ONLY <1>2, <3>2
    <3>4. \A i \in DOMAIN q.in : i < c => q.in[i].type \notin Data
      BY ONLY <1>1, <3>1, <3>3
    <3>5. q.filled > 0 => q.buf.type \notin Data
      BY ONLY <1>1, <2>2
    <3> QED
      BY ONLY <3>2, <3>4, <3>5 DEF ConfirmDue
  <2> QED
    BY <1>5, <2>1, <2>2 DEF ConfirmDue
<1> QED
  BY <1>3, <1>4, <1>5, Zenon

(* The only one comes when there is no frame of the user yet. *)
LEMMA ConfirmComes ==
  ASSUME NEW r \in Readers, NEW q \in Readers, NEW f \in Frames, Gets(r, q, f),
         f.type = "CONFIRM", \A i \in DOMAIN r.in : r.in[i].type = "HELLO",
         r.filled > 0 => r.buf.type = "HELLO"
  PROVE  OneConfirm(q) /\ ConfirmDue(q)
<1>1. /\ \A i \in DOMAIN q.in :
           \/ i \in DOMAIN r.in /\ q.in[i] = r.in[i]
           \/ i = Len(r.in) + 1 /\ q.in[i] = f
      /\ Len(r.in) + 1 \in DOMAIN q.in /\ q.in[Len(r.in) + 1] = f
      /\ q.buf = r.buf /\ q.filled = r.filled
  BY AppendIn
<1>2. f.type = "CONFIRM" /\ (\A i \in DOMAIN r.in : r.in[i].type = "HELLO")
      /\ (r.filled > 0 => r.buf.type = "HELLO")
  OBVIOUS
<1>3. OneConfirm(q)
  BY ONLY <1>1, <1>2 DEF OneConfirm
<1>4. \A i \in DOMAIN q.in : q.in[i].type \notin Data
  BY ONLY <1>1, <1>2 DEF Data
<1>5. q.filled > 0 => q.buf.type \notin Data
  BY ONLY <1>1, <1>2 DEF Data
<1>6. ConfirmDue(q)
  BY ONLY <1>1, <1>2, <1>4, <1>5 DEF ConfirmDue
<1> QED
  BY <1>3, <1>6

(* Another frame is taken, or a read is armed. *)
LEMMA ConfirmIdle ==
  ASSUME NEW r \in Readers, NEW q \in Readers, q.in = r.in, q.filled = 0
  PROVE  /\ OneConfirm(r) => OneConfirm(q)
         /\ NoConfirm(r) => NoConfirm(q)
         /\ ConfirmDue(r) /\ ~ (r.filled > 0 /\ r.buf.type = "CONFIRM") => ConfirmDue(q)
<1>1. q.in = r.in /\ ~ (q.filled > 0)
  OBVIOUS
<1> QED
  BY ONLY <1>1 DEF OneConfirm, NoConfirm, ConfirmDue
-----------------------------------------------------------------------------
(* Order: what a step does to the other end, and to an end that reads *)

(* What a reader cannot be in between. *)
LEMMA OneReadFacts ==
  ASSUME TypeOK, NEW x \in Ends, OneRead(x)
  PROVE  /\ reader[x] \in Readers
         /\ reader[x].filled > 0 =>
              reader[x].filled = 1 /\ reader[x].armed = 0 /\ io[x] # "rearm"
         /\ reader[x].armed > 0 =>
              reader[x].armed = 1 /\ reader[x].filled = 0 /\ io[x] # "rearm"
         /\ io[x] = "rearm" => reader[x].armed = 0 /\ reader[x].filled = 0
<1>1. reader[x] \in Readers
  BY Zenon DEF TypeOK
<1>2. PICK m \in Nat : m = reader[x].armed
  BY <1>1, Fields
<1>3. PICK n \in Nat : n = reader[x].filled
  BY <1>1, Fields
<1>4. m + n <= 1 /\ (io[x] = "rearm" => m + n = 0)
  BY <1>2, <1>3, Zenon DEF OneRead
<1>5. /\ n > 0 => n = 1 /\ m = 0 /\ io[x] # "rearm"
      /\ m > 0 => m = 1 /\ n = 0 /\ io[x] # "rearm"
      /\ io[x] = "rearm" => m = 0 /\ n = 0
  BY ONLY <1>4, m \in Nat, n \in Nat
<1> QED
  BY ONLY <1>1, <1>2, <1>3, <1>5, Zenon

(* Nothing happens to x. *)
LEMMA DeliveryKept ==
  ASSUME NEW x \in Ends, Delivery(x), reader'[x] = reader[x],
         io'[x] = io[x] \/ io'[x] # "rearm", state'[x] = state[x],
         x = "dialler" => state'["acceptor"] = state["acceptor"],
         sent'[Peer(x)] = sent[Peer(x)], got'[x] = got[x]
  PROVE  Delivery(x)'
<1>1. CASE Deaf(x)
  <2>1. Deaf(x)'
    BY <1>1, Zenon DEF Deaf
  <2> QED
    BY <2>1, Zenon DEF Delivery
<1>2. CASE Unconfirmed(x)
  <2>1. x = "dialler"
    BY <1>2, Zenon DEF Unconfirmed
  <2>2. reader'["dialler"] = reader["dialler"] /\ state'["dialler"] = state["dialler"]
    BY <2>1, Zenon
  <2>3. Unconfirmed(x)'
    BY <1>2, <2>1, <2>2, Zenon DEF Unconfirmed
  <2> QED
    BY <2>3, Zenon DEF Delivery
<1>3. CASE Whole(x)
  <2>1. ASSUME x = "dialler", state'["dialler"] = "UNPREPARED", state'["acceptor"] = "ESTABLISHED"
        PROVE  ConfirmDue(reader'["dialler"])
    <3>1. reader'["dialler"] = reader["dialler"] /\ state'["dialler"] = state["dialler"]
      BY <2>1, Zenon
    <3> QED
      BY <1>3, <2>1, <3>1, Zenon DEF Whole
  <2>2. Whole(x)'
    BY <1>3, <2>1, Zenon DEF Whole
  <2> QED
    BY <2>2, Zenon DEF Delivery
<1> QED
  BY <1>1, <1>2, <1>3, Zenon DEF Delivery

(* x gets a frame of the handshake. *)
LEMMA DeliveryControl ==
  ASSUME TypeOK, TypeOK', NEW x \in Ends, Delivery(x), NEW f \in Frames,
         f.type \notin Data, f.type # "CONFIRM",
         Gets(reader[x], reader'[x], f), UNCHANGED state, io'[x] = io[x],
         sent'[Peer(x)] = sent[Peer(x)], got'[x] = got[x]
  PROVE  Delivery(x)'
<1>1. reader[x] \in Readers /\ reader'[x] \in Readers /\ sent[Peer(x)] \in Seq(Frames)
      /\ Len(got[x]) \in Nat
  <2>1. got[x] \in Seq(Frames)
    BY Zenon DEF TypeOK
  <2>2. Len(got[x]) \in Nat
    BY ONLY <2>1
  <2> QED
    BY <2>2, Peers, Zenon DEF TypeOK
<1>2. CASE Deaf(x)
  <2>1. Deaf(x)'
    BY <1>2, Zenon DEF Deaf, Gets
  <2> QED
    BY <2>1, Zenon DEF Delivery
<1>3. CASE Unconfirmed(x)
  <2>1. x = "dialler"
    BY <1>3, Zenon DEF Unconfirmed
  <2>2. NoConfirm(reader'[x])
    BY <1>1, <1>3, <2>1, ConfirmGets, Zenon DEF Unconfirmed
  <2>3. Unconfirmed(x)'
    BY <1>3, <2>1, <2>2, Zenon DEF Unconfirmed
  <2> QED
    BY <2>3, Zenon DEF Delivery
<1>4. CASE Whole(x)
  <2>1. Intact(reader'[x], sent[Peer(x)], Len(got[x]))
    BY <1>1, <1>4, IntactControl, Zenon DEF Whole
  <2>2. ASSUME x = "dialler", ConfirmDue(reader["dialler"]) PROVE ConfirmDue(reader'["dialler"])
    BY <1>1, <2>2, ConfirmGets, Zenon
  <2>3. Whole(x)'
    BY <1>4, <2>1, <2>2, Zenon DEF Whole
  <2> QED
    BY <2>3, Zenon DEF Delivery
<1> QED
  BY <1>2, <1>3, <1>4, Zenon DEF Delivery

(* x gets what the user at the other end sends. *)
LEMMA DeliveryData ==
  ASSUME TypeOK, TypeOK', NEW x \in Ends, Delivery(x), NEW f \in Frames,
         f.type \in Data, f.id = Len(sent[Peer(x)]) + 1,
         Gets(reader[x], reader'[x], f), UNCHANGED state, io'[x] = io[x],
         sent'[Peer(x)] = Append(sent[Peer(x)], f), got'[x] = got[x]
  PROVE  Delivery(x)'
<1>0. got[x] \in Seq(Frames) /\ sent[Peer(x)] \in Seq(Frames)
  BY Peers, Zenon DEF TypeOK
<1>1. reader[x] \in Readers /\ reader'[x] \in Readers /\ Len(got[x]) \in Nat
  <2>1. Len(got[x]) \in Nat
    BY ONLY <1>0
  <2> QED
    BY <2>1, Zenon DEF TypeOK
<1>2. Prefix(got[x], sent[Peer(x)])
  BY Zenon DEF Delivery
<1>3. Prefix(got'[x], sent'[Peer(x)])
  <2>1. Prefix(got[x], Append(sent[Peer(x)], f))
    BY ONLY <1>0, <1>2, f \in Frames DEF Prefix
  <2> QED
    BY <2>1
<1>4. CASE Deaf(x)
  <2>1. Deaf(x)'
    BY <1>4, Zenon DEF Deaf, Gets
  <2> QED
    BY <1>3, <2>1, Zenon DEF Delivery
<1>5. CASE Unconfirmed(x)
  <2>1. x = "dialler" /\ f.type # "CONFIRM"
    BY <1>5 DEF Unconfirmed, Data
  <2>2. NoConfirm(reader'[x])
    BY <1>1, <1>5, <2>1, ConfirmGets, Zenon DEF Unconfirmed
  <2>3. Unconfirmed(x)'
    BY <1>5, <2>1, <2>2, Zenon DEF Unconfirmed
  <2> QED
    BY <1>3, <2>3, Zenon DEF Delivery
<1>6. CASE Whole(x)
  <2>1. Len(got[x]) <= Len(sent[Peer(x)])
    BY <1>2 DEF Prefix
  <2>2. Intact(reader'[x], Append(sent[Peer(x)], f), Len(got[x]))
    BY <1>0, <1>1, <1>6, <2>1, IntactData, Zenon DEF Whole
  <2>3. ASSUME x = "dialler", ConfirmDue(reader["dialler"]) PROVE ConfirmDue(reader'["dialler"])
    BY <1>1, <2>3, ConfirmGets, Zenon
  <2>4. Whole(x)'
    BY <1>6, <2>2, <2>3, Zenon DEF Whole
  <2> QED
    BY <1>3, <2>4, Zenon DEF Delivery
<1> QED
  BY <1>4, <1>5, <1>6, Zenon DEF Delivery

(* An established end that reads zeros next, or nothing, is deaf. *)
LEMMA DeliveryDeaf ==
  ASSUME NEW x \in Ends, Prefix(got'[x], sent'[Peer(x)]), reader'[x].armed = 0,
         io'[x] # "rearm",
         \/ reader'[x].filled = 0
         \/ state'[x] = "ESTABLISHED" /\ reader'[x].buf = Zeros
  PROVE  Delivery(x)'
<1>1. Zeros.type = "HELLO"
  BY FramesTyped
<1>2. Deaf(x)'
  BY <1>1, Zenon DEF Deaf
<1> QED
  BY <1>2, Zenon DEF Delivery
-----------------------------------------------------------------------------
(* What a step does to a connection that stays calm *)

(* The frames on their way, after an operation on the reader. *)
LEMMA Arrivals ==
  ASSUME NEW r \in Readers, NEW q \in Readers
  PROVE  /\ q.in = r.in => Arriving(q) = Arriving(r)
         /\ r.in # <<>> /\ q.in = Tail(r.in) =>
              Arriving(q) \subseteq Arriving(r) /\ Head(r.in).type \in Arriving(r)
         /\ \A f \in Frames : Gets(r, q, f) => Arriving(q) \subseteq Arriving(r) \cup {f.type}
<1>1. q.in = r.in => Arriving(q) = Arriving(r)
  BY ONLY TRUE DEF Arriving
<1>2. ASSUME r.in # <<>>, q.in = Tail(r.in)
      PROVE  Arriving(q) \subseteq Arriving(r) /\ Head(r.in).type \in Arriving(r)
  <2>1. /\ \A i \in DOMAIN q.in : i + 1 \in DOMAIN r.in /\ q.in[i] = r.in[i + 1]
        /\ 1 \in DOMAIN r.in /\ Head(r.in) = r.in[1]
    BY <1>2, TailIn, Zenon
  <2>2. \A i \in DOMAIN q.in : \E j \in DOMAIN r.in : q.in[i] = r.in[j]
    BY <2>1, Zenon
  <2>3. Arriving(q) \subseteq Arriving(r)
    BY ONLY <2>2, Zenon DEF Arriving
  <2>4. Head(r.in).type \in Arriving(r)
    BY ONLY <2>1 DEF Arriving
  <2> QED
    BY ONLY <2>3, <2>4
<1>3. ASSUME NEW f \in Frames, Gets(r, q, f)
      PROVE  Arriving(q) \subseteq Arriving(r) \cup {f.type}
  <2>1. \A i \in DOMAIN q.in : (i \in DOMAIN r.in /\ q.in[i] = r.in[i]) \/ q.in[i] = f
    BY <1>3, AppendIn
  <2> QED
    BY ONLY <2>1, Zenon DEF Arriving
<1> QED
  BY <1>1, <1>2, <1>3, Zenon

(* Upsets stay. *)
LEMMA CalmBefore ==
  ASSUME NEW e \in Ends, Calm',
         Works(e) \/ SendDataToNode(e) \/ SendFileOffer(e) \/ AssertFails(e)
  PROVE  Calm
<1>1. \A why : Upset(why) => upsets \subseteq upsets'
  BY DEF Upset
<1>2. upsets \subseteq upsets'
  <2>1. CASE FillRead(e) \/ FlushWrite(e) \/ WriteMessageFrameCallback(e)
             \/ OnReceiveFileOffer(e) \/ SendFileOffer(e)
    BY <2>1 DEF FillRead, FlushWrite, WriteMessageFrameCallback, OnReceiveFileOffer, SendFileOffer
  <2>2. CASE OnReceiveHelloFrame(e) \/ OnReceiveHelloBackFrame(e) \/ SendDataToNode(e)
             \/ IgnoreFrame(e) \/ AssertFails(e)
    BY <2>2, <1>1, Zenon DEF OnReceiveHelloFrame, OnReceiveHelloBackFrame, SendDataToNode,
       IgnoreFrame, AssertFails, WaitUpset
  <2>3. CASE Rearm(e) \/ OnReceiveConfirmEstablished(e) \/ OnReceiveChatMessageFrame(e)
    BY <2>3, <1>1, Zenon DEF Rearm, OnReceiveConfirmEstablished, OnReceiveChatMessageFrame,
       AheadUpset
  <2> QED
    BY <2>1, <2>2, <2>3, Zenon DEF Works
<1> QED
  BY <1>2 DEF Calm

(* q is r after the next read was started: it waits, or it has found the   *)
(* first frame, which may be cleared.                                      *)
Restarted(r, q) ==
  \/ q.in = r.in /\ q.armed = 1 /\ q.filled = 0
  \/ /\ r.in # <<>> /\ q.in = Tail(r.in) /\ q.armed = 0 /\ q.filled = 1
     /\ q.buf = Head(r.in) \/ q.buf = Zeros

(* The step of e leaves the other end alone. *)
Apart(e) ==
  /\ reader'[Peer(e)] = reader[Peer(e)]
  /\ \A x \in Ends : x # e => io'[x] = io[x] /\ state'[x] = state[x] /\ got'[x] = got[x]
  /\ UNCHANGED sent

(* A read that is started when none was outstanding. *)
LEMMA Restarts ==
  ASSUME NEW b \in Readers, NEW r \in Readers, NEW q \in Readers,
         Waits(b, r) \/ Finds(b, r), q = r \/ Cleared(r, q), b.armed = 0, b.filled = 0
  PROVE  /\ Restarted(b, q)
         /\ Cleared(r, q) => q.buf = Zeros
<1>1. CASE Waits(b, r)
  BY <1>1 DEF Waits, Cleared, Restarted
<1>2. CASE Finds(b, r)
  BY <1>2 DEF Finds, Cleared, Restarted
<1> QED
  BY <1>1, <1>2

(* A callback takes the only frame that was read. *)
LEMMA CalledCalm ==
  ASSUME TypeOK, NEW e \in Ends, OneRead(e), NEW s, NEW types, Called(e, s, types)
  PROVE  /\ reader[e] \in Readers /\ reader[e].filled = 1 /\ reader[e].armed = 0
         /\ io[e] = "idle" /\ state[e] = s /\ reader[e].buf.type \in types
         /\ Read(e) \in Readers /\ Took(reader[e], Read(e)) /\ reader[e].filled > 0
         /\ Read(e).in = reader[e].in /\ Read(e).armed = 0 /\ Read(e).filled = 0
<1>1. reader[e].filled > 0 /\ io[e] = "idle" /\ state[e] = s /\ reader[e].buf.type \in types
  BY Zenon DEF Called, Idle
<1>2. reader[e] \in Readers /\ reader[e].filled = 1 /\ reader[e].armed = 0
  BY <1>1, OneReadFacts, Zenon
<1>3. Read(e) \in Readers /\ Took(reader[e], Read(e))
  BY <1>1, Reads, Zenon
<1> QED
  BY ONLY <1>1, <1>2, <1>3 DEF Took

(* Every change of an end by its own step, in a connection that is calm. *)
LEMMA FillCalm ==
  ASSUME TypeOK, NEW e \in Ends, OneRead(e), FillRead(e)
  PROVE  /\ reader[e].filled = 0 /\ reader[e].in # <<>>
         /\ reader'[e].in = Tail(reader[e].in) /\ reader'[e].buf = Head(reader[e].in)
         /\ reader'[e].armed = 0 /\ reader'[e].filled = 1
         /\ Apart(e) /\ UNCHANGED <<state, io, got>>
<1>1. /\ Fills(reader[e], reader'[e]) /\ reader'[Peer(e)] = reader[Peer(e)]
      /\ UNCHANGED <<state, io, sent, got>>
  BY FillReadEffect, Zenon DEF FillRead
<1>2. reader[e].armed = 1 /\ reader[e].filled = 0
  BY <1>1, OneReadFacts, Zenon DEF Fills
<1>3. Apart(e)
  BY <1>1, Zenon DEF Apart
<1> QED
  BY ONLY <1>1, <1>2, <1>3 DEF Fills

LEMMA RearmCalm ==
  ASSUME TypeOK, TypeOK', NEW e \in Ends, OneRead(e), Rearm(e)
  PROVE  /\ reader[e].filled = 0 /\ Restarted(reader[e], reader'[e]) /\ reader'[e].buf = Zeros
         /\ io[e] = "rearm" /\ io'[e] = "idle"
         /\ Apart(e) /\ UNCHANGED <<state, got>>
<1>1. PICK r \in StartReadingFrames(reader[e]) :
        reader' = [reader EXCEPT ![e] = ClearReadBuffer(r)]
  BY Zenon DEF Rearm
<1>2. reader[e] \in Readers /\ reader'[e] \in Readers
  BY Zenon DEF TypeOK
<1>3. /\ r \in Readers /\ Cleared(r, reader'[e]) /\ (Waits(reader[e], r) \/ Finds(reader[e], r))
      /\ reader'[Peer(e)] = reader[Peer(e)]
  BY <1>1, <1>2, RearmEffect, Zenon
<1>4. io[e] = "rearm" /\ io'[e] = "idle" /\ \A x \in Ends : x # e => io'[x] = io[x]
  BY Zenon DEF Rearm, TypeOK
<1>5. reader[e].armed = 0 /\ reader[e].filled = 0
  BY <1>4, OneReadFacts, Zenon
<1>6. Restarted(reader[e], reader'[e]) /\ reader'[e].buf = Zeros
  BY <1>2, <1>3, <1>5, Restarts, Zenon
<1>7. UNCHANGED <<state, sent, got>>
  BY Zenon DEF Rearm
<1> QED
  BY <1>3, <1>4, <1>5, <1>6, <1>7, Zenon DEF Apart

LEMMA ConfirmCalm ==
  ASSUME TypeOK, TypeOK', NEW e \in Ends, OneRead(e), OnReceiveConfirmEstablished(e)
  PROVE  /\ Called(e, "UNPREPARED", {"CONFIRM"})
         /\ Restarted(Read(e), reader'[e]) /\ reader'[e].buf = Zeros
         /\ state'[e] = "ESTABLISHED"
         /\ Apart(e) /\ UNCHANGED <<io, got>>
<1>1. PICK r \in StartReadingFrames(Read(e)) :
        reader' = [reader EXCEPT ![e] = ClearReadBuffer(r)]
  BY Zenon DEF OnReceiveConfirmEstablished
<1>2. Called(e, "UNPREPARED", {"CONFIRM"}) /\ UNCHANGED <<io, sent, got>>
  BY Zenon DEF OnReceiveConfirmEstablished
<1>3. Read(e) \in Readers /\ Read(e).in = reader[e].in /\ Read(e).armed = 0 /\ Read(e).filled = 0
  BY <1>2, CalledCalm, Zenon
<1>4. reader'[e] \in Readers
  BY Zenon DEF TypeOK
<1>5. /\ r \in Readers /\ Cleared(r, reader'[e]) /\ (Waits(Read(e), r) \/ Finds(Read(e), r))
      /\ reader'[Peer(e)] = reader[Peer(e)]
  BY <1>1, <1>3, RearmEffect, Zenon
<1>6. Restarted(Read(e), reader'[e]) /\ reader'[e].buf = Zeros
  BY <1>3, <1>4, <1>5, Restarts, Zenon
<1>7. state'[e] = "ESTABLISHED" /\ \A x \in Ends : x # e => state'[x] = state[x]
  BY Zenon DEF OnReceiveConfirmEstablished, TypeOK
<1> QED
  BY <1>2, <1>5, <1>6, <1>7, Zenon DEF Apart

LEMMA IgnoreCalm ==
  ASSUME TypeOK, TypeOK', NEW e \in Ends, OneRead(e), IgnoreFrame(e)
  PROVE  /\ reader'[e].in = reader[e].in /\ reader'[e].armed = 0 /\ reader'[e].filled = 0
         /\ Apart(e) /\ UNCHANGED <<state, io, got>> /\ io[e] = "idle"
<1>1. PICK s, types : Called(e, s, types)
  BY Zenon DEF IgnoreFrame
<1>2. reader' = [reader EXCEPT ![e] = ClearReadBuffer(Read(e))] /\ UNCHANGED <<state, io, sent, got>>
  BY Zenon DEF IgnoreFrame
<1>3. /\ Read(e) \in Readers /\ Read(e).in = reader[e].in /\ Read(e).armed = 0
      /\ Read(e).filled = 0 /\ io[e] = "idle"
  BY <1>1, CalledCalm, Zenon
<1>4. reader'[e] = ClearReadBuffer(Read(e)) /\ reader'[Peer(e)] = reader[Peer(e)]
  BY <1>2, Peers, ZenonT(60) DEF TypeOK
<1>5. Cleared(Read(e), reader'[e])
  BY <1>3, <1>4, Clears, Zenon
<1> QED
  BY <1>2, <1>3, <1>4, <1>5, Zenon DEF Cleared, Apart

LEMMA ChatCalm ==
  ASSUME TypeOK, TypeOK', Calm', NEW e \in Ends, OneRead(e), OnReceiveChatMessageFrame(e)
  PROVE  /\ Called(e, "ESTABLISHED", {"CHAT"})
         /\ Restarted(Read(e), reader'[e]) /\ reader'[e].buf = Zeros
         /\ got'[e] = Append(got[e], reader[e].buf)
         /\ Apart(e) /\ UNCHANGED <<io, state>>
<1>1. "twice" \notin upsets' /\ "marked" \notin upsets'
  BY DEF Calm
<1>2. PICK r \in StartReadingFrames(Read(e)) :
        /\ reader' = [reader EXCEPT ![e] = ClearReadBuffer(r)]
        /\ got' = [got EXCEPT ![e] = Append(@, reader[e].buf)]
        /\ UNCHANGED io
  BY <1>1, PlainChat, Zenon
<1>3. Called(e, "ESTABLISHED", {"CHAT"}) /\ UNCHANGED <<io, state, sent>>
  BY <1>2, Zenon DEF OnReceiveChatMessageFrame
<1>4. Read(e) \in Readers /\ Read(e).in = reader[e].in /\ Read(e).armed = 0 /\ Read(e).filled = 0
  BY <1>3, CalledCalm, Zenon
<1>5. reader'[e] \in Readers
  BY Zenon DEF TypeOK
<1>6. /\ r \in Readers /\ Cleared(r, reader'[e]) /\ (Waits(Read(e), r) \/ Finds(Read(e), r))
      /\ reader'[Peer(e)] = reader[Peer(e)]
  BY <1>2, <1>4, RearmEffect, Zenon
<1>7. Restarted(Read(e), reader'[e]) /\ reader'[e].buf = Zeros
  BY <1>4, <1>5, <1>6, Restarts, Zenon
<1>8. got'[e] = Append(got[e], reader[e].buf) /\ \A x \in Ends : x # e => got'[x] = got[x]
  BY <1>2, Zenon DEF TypeOK
<1> QED
  BY <1>3, <1>6, <1>7, <1>8, Zenon DEF Apart

LEMMA OfferCalm ==
  ASSUME TypeOK, TypeOK', NEW e \in Ends, OneRead(e), OnReceiveFileOffer(e)
  PROVE  /\ Called(e, "ESTABLISHED", {"OFFER"})
         /\ Restarted(Read(e), reader'[e])
         /\ got'[e] = Append(got[e], reader[e].buf)
         /\ Apart(e) /\ UNCHANGED <<io, state>>
<1>1. PICK r \in StartReadingFrames(Read(e)) : reader' = [reader EXCEPT ![e] = r]
  BY Zenon DEF OnReceiveFileOffer
<1>2. Called(e, "ESTABLISHED", {"OFFER"}) /\ UNCHANGED <<io, state, sent>>
  BY Zenon DEF OnReceiveFileOffer
<1>3. Read(e) \in Readers /\ Read(e).in = reader[e].in /\ Read(e).armed = 0 /\ Read(e).filled = 0
  BY <1>2, CalledCalm, Zenon
<1>4. reader'[e] = r /\ (Waits(Read(e), r) \/ Finds(Read(e), r)) /\ reader'[Peer(e)] = reader[Peer(e)]
  BY <1>1, <1>3, KeepEffect, Zenon
<1>5. r \in Readers
  BY <1>4, Zenon DEF TypeOK
<1>6. Restarted(Read(e), reader'[e])
  BY <1>3, <1>4, <1>5, Restarts, Zenon
<1>7. got'[e] = Append(got[e], reader[e].buf) /\ \A x \in Ends : x # e => got'[x] = got[x]
  BY Zenon DEF OnReceiveFileOffer, TypeOK
<1> QED
  BY <1>2, <1>4, <1>6, <1>7, Zenon DEF Apart

(* The kernel takes what is written at once. *)
LEMMA CalmTaken ==
  ASSUME Calm', NEW e \in Ends, NEW why,
         Upset({u \in {"waited"} : ~ Taken(e)} \cup why) \/ WaitUpset(e)
  PROVE  Taken(e)
BY DEF Calm, Upset, WaitUpset

LEMMA HelloCalm ==
  ASSUME TypeOK, TypeOK', Calm', NEW e \in Ends, OneRead(e), OnReceiveHelloFrame(e)
  PROVE  /\ Called(e, "UNPREPARED", {"HELLO"})
         /\ reader'[e].in = reader[e].in /\ reader'[e].armed = 0 /\ reader'[e].filled = 0
         /\ Gets(reader[Peer(e)], reader'[Peer(e)], Frame("HELLOBACK", 0))
         /\ io'[e] = "rearm" /\ io'[Peer(e)] = io[Peer(e)] /\ UNCHANGED <<state, sent, got>>
<1>1. /\ Called(e, "UNPREPARED", {"HELLO"})
      /\ reader' = [reader EXCEPT ![e] = Read(e), ![Peer(e)] = Reaching(e, Frame("HELLOBACK", 0))]
      /\ WaitUpset(e) /\ UNCHANGED <<state, sent, got>>
  BY Zenon DEF OnReceiveHelloFrame
<1>2. Taken(e)
  BY <1>1, CalmTaken, Zenon
<1>3. reader[e] \in Readers /\ reader[e].filled > 0 /\ reader[e].filled = 1 /\ reader[e].armed = 0
  BY <1>1, CalledCalm, Zenon
<1>4. /\ Took(reader[e], reader'[e])
      /\ Gets(reader[Peer(e)], reader'[Peer(e)], Frame("HELLOBACK", 0))
  BY <1>1, <1>2, <1>3, Written, WriteEffect, Zenon
<1>5. reader'[e].in = reader[e].in /\ reader'[e].armed = 0 /\ reader'[e].filled = 0
  BY ONLY <1>3, <1>4 DEF Took
<1>6. io'[e] = "rearm" /\ io'[Peer(e)] = io[Peer(e)]
  BY Peers, ZenonT(60) DEF OnReceiveHelloFrame, TypeOK
<1> QED
  BY <1>1, <1>4, <1>5, <1>6, Zenon

LEMMA HelloBackCalm ==
  ASSUME TypeOK, TypeOK', Calm', NEW e \in Ends, OneRead(e), OnReceiveHelloBackFrame(e)
  PROVE  /\ Called(e, "UNPREPARED", {"HELLOBACK"})
         /\ reader'[e].in = reader[e].in /\ reader'[e].armed = 0 /\ reader'[e].filled = 0
         /\ Gets(reader[Peer(e)], reader'[Peer(e)], Frame("CONFIRM", 0))
         /\ io'[e] = "rearm" /\ io'[Peer(e)] = io[Peer(e)]
         /\ state'[e] = "ESTABLISHED" /\ state'[Peer(e)] = state[Peer(e)]
         /\ UNCHANGED <<sent, got>>
<1>1. /\ Called(e, "UNPREPARED", {"HELLOBACK", "OFFER"})
      /\ reader' = [reader EXCEPT ![e] = Read(e), ![Peer(e)] = Reaching(e, Frame("CONFIRM", 0))]
      /\ Upset({u \in {"waited"} : ~ Taken(e)}
                  \cup {u \in {"mistaken"} : reader[e].buf.type = "OFFER"})
      /\ UNCHANGED <<sent, got>>
  BY Zenon DEF OnReceiveHelloBackFrame
<1>2. Taken(e)
  BY <1>1, CalmTaken, Zenon
<1>3. reader[e].buf.type # "OFFER"
  BY <1>1 DEF Upset, Calm
<1>4. reader[e] \in Readers /\ reader[e].filled > 0 /\ reader[e].filled = 1 /\ reader[e].armed = 0
  BY <1>1, CalledCalm, Zenon
<1>5. /\ Took(reader[e], reader'[e])
      /\ Gets(reader[Peer(e)], reader'[Peer(e)], Frame("CONFIRM", 0))
  BY <1>1, <1>2, <1>4, Written, WriteEffect, Zenon
<1>6. reader'[e].in = reader[e].in /\ reader'[e].armed = 0 /\ reader'[e].filled = 0
  BY ONLY <1>4, <1>5 DEF Took
<1>a. io' = [io EXCEPT ![e] = "rearm"] /\ state' = [state EXCEPT ![e] = "ESTABLISHED"]
  BY Zenon DEF OnReceiveHelloBackFrame
<1>7. io'[e] = "rearm" /\ io'[Peer(e)] = io[Peer(e)]
  BY <1>a, Peers, Zenon DEF TypeOK
<1>8. state'[e] = "ESTABLISHED" /\ state'[Peer(e)] = state[Peer(e)]
  BY <1>a, Peers, Zenon DEF TypeOK
<1>9. Called(e, "UNPREPARED", {"HELLOBACK"})
  BY <1>1, <1>3, SMTT(60) DEF Called
<1> QED
  BY <1>1, <1>5, <1>6, <1>7, <1>8, <1>9, Zenon

LEMMA SendCalm ==
  ASSUME TypeOK, TypeOK', Calm', NEW e \in Ends, SendDataToNode(e) \/ SendFileOffer(e)
  PROVE  \E f \in Frames :
           /\ f.type \in Data /\ f.id = Len(sent[e]) + 1 /\ Listed(e)
           /\ reader'[e] = reader[e] /\ Gets(reader[Peer(e)], reader'[Peer(e)], f)
           /\ sent'[e] = Append(sent[e], f) /\ sent'[Peer(e)] = sent[Peer(e)]
           /\ UNCHANGED <<state, io, got>>
<1> DEFINE c == Frame("CHAT", Len(sent[e]) + 1)
           o == Frame("OFFER", Len(sent[e]) + 1)
<1>1. /\ c \in Frames /\ c.type \in Data /\ c.id = Len(sent[e]) + 1
      /\ o \in Frames /\ o.type \in Data /\ o.id = Len(sent[e]) + 1
  <2>1. "CHAT" \in Data /\ "OFFER" \in Data
    BY DEF Data
  <2> QED
    BY <2>1, SentFrames, Zenon
<1> HIDE DEF c, o
<1>2. CASE SendDataToNode(e)
  <2>1. /\ Listed(e) /\ WaitUpset(e) /\ UNCHANGED <<state, io, got>>
        /\ reader' = [reader EXCEPT ![Peer(e)] = Reaching(e, c)]
        /\ sent' = [sent EXCEPT ![e] = Append(@, c)]
    BY <1>2, Zenon DEF SendDataToNode, CanChat, c
  <2>2. Taken(e)
    BY <2>1, CalmTaken, Zenon
  <2>3. reader'[e] = reader[e] /\ Gets(reader[Peer(e)], reader'[Peer(e)], c)
    BY <1>1, <2>1, <2>2, SendEffect, Zenon
  <2>4. sent'[e] = Append(sent[e], c) /\ sent'[Peer(e)] = sent[Peer(e)]
    BY <2>1, Peers, Zenon DEF TypeOK
  <2> QED
    BY <1>1, <2>1, <2>3, <2>4, Zenon
<1>3. CASE SendFileOffer(e)
  <2>1. /\ Listed(e) /\ Room(e) /\ UNCHANGED <<state, io, got>>
        /\ reader' = [reader EXCEPT ![Peer(e)].in = Append(@, o)]
        /\ sent' = [sent EXCEPT ![e] = Append(@, o)]
    BY <1>3, Zenon DEF SendFileOffer, o
  <2>2. reader'[e] = reader[e] /\ Gets(reader[Peer(e)], reader'[Peer(e)], o)
    BY <1>1, <2>1, OfferEffect, Zenon
  <2>3. sent'[e] = Append(sent[e], o) /\ sent'[Peer(e)] = sent[Peer(e)]
    BY <2>1, Peers, ZenonT(60) DEF TypeOK
  <2> QED
    BY <1>1, <2>1, <2>2, <2>3, Zenon
<1> QED
  BY <1>2, <1>3

(* A write that is called back, or that meets its assertion, reads nothing. *)
LEMMA OtherCalm ==
  ASSUME TypeOK, NEW e \in Ends, WriteMessageFrameCallback(e) \/ AssertFails(e)
  PROVE  /\ UNCHANGED <<reader, state, sent, got>>
         /\ \A x \in Ends : io'[x] = io[x] \/ io'[x] = "aborted"
<1>1. CASE WriteMessageFrameCallback(e)
  BY <1>1, Zenon DEF WriteMessageFrameCallback
<1>2. CASE AssertFails(e)
  <2>1. UNCHANGED <<reader, state, sent, got>> /\ io' = [io EXCEPT ![e] = "aborted"]
    BY <1>2, Zenon DEF AssertFails
  <2> QED
    BY <2>1, Zenon DEF TypeOK
<1> QED
  BY <1>1, <1>2

(* No write waits. *)
LEMMA WaitingStep ==
  ASSUME TypeOK, Calm', NEW e \in Ends, \A x \in Ends : writer[x].waiting = 0,
         Works(e) \/ SendDataToNode(e) \/ SendFileOffer(e) \/ AssertFails(e)
  PROVE  (\A x \in Ends : writer'[x].waiting = 0) /\ ~ FlushWrite(e)
<1>1. ~ FlushWrite(e)
  BY DEF FlushWrite
<1> SUFFICES \A x \in Ends : writer'[x].waiting = 0
  BY <1>1
<1>2. ASSUME NEW f \in Frames, Taken(e), writer' = [writer EXCEPT ![e] = Writing(e, f)]
      PROVE  \A x \in Ends : writer'[x].waiting = 0
  BY <1>2, Writes, Zenon DEF TypeOK
<1>3. CASE WriteMessageFrameCallback(e)
  <2>1. writer[e] \in Writers
    BY Zenon DEF TypeOK
  <2> QED
    BY <1>3, <2>1, Zenon DEF WriteMessageFrameCallback, TypeOK, Writers
<1>4. CASE OnReceiveHelloFrame(e)
  <2>1. Taken(e)
    BY <1>4, CalmTaken, Zenon DEF OnReceiveHelloFrame
  <2>2. PICK w \in Writers : w = Writing(e, Frame("HELLOBACK", 0)) /\ w.waiting = 0
    BY <2>1, Writes, Written, Zenon
  <2>3. writer' = [writer EXCEPT ![e] = [w EXCEPT !.erased = "yes"]]
    BY <1>4, <2>2, Zenon DEF OnReceiveHelloFrame
  <2> QED
    BY <2>2, <2>3, Zenon DEF TypeOK, Writers
<1>5. CASE OnReceiveHelloBackFrame(e)
  <2>1. Taken(e) /\ writer' = [writer EXCEPT ![e] = Writing(e, Frame("CONFIRM", 0))]
    BY <1>5, CalmTaken, Zenon DEF OnReceiveHelloBackFrame
  <2> QED
    BY <1>2, <2>1, Written, Zenon
<1>6. CASE SendDataToNode(e)
  <2>1. /\ Taken(e)
        /\ writer' = [writer EXCEPT ![e] = Writing(e, Frame("CHAT", Len(sent[e]) + 1))]
    BY <1>6, CalmTaken, Zenon DEF SendDataToNode
  <2>2. "CHAT" \in Data
    BY DEF Data
  <2> QED
    BY <1>2, <2>1, <2>2, SentFrames, Zenon
<1>7. CASE UNCHANGED writer
  BY <1>7, Zenon
<1> QED
  BY <1>1, <1>3, <1>4, <1>5, <1>6, <1>7, Zenon DEF Works, FillRead, Rearm,
     OnReceiveConfirmEstablished, IgnoreFrame, OnReceiveChatMessageFrame, OnReceiveFileOffer,
     SendFileOffer, AssertFails
-----------------------------------------------------------------------------
(* Order: the steps *)

(* At most one read is outstanding. *)
LEMMA OneReadStep ==
  ASSUME TypeOK, TypeOK', Calm', CalmInv, NEW e \in Ends,
         Works(e) \/ SendDataToNode(e) \/ SendFileOffer(e) \/ AssertFails(e)
  PROVE  \A x \in Ends : OneRead(x)'
<1>a. OneRead(e) /\ OneRead(Peer(e)) /\ \A x \in Ends : OneRead(x)
  BY Peers, Zenon DEF CalmInv
<1>b. Peer(e) \in Ends /\ Peer(e) # e /\ \A x \in Ends : x = e \/ x = Peer(e)
  BY Peers
<1>c. ASSUME NEW x \in Ends, reader'[x].armed = reader[x].armed,
             reader'[x].filled = reader[x].filled, io'[x] = io[x] \/ io'[x] # "rearm"
      PROVE  OneRead(x)'
  BY <1>a, <1>c, Zenon DEF OneRead
<1>d. ASSUME NEW x \in Ends,
             \/ reader'[x].armed = 0 /\ reader'[x].filled = 0
             \/ /\ io'[x] # "rearm"
                /\ \/ reader'[x].armed = 1 /\ reader'[x].filled = 0
                   \/ reader'[x].armed = 0 /\ reader'[x].filled = 1
      PROVE  OneRead(x)'
  BY ONLY <1>d DEF OneRead
<1>e. ASSUME NEW r, Restarted(r, reader'[e]), io'[e] # "rearm", Apart(e) PROVE \A x \in Ends : OneRead(x)'
  <2>1. OneRead(e)'
    BY <1>d, <1>e, Zenon DEF Restarted
  <2>2. OneRead(Peer(e))'
    BY <1>b, <1>c, <1>e, Zenon DEF Apart
  <2> QED
    BY <1>b, <2>1, <2>2, Zenon
<1>1. CASE FillRead(e)
  <2>1. io'[e] # "rearm"
    BY <1>1 DEF FillRead, Idle
  <2>2. reader'[e].armed = 0 /\ reader'[e].filled = 1 /\ Apart(e)
    BY <1>1, <1>a, FillCalm, Zenon
  <2>3. OneRead(e)' /\ OneRead(Peer(e))'
    BY <1>b, <1>c, <1>d, <2>1, <2>2, Zenon DEF Apart
  <2> QED
    BY <1>b, <2>3, Zenon
<1>2. CASE Rearm(e)
  <2>1. io'[e] # "rearm" /\ Restarted(reader[e], reader'[e]) /\ Apart(e)
    BY <1>2, <1>a, RearmCalm
  <2> QED
    BY <1>e, <2>1, Zenon
<1>3. CASE OnReceiveConfirmEstablished(e) \/ OnReceiveChatMessageFrame(e) \/ OnReceiveFileOffer(e)
  <2>1. PICK s, types : Called(e, s, types) /\ Restarted(Read(e), reader'[e]) /\ Apart(e) /\ UNCHANGED io
    BY <1>3, <1>a, ConfirmCalm, ChatCalm, OfferCalm, Zenon
  <2>2. io'[e] # "rearm"
    BY <2>1 DEF Called, Idle
  <2> QED
    BY <1>e, <2>1, <2>2, Zenon
<1>4. CASE IgnoreFrame(e)
  BY <1>4, <1>a, <1>b, <1>c, <1>d, IgnoreCalm, Zenon DEF Apart
<1>5. CASE OnReceiveHelloFrame(e) \/ OnReceiveHelloBackFrame(e)
  <2>1. /\ reader'[e].armed = 0 /\ reader'[e].filled = 0 /\ io'[Peer(e)] = io[Peer(e)]
        /\ \E f : Gets(reader[Peer(e)], reader'[Peer(e)], f)
    BY <1>5, <1>a, HelloCalm, HelloBackCalm, Zenon
  <2>2. OneRead(e)' /\ OneRead(Peer(e))'
    BY <1>b, <1>c, <1>d, <2>1, Zenon DEF Gets
  <2> QED
    BY <1>b, <2>2, Zenon
<1>6. CASE SendDataToNode(e) \/ SendFileOffer(e)
  <2>1. /\ reader'[e] = reader[e] /\ UNCHANGED io
        /\ \E f : Gets(reader[Peer(e)], reader'[Peer(e)], f)
    BY <1>6, SendCalm, Zenon
  <2>2. OneRead(e)' /\ OneRead(Peer(e))'
    BY <1>b, <1>c, <2>1, Zenon DEF Gets
  <2> QED
    BY <1>b, <2>2, Zenon
<1>7. CASE WriteMessageFrameCallback(e) \/ AssertFails(e)
  <2>1. UNCHANGED reader /\ \A x \in Ends : io'[x] = io[x] \/ io'[x] # "rearm"
    BY <1>7, OtherCalm
  <2> QED
    BY <1>c, <2>1, Zenon
<1>8. ~ FlushWrite(e)
  BY WaitingStep, Zenon DEF CalmInv
<1> QED
  BY <1>1, <1>2, <1>3, <1>4, <1>5, <1>6, <1>7, <1>8, Zenon DEF Works

(* An end to which nothing happens. *)
LEMMA ToAcceptorKept ==
  ASSUME ToAcceptor, reader'["acceptor"] = reader["acceptor"], state'["acceptor"] = state["acceptor"],
         io'["acceptor"] = io["acceptor"] \/ io'["acceptor"] # "rearm"
  PROVE  ToAcceptor'
BY Zenon DEF ToAcceptor

LEMMA ToDiallerKept ==
  ASSUME ToDialler, reader'["dialler"] = reader["dialler"], state'["dialler"] = state["dialler"],
         io'["dialler"] = io["dialler"] \/ io'["dialler"] # "rearm",
         state'["acceptor"] = state["acceptor"], sent'["acceptor"] = sent["acceptor"]
  PROVE  ToDialler'
BY Zenon DEF ToDialler

(* The acceptor reads on. *)
LEMMA ToAcceptorReads ==
  ASSUME TypeOK, TypeOK', ToAcceptor, NEW b \in Readers, b.in = reader["acceptor"].in,
         \/ reader'["acceptor"].in = b.in /\ reader'["acceptor"].filled = 0
         \/ /\ b.in # <<>> /\ reader'["acceptor"].in = Tail(b.in)
            /\ state'["acceptor"] = "UNPREPARED" => reader'["acceptor"].buf = Head(b.in),
         io'["acceptor"] = "rearm" => state'["acceptor"] = "ESTABLISHED"
  PROVE  ToAcceptor'
<1>1. reader["acceptor"] \in Readers /\ reader'["acceptor"] \in Readers
  BY Zenon DEF TypeOK, Ends
<1>2. Arriving(b) = Arriving(reader["acceptor"])
  BY <1>1, Arrivals, Zenon
<1>3. CASE reader'["acceptor"].in = b.in /\ reader'["acceptor"].filled = 0
  <2>1. Arriving(reader'["acceptor"]) = Arriving(b)
    BY <1>1, <1>3, Arrivals, Zenon
  <2>2. ~ (reader'["acceptor"].filled > 0)
    BY ONLY <1>3
  <2> QED
    BY <1>2, <2>1, <2>2, Zenon DEF ToAcceptor
<1>4. CASE /\ b.in # <<>> /\ reader'["acceptor"].in = Tail(b.in)
           /\ state'["acceptor"] = "UNPREPARED" => reader'["acceptor"].buf = Head(b.in)
  <2>1. Arriving(reader'["acceptor"]) \subseteq Arriving(b) /\ Head(b.in).type \in Arriving(b)
    BY <1>1, <1>4, Arrivals, Zenon
  <2> QED
    BY <1>2, <1>4, <2>1, Zenon DEF ToAcceptor
<1> QED
  BY <1>3, <1>4

(* The dialler reads on. *)
LEMMA ToDiallerReads ==
  ASSUME TypeOK, TypeOK', ToDialler, NEW b \in Readers, b.in = reader["dialler"].in, b.filled = 0,
         \/ reader'["dialler"].in = b.in /\ reader'["dialler"].filled = 0
         \/ /\ b.in # <<>> /\ reader'["dialler"].in = Tail(b.in) /\ reader'["dialler"].filled = 1
            /\ reader'["dialler"].buf = Head(b.in) \/ reader'["dialler"].buf = Zeros,
         io'["dialler"] = "rearm" => state'["dialler"] = "UNPREPARED",
         state'["dialler"] = state["dialler"] \/ state["acceptor"] = "ESTABLISHED",
         state'["acceptor"] = state["acceptor"], sent'["acceptor"] = sent["acceptor"]
  PROVE  ToDialler'
<1>1. reader["dialler"] \in Readers /\ reader'["dialler"] \in Readers
  BY Zenon DEF TypeOK, Ends
<1>2. Arriving(b) = Arriving(reader["dialler"]) /\ OneConfirm(b)
  BY <1>1, Arrivals, ConfirmIdle, Zenon DEF ToDialler
<1>3. CASE reader'["dialler"].in = b.in /\ reader'["dialler"].filled = 0
  <2>1. Arriving(reader'["dialler"]) = Arriving(b) /\ OneConfirm(reader'["dialler"])
    BY <1>1, <1>2, <1>3, Arrivals, ConfirmIdle, Zenon
  <2>2. ~ (reader'["dialler"].filled > 0)
    BY ONLY <1>3
  <2>3. state["acceptor"] = "ESTABLISHED" => state["acceptor"] # "UNPREPARED"
    OBVIOUS
  <2> QED
    BY <1>2, <2>1, <2>2, <2>3, Zenon DEF ToDialler
<1>4. CASE /\ b.in # <<>> /\ reader'["dialler"].in = Tail(b.in) /\ reader'["dialler"].filled = 1
           /\ reader'["dialler"].buf = Head(b.in) \/ reader'["dialler"].buf = Zeros
  <2>1. Arriving(reader'["dialler"]) \subseteq Arriving(b) /\ Head(b.in).type \in Arriving(b)
    BY <1>1, <1>4, Arrivals, Zenon
  <2>2. Zeros.type = "HELLO" /\ "HELLO" # "HELLOBACK" /\ reader'["dialler"].filled > 0
    BY <1>4, FramesTyped
  <2>3. OneConfirm(reader'["dialler"])
    BY <1>1, <1>2, <1>4, <2>2, ConfirmFill, Zenon
  <2>4. state["acceptor"] = "ESTABLISHED" => state["acceptor"] # "UNPREPARED"
    OBVIOUS
  <2>5. reader'["dialler"].buf.type \in Arriving(b) \cup {"HELLO"}
    BY <1>4, <2>1, <2>2, Zenon
  <2>6. reader'["dialler"].buf.type # "HELLOBACK"
    BY <1>2, <2>2, <2>5, Zenon DEF ToDialler
  <2> QED
    BY <1>2, <2>1, <2>3, <2>4, <2>5, <2>6, Zenon DEF ToDialler
<1> QED
  BY <1>3, <1>4

(* Who a frame of the handshake can reach, and when. *)
LEMMA Roles ==
  ASSUME TypeOK, CalmInv
  PROVE  /\ ~ Called("acceptor", "UNPREPARED", {"HELLO"})
         /\ ~ Called("acceptor", "UNPREPARED", {"CONFIRM"})
         /\ ~ Called("dialler", "UNPREPARED", {"HELLOBACK"})
         /\ Called("dialler", "UNPREPARED", {"CONFIRM"}) => state["acceptor"] = "ESTABLISHED"
         /\ state["dialler"] = "ESTABLISHED" => state["acceptor"] = "ESTABLISHED"
<1>1. ToAcceptor /\ ToDialler /\ state["acceptor"] \in {"UNPREPARED", "ESTABLISHED"}
  BY Zenon DEF CalmInv, TypeOK, Ends
<1>2. ~ Called("acceptor", "UNPREPARED", {"HELLO"}) /\ ~ Called("acceptor", "UNPREPARED", {"CONFIRM"})
  BY ONLY <1>1 DEF ToAcceptor, Called
<1>3. ~ Called("dialler", "UNPREPARED", {"HELLOBACK"})
  BY ONLY <1>1 DEF ToDialler, Called
<1>4. Called("dialler", "UNPREPARED", {"CONFIRM"}) => state["acceptor"] = "ESTABLISHED"
  BY ONLY <1>1 DEF ToDialler, Called
<1>5. state["dialler"] = "ESTABLISHED" => state["acceptor"] = "ESTABLISHED"
  BY ONLY <1>1 DEF ToDialler
<1> QED
  BY <1>2, <1>3, <1>4, <1>5

(* The frames on their way stay what the handshake allows. *)
LEMMA HandshakeStep ==
  ASSUME TypeOK, TypeOK', Calm', CalmInv, NEW e \in Ends,
         Works(e) \/ SendDataToNode(e) \/ SendFileOffer(e) \/ AssertFails(e)
  PROVE  ToAcceptor' /\ ToDialler'
<1>a. /\ OneRead(e) /\ ToAcceptor /\ ToDialler
      /\ reader["acceptor"] \in Readers /\ reader'["acceptor"] \in Readers
      /\ reader["dialler"] \in Readers /\ reader'["dialler"] \in Readers
  BY Zenon DEF CalmInv, TypeOK, Ends
<1>b. /\ Peer("dialler") = "acceptor" /\ Peer("acceptor") = "dialler"
      /\ "dialler" \in Ends /\ "acceptor" \in Ends /\ "dialler" # "acceptor"
      /\ (e = "dialler" \/ e = "acceptor")
  BY DEF Peer, Ends
<1>c. "UNPREPARED" # "ESTABLISHED" /\ "idle" # "rearm" /\ ~ (0 > 0)
  OBVIOUS
<1>d. ASSUME e = "acceptor", Apart(e), state'["acceptor"] = state["acceptor"],
             NEW b \in Readers, b.in = reader["acceptor"].in,
             \/ reader'["acceptor"].in = b.in /\ reader'["acceptor"].filled = 0
             \/ /\ b.in # <<>> /\ reader'["acceptor"].in = Tail(b.in)
                /\ state'["acceptor"] = "UNPREPARED" => reader'["acceptor"].buf = Head(b.in),
             io'["acceptor"] = "rearm" => state'["acceptor"] = "ESTABLISHED"
      PROVE  ToAcceptor' /\ ToDialler'
  <2>1. /\ reader'["dialler"] = reader["dialler"] /\ io'["dialler"] = io["dialler"]
        /\ state'["dialler"] = state["dialler"] /\ UNCHANGED sent
    BY <1>b, <1>d, Zenon DEF Apart
  <2>2. ToDialler'
    BY <1>a, <1>d, <2>1, ToDiallerKept, Zenon
  <2>3. ToAcceptor'
    BY <1>a, <1>d, ToAcceptorReads, Zenon
  <2> QED
    BY <2>2, <2>3
<1>e. ASSUME e = "dialler", Apart(e), NEW b \in Readers, b.in = reader["dialler"].in, b.filled = 0,
             \/ reader'["dialler"].in = b.in /\ reader'["dialler"].filled = 0
             \/ Restarted(b, reader'["dialler"]),
             io'["dialler"] = "rearm" => state'["dialler"] = "UNPREPARED",
             state'["dialler"] = state["dialler"] \/ state["acceptor"] = "ESTABLISHED"
      PROVE  ToAcceptor' /\ ToDialler'
  <2>1. /\ reader'["acceptor"] = reader["acceptor"] /\ io'["acceptor"] = io["acceptor"]
        /\ state'["acceptor"] = state["acceptor"] /\ UNCHANGED sent
    BY <1>b, <1>e, Zenon DEF Apart
  <2>2. ToAcceptor'
    BY <1>a, <2>1, ToAcceptorKept, Zenon
  <2>3. \/ reader'["dialler"].in = b.in /\ reader'["dialler"].filled = 0
        \/ /\ b.in # <<>> /\ reader'["dialler"].in = Tail(b.in) /\ reader'["dialler"].filled = 1
           /\ reader'["dialler"].buf = Head(b.in) \/ reader'["dialler"].buf = Zeros
    BY <1>e, Zenon DEF Restarted
  <2>4. ToDialler'
    BY <1>a, <1>e, <2>1, <2>3, ToDiallerReads, Zenon
  <2> QED
    BY <2>2, <2>4
<1>1. CASE FillRead(e)
  <2>1. /\ reader[e].filled = 0 /\ reader[e].in # <<>>
        /\ reader'[e].in = Tail(reader[e].in) /\ reader'[e].buf = Head(reader[e].in)
        /\ reader'[e].armed = 0 /\ reader'[e].filled = 1
        /\ Apart(e) /\ UNCHANGED <<state, io, got>>
    BY <1>1, <1>a, FillCalm, Zenon
  <2>2. CASE e = "acceptor"
    BY <1>a, <1>d, <2>1, <2>2, Zenon DEF ToAcceptor
  <2>3. CASE e = "dialler"
    <3>1. Restarted(reader["dialler"], reader'["dialler"])
      BY <2>1, <2>3, Zenon DEF Restarted
    <3> QED
      BY <1>a, <1>e, <2>1, <2>3, <3>1, Zenon DEF ToDialler
  <2> QED
    BY <1>b, <2>2, <2>3
<1>2. CASE Rearm(e)
  <2>1. /\ reader[e].filled = 0 /\ Restarted(reader[e], reader'[e])
        /\ io[e] = "rearm" /\ io'[e] = "idle" /\ Apart(e) /\ UNCHANGED <<state, got>>
    BY <1>2, <1>a, RearmCalm, Zenon
  <2>2. CASE e = "acceptor"
    <3>1. state'["acceptor"] = "ESTABLISHED"
      BY <1>a, <2>1, <2>2, Zenon DEF ToAcceptor
    <3> QED
      BY <1>a, <1>c, <1>d, <2>1, <2>2, <3>1, Zenon DEF Restarted
  <2>3. CASE e = "dialler"
    BY <1>a, <1>c, <1>e, <2>1, <2>3, Zenon
  <2> QED
    BY <1>b, <2>2, <2>3
<1>3. ASSUME NEW s, NEW types, Called(e, s, types), Restarted(Read(e), reader'[e]), Apart(e),
             UNCHANGED io, state'[e] = "ESTABLISHED", state[e] = "ESTABLISHED" \/ e = "dialler",
             e = "dialler" => state["acceptor"] = "ESTABLISHED"
      PROVE  ToAcceptor' /\ ToDialler'
  <2>1. Read(e) \in Readers /\ Read(e).in = reader[e].in /\ Read(e).filled = 0 /\ io'[e] = "idle"
    BY <1>3, <1>a, CalledCalm, Zenon
  <2>2. CASE e = "acceptor"
    <3>1. state'["acceptor"] = state["acceptor"] /\ e # "dialler"
      BY <1>3, <1>b, <2>2, Zenon
    <3> QED
      BY <1>3, <1>a, <1>c, <1>d, <2>1, <2>2, <3>1, Zenon DEF Restarted
  <2>3. CASE e = "dialler"
    BY <1>3, <1>a, <1>c, <1>e, <2>1, <2>3, Zenon
  <2> QED
    BY <1>b, <2>2, <2>3
<1>4. CASE OnReceiveConfirmEstablished(e)
  <2>1. /\ Called(e, "UNPREPARED", {"CONFIRM"}) /\ Restarted(Read(e), reader'[e])
        /\ state'[e] = "ESTABLISHED" /\ Apart(e) /\ UNCHANGED io
    BY <1>4, <1>a, ConfirmCalm, Zenon
  <2>2. e = "dialler" /\ state["acceptor"] = "ESTABLISHED"
    BY <1>b, <2>1, Roles, Zenon
  <2> QED
    BY <1>3, <2>1, <2>2, Zenon
<1>5. CASE OnReceiveChatMessageFrame(e) \/ OnReceiveFileOffer(e)
  <2>1. PICK types : /\ Called(e, "ESTABLISHED", types) /\ Restarted(Read(e), reader'[e])
                     /\ Apart(e) /\ UNCHANGED <<io, state>>
    BY <1>5, <1>a, ChatCalm, OfferCalm, Zenon
  <2>2. state[e] = "ESTABLISHED"
    BY <2>1, Zenon DEF Called
  <2>3. e = "dialler" => state["acceptor"] = "ESTABLISHED"
    BY <2>2, Roles, Zenon
  <2> QED
    BY <1>3, <2>1, <2>2, <2>3, Zenon
<1>6. CASE IgnoreFrame(e)
  <2>1. /\ reader'[e].in = reader[e].in /\ reader'[e].filled = 0 /\ Apart(e)
        /\ UNCHANGED <<state, io>> /\ io[e] = "idle"
    BY <1>6, <1>a, IgnoreCalm, Zenon
  <2>2. CASE e = "acceptor"
    BY <1>a, <1>c, <1>d, <2>1, <2>2, Zenon
  <2>3. CASE e = "dialler"
    BY <1>a, <1>c, <1>e, <2>1, <2>3, Zenon
  <2> QED
    BY <1>b, <2>2, <2>3
<1>7. CASE OnReceiveHelloFrame(e)
  <2>1. /\ Called(e, "UNPREPARED", {"HELLO"})
        /\ reader'[e].in = reader[e].in /\ reader'[e].filled = 0
        /\ Gets(reader[Peer(e)], reader'[Peer(e)], Frame("HELLOBACK", 0))
        /\ io'[e] = "rearm" /\ io'[Peer(e)] = io[Peer(e)] /\ UNCHANGED <<state, sent, got>>
    BY <1>7, <1>a, HelloCalm, Zenon
  <2>2. e = "dialler" /\ state["dialler"] = "UNPREPARED"
    BY <1>b, <2>1, Roles, Zenon DEF Called
  <2>3. Arriving(reader'["acceptor"]) \subseteq Arriving(reader["acceptor"]) \cup {"HELLOBACK"}
    BY <1>a, <1>b, <2>1, <2>2, Arrivals, Written, ZenonT(60)
  <2>4. ToAcceptor'
    BY <1>a, <1>b, <2>1, <2>2, <2>3, Zenon DEF ToAcceptor, Gets
  <2>5. ToDialler'
    BY <1>a, <2>1, <2>2, ToDiallerReads, Zenon
  <2> QED
    BY <2>4, <2>5
<1>8. CASE OnReceiveHelloBackFrame(e)
  <2>1. /\ Called(e, "UNPREPARED", {"HELLOBACK"})
        /\ reader'[e].in = reader[e].in /\ reader'[e].filled = 0
        /\ Gets(reader[Peer(e)], reader'[Peer(e)], Frame("CONFIRM", 0))
        /\ io'[e] = "rearm" /\ io'[Peer(e)] = io[Peer(e)]
        /\ state'[e] = "ESTABLISHED" /\ state'[Peer(e)] = state[Peer(e)]
    BY <1>8, <1>a, HelloBackCalm, Zenon
  <2>2. e = "acceptor" /\ state["acceptor"] = "UNPREPARED"
    BY <1>b, <2>1, Roles, Zenon DEF Called
  <2>3. ToAcceptor'
    BY <1>a, <2>1, <2>2, ToAcceptorReads, Zenon
  <2>4. Gets(reader["dialler"], reader'["dialler"], Frame("CONFIRM", 0))
    BY <1>b, <2>1, <2>2, Zenon
  <2>5. Arriving(reader'["dialler"]) \subseteq Arriving(reader["dialler"]) \cup {"CONFIRM"}
    BY <1>a, <2>4, Arrivals, Written, ZenonT(60)
  <2>6. \A i \in DOMAIN reader["dialler"].in : reader["dialler"].in[i].type = "HELLO"
    BY <1>a, <2>2, Zenon DEF ToDialler, Arriving
  <2>7. OneConfirm(reader'["dialler"])
    BY <1>a, <2>2, <2>4, <2>6, ConfirmComes, Written, Zenon DEF ToDialler
  <2>8. "HELLOBACK" \notin Arriving(reader'["dialler"])
    BY <1>a, <2>5 DEF ToDialler
  <2>a. state'["acceptor"] # "UNPREPARED"
    BY <1>c, <2>1, <2>2, Zenon
  <2>b. io'["dialler"] = io["dialler"] /\ state'["dialler"] = state["dialler"]
    BY <1>b, <2>1, <2>2, Zenon
  <2>c. /\ reader["dialler"].filled > 0 => reader["dialler"].buf.type # "HELLOBACK"
        /\ io["dialler"] = "rearm" => state["dialler"] = "UNPREPARED"
    BY <1>a, Zenon DEF ToDialler
  <2>d. reader'["dialler"].buf = reader["dialler"].buf /\ reader'["dialler"].filled = reader["dialler"].filled
    BY <2>4, Zenon DEF Gets
  <2>9. ToDialler'
    BY ONLY <2>7, <2>8, <2>a, <2>b, <2>c, <2>d, Zenon DEF ToDialler
  <2> QED
    BY <2>3, <2>9
<1>9. CASE SendDataToNode(e) \/ SendFileOffer(e)
  <2>1. PICK f \in Frames :
           /\ f.type \in Data /\ f.id = Len(sent[e]) + 1 /\ Listed(e)
           /\ reader'[e] = reader[e] /\ Gets(reader[Peer(e)], reader'[Peer(e)], f)
           /\ sent'[e] = Append(sent[e], f) /\ sent'[Peer(e)] = sent[Peer(e)]
           /\ UNCHANGED <<state, io, got>>
    BY <1>9, SendCalm, Zenon
  <2>2. f.type \in {"CHAT", "OFFER"} /\ f.type # "CONFIRM" /\ f.type # "HELLOBACK"
    BY <2>1 DEF Data
  <2>3. CASE e = "dialler"
    <3>1. Arriving(reader'["acceptor"]) \subseteq Arriving(reader["acceptor"]) \cup {f.type}
      BY <1>a, <1>b, <2>1, <2>3, Arrivals, Zenon
    <3>2. Arriving(reader'["acceptor"]) \subseteq {"HELLOBACK", "CHAT", "OFFER"}
      BY <1>a, <2>2, <3>1 DEF ToAcceptor
    <3>3. ToAcceptor'
      BY <1>a, <1>b, <2>1, <2>3, <3>2, Zenon DEF ToAcceptor, Gets
    <3>4. ToDialler'
      BY <1>a, <1>b, <2>1, <2>3, ToDiallerKept, Zenon
    <3> QED
      BY <3>3, <3>4
  <2>4. CASE e = "acceptor"
    <3>1. state'["acceptor"] = "ESTABLISHED"
      BY <1>b, <2>1, <2>4, Zenon DEF Listed
    <3>2. Arriving(reader'["dialler"]) \subseteq Arriving(reader["dialler"]) \cup {f.type}
      BY <1>a, <1>b, <2>1, <2>4, Arrivals, Zenon
    <3>3. "HELLOBACK" \notin Arriving(reader'["dialler"])
      BY <1>a, <2>2, <3>2 DEF ToDialler
    <3>4. OneConfirm(reader'["dialler"])
      BY <1>a, <1>b, <2>1, <2>2, <2>4, ConfirmGets, Zenon DEF ToDialler
    <3>a. state'["acceptor"] # "UNPREPARED"
      BY <1>c, <3>1, Zenon
    <3>b. /\ reader["dialler"].filled > 0 => reader["dialler"].buf.type # "HELLOBACK"
          /\ io["dialler"] = "rearm" => state["dialler"] = "UNPREPARED"
      BY <1>a, Zenon DEF ToDialler
    <3>c. Gets(reader["dialler"], reader'["dialler"], f) /\ UNCHANGED <<state, io>>
      BY <1>b, <2>1, <2>4, Zenon
    <3>5. ToDialler'
      BY ONLY <3>3, <3>4, <3>a, <3>b, <3>c, Zenon DEF ToDialler, Gets
    <3>6. ToAcceptor'
      BY <1>a, <1>b, <2>1, <2>4, ToAcceptorKept, Zenon
    <3> QED
      BY <3>5, <3>6
  <2> QED
    BY <1>b, <2>3, <2>4
<1>10. CASE WriteMessageFrameCallback(e) \/ AssertFails(e)
  <2>1. /\ UNCHANGED <<reader, state, sent>>
        /\ \A x \in Ends : io'[x] = io[x] \/ io'[x] # "rearm"
    BY <1>10, OtherCalm
  <2> QED
    BY <1>a, <1>b, <2>1, ToAcceptorKept, ToDiallerKept, Zenon
<1>11. ~ FlushWrite(e)
  BY WaitingStep, Zenon DEF CalmInv
<1> QED
  BY <1>1, <1>2, <1>4, <1>5, <1>6, <1>7, <1>8, <1>9, <1>10, <1>11, Zenon DEF Works

(* A frame that is no user's can be cleared. *)
LEMMA IntactSkip ==
  ASSUME NEW r \in Readers, NEW q \in Readers, NEW s \in Seq(Frames), NEW g \in Nat,
         Intact(r, s, g), r.filled = 0, r.in # <<>>, Head(r.in).type \notin Data,
         q.in = Tail(r.in), q.filled > 0, q.buf.type \notin Data
  PROVE  Intact(q, s, g)
<1>1. PICK p : p = [in |-> q.in, buf |-> Head(r.in), armed |-> q.armed, filled |-> q.filled]
  BY Zenon
<1>2. Head(r.in) \in Frames
  BY DEF Readers
<1>3. p \in Readers
  BY ONLY <1>1, <1>2, Fields, q \in Readers DEF Readers
<1>4. p.in = q.in /\ p.buf = Head(r.in) /\ p.filled = q.filled
  BY ONLY <1>1
<1>5. Intact(p, s, g)
  BY <1>3, <1>4, IntactFill, Zenon
<1>6. q.buf.type \notin Data /\ p.buf.type \notin Data /\ q.in = p.in /\ q.filled = p.filled
  BY <1>4, Zenon
<1> QED
  BY ONLY <1>5, <1>6, ZenonT(60) DEF Intact

(* Nothing of the user comes before CONFIRM_ESTABLISHED. *)
LEMMA ConfirmHead ==
  ASSUME NEW r \in Readers, ConfirmDue(r), r.filled = 0, r.in # <<>>
  PROVE  Head(r.in).type \notin Data
<1>1. PICK a \in Seq(Frames) : a = r.in
  BY Fields
<1>2. PICK c \in DOMAIN a : a[c].type = "CONFIRM" /\ \A i \in DOMAIN a : i < c => a[i].type \notin Data
  BY <1>1 DEF ConfirmDue
<1>3. Head(a) = a[1] /\ 1 \in DOMAIN a /\ (c = 1 \/ 1 < c)
  BY ONLY <1>1, <1>2, r.in # <<>>
<1> QED
  BY ONLY <1>1, <1>2, <1>3 DEF Data

(* An established end starts its next read. *)
LEMMA DeliveryRestarted ==
  ASSUME TypeOK, TypeOK', NEW e \in Ends, NEW b \in Readers, b.filled = 0,
         NEW s \in Seq(Frames), sent'[Peer(e)] = s, Prefix(got'[e], s),
         Intact(b, s, Len(got'[e])), Restarted(b, reader'[e]),
         state'[e] = "ESTABLISHED", io'[e] # "rearm"
  PROVE  Delivery(e)'
<1>1. reader'[e] \in Readers /\ got'[e] \in Seq(Frames)
  BY Zenon DEF TypeOK
<1>2. PICK g \in Nat : g = Len(got'[e])
  BY <1>1
<1>3. ~ (e = "dialler" /\ state'["dialler"] = "UNPREPARED")
  OBVIOUS
<1>4. ASSUME Intact(reader'[e], s, g) PROVE Delivery(e)'
  BY <1>2, <1>3, <1>4, Zenon DEF Delivery, Whole
<1>5. ~ (b.filled > 0)
  BY ONLY b.filled = 0
<1>6. CASE reader'[e].in = b.in /\ reader'[e].armed = 1 /\ reader'[e].filled = 0
  BY <1>1, <1>2, <1>4, <1>5, <1>6, IntactIdle, Zenon
<1>7. CASE /\ b.in # <<>> /\ reader'[e].in = Tail(b.in) /\ reader'[e].armed = 0
           /\ reader'[e].filled = 1 /\ reader'[e].buf = Head(b.in)
  <2>1. reader'[e].filled > 0
    BY ONLY <1>7
  <2> QED
    BY <1>1, <1>2, <1>4, <1>7, <2>1, IntactFill, Zenon
<1>8. CASE reader'[e].armed = 0 /\ reader'[e].buf = Zeros
  BY <1>8, DeliveryDeaf, Zenon
<1> QED
  BY <1>6, <1>7, <1>8, Zenon DEF Restarted

(* The dialler, not established yet, reads on: it may clear                *)
(* CONFIRM_ESTABLISHED, but nothing of the user before that.               *)
LEMMA DeliveryDialler ==
  ASSUME TypeOK, TypeOK', ToDialler, Delivery("dialler"), ~ Deaf("dialler"),
         state["dialler"] = "UNPREPARED", state'["dialler"] = state["dialler"],
         state'["acceptor"] = state["acceptor"], UNCHANGED <<sent, got>>,
         reader["dialler"].filled > 0 => reader["dialler"].buf.type = "HELLO",
         NEW b \in Readers, b.in = reader["dialler"].in, b.filled = 0,
         \/ reader'["dialler"].in = b.in /\ reader'["dialler"].filled = 0
         \/ Restarted(b, reader'["dialler"])
  PROVE  Delivery("dialler")'
<1> DEFINE s == sent["acceptor"]
           g == Len(got["dialler"])
<1>1. /\ reader["dialler"] \in Readers /\ reader'["dialler"] \in Readers
      /\ s \in Seq(Frames) /\ g \in Nat
      /\ state["acceptor"] = "UNPREPARED" \/ state["acceptor"] = "ESTABLISHED"
  <2>1. got["dialler"] \in Seq(Frames)
    BY Zenon DEF TypeOK, Ends
  <2>2. g \in Nat
    BY ONLY <2>1
  <2> QED
    BY <2>2, Zenon DEF TypeOK, Ends
<1>2. Peer("dialler") = "acceptor"
  BY DEF Peer
<1>3. Prefix(got'["dialler"], sent'["acceptor"])
  BY <1>2, Zenon DEF Delivery
<1>4. reader["dialler"].filled > 0 => reader["dialler"].buf.type \notin Data /\ reader["dialler"].buf.type # "CONFIRM"
  BY DEF Data
<1>5. \/ reader'["dialler"].in = b.in /\ reader'["dialler"].filled = 0
      \/ /\ b.in # <<>> /\ reader'["dialler"].in = Tail(b.in) /\ reader'["dialler"].filled = 1
         /\ reader'["dialler"].buf = Head(b.in) \/ reader'["dialler"].buf = Zeros
  BY Zenon DEF Restarted
<1>6. ASSUME reader'["dialler"].filled = 1
      PROVE  reader'["dialler"].filled > 0 /\ Zeros.type = "HELLO" /\ Zeros.type \notin Data
  BY <1>6, FramesTyped DEF Data
<1>7. CASE Unconfirmed("dialler")
  <2>1. NoConfirm(b) /\ state["acceptor"] = "ESTABLISHED"
    BY <1>1, <1>7, ConfirmIdle, Zenon DEF Unconfirmed
  <2>2. NoConfirm(reader'["dialler"])
    BY <1>1, <1>5, <1>6, <2>1, ConfirmIdle, ConfirmFill, Zenon
  <2>3. Unconfirmed("dialler")'
    BY <2>1, <2>2, Zenon DEF Unconfirmed
  <2> QED
    BY <1>2, <1>3, <2>3, Zenon DEF Delivery
<1>8. CASE Whole("dialler")
  <2>1. Intact(reader["dialler"], s, g)
    BY <1>2, <1>8, Zenon DEF Whole
  <2>2. Intact(b, s, g)
    BY <1>1, <1>4, <2>1, IntactIdle, Zenon
  <2>3. state["acceptor"] = "ESTABLISHED" => ConfirmDue(b)
    BY <1>1, <1>4, <1>8, ConfirmIdle, Zenon DEF Whole
  <2>4. OneConfirm(b)
    BY <1>1, ConfirmIdle, Zenon DEF ToDialler
  <2>5. ASSUME Intact(reader'["dialler"], s, g),
               state["acceptor"] = "ESTABLISHED" => ConfirmDue(reader'["dialler"])
        PROVE  Delivery("dialler")'
    <3>1. Whole("dialler")'
      BY <1>2, <2>5, Zenon DEF Whole
    <3> QED
      BY <1>2, <1>3, <3>1, Zenon DEF Delivery
  <2>6. CASE reader'["dialler"].in = b.in /\ reader'["dialler"].filled = 0
    <3>1. ~ (b.filled > 0)
      BY ONLY b.filled = 0
    <3> QED
      BY <1>1, <2>2, <2>3, <2>5, <2>6, <3>1, IntactIdle, ConfirmIdle, Zenon
  <2>7. CASE /\ b.in # <<>> /\ reader'["dialler"].in = Tail(b.in) /\ reader'["dialler"].filled = 1
             /\ reader'["dialler"].buf = Head(b.in) \/ reader'["dialler"].buf = Zeros
    <3>1. Head(b.in).type \notin Data
      <4>1. CASE state["acceptor"] = "ESTABLISHED"
        BY <2>3, <2>7, <4>1, ConfirmHead, Zenon
      <4>2. CASE state["acceptor"] = "UNPREPARED"
        <5>1. Arriving(reader["dialler"]) \subseteq {"HELLO"}
          BY <4>2, Zenon DEF ToDialler
        <5>2. Head(b.in).type \in Arriving(b) /\ Arriving(b) = Arriving(reader["dialler"])
          BY <1>1, <2>7, Arrivals, Zenon
        <5> QED
          BY <5>1, <5>2 DEF Data
      <4> QED
        BY <1>1, <4>1, <4>2
    <3>2. reader'["dialler"].buf.type \notin Data
      BY <1>6, <2>7, <3>1, Zenon
    <3>3. Intact(reader'["dialler"], s, g)
      BY <1>1, <1>6, <2>2, <2>7, <3>1, <3>2, IntactSkip, Zenon
    <3>4. state["acceptor"] = "ESTABLISHED" =>
            ConfirmDue(reader'["dialler"]) \/ NoConfirm(reader'["dialler"])
      BY <1>1, <1>6, <2>3, <2>4, <2>7, ConfirmFill, Zenon
    <3>5. CASE state["acceptor"] = "ESTABLISHED" /\ NoConfirm(reader'["dialler"])
      <4>1. Unconfirmed("dialler")'
        BY <3>5, Zenon DEF Unconfirmed
      <4> QED
        BY <1>2, <1>3, <4>1, Zenon DEF Delivery
    <3> QED
      BY <2>5, <3>3, <3>4, <3>5, Zenon
  <2> QED
    BY <1>5, <2>6, <2>7
<1> QED
  BY <1>7, <1>8, Zenon DEF Delivery

(* What is delivered stays a prefix of what was sent. *)
LEMMA DeliveryStep ==
  ASSUME TypeOK, TypeOK', Calm', CalmInv, NEW e \in Ends,
         Works(e) \/ SendDataToNode(e) \/ SendFileOffer(e) \/ AssertFails(e)
  PROVE  \A x \in Ends : Delivery(x)'
<1> DEFINE p == Peer(e)
           s == sent[p]
<1>a. /\ OneRead(e) /\ ToAcceptor /\ ToDialler /\ Delivery(e) /\ Delivery(p)
      /\ p \in Ends /\ p # e /\ Peer(p) = e
      /\ \A x \in Ends : x = e \/ x = p
  BY Peers, Zenon DEF CalmInv
<1>b. /\ Peer("dialler") = "acceptor" /\ Peer("acceptor") = "dialler"
      /\ "dialler" \in Ends /\ "acceptor" \in Ends /\ "dialler" # "acceptor"
      /\ (e = "dialler" \/ e = "acceptor")
  BY DEF Peer, Ends
<1>c. /\ reader[e] \in Readers /\ reader'[e] \in Readers /\ s \in Seq(Frames)
      /\ got[e] \in Seq(Frames) /\ Len(got[e]) \in Nat /\ Prefix(got[e], s)
      /\ state[e] = "UNPREPARED" \/ state[e] = "ESTABLISHED"
  <2>1. got[e] \in Seq(Frames) /\ s \in Seq(Frames)
    BY <1>a, Zenon DEF TypeOK
  <2>2. Len(got[e]) \in Nat
    BY ONLY <2>1
  <2> QED
    BY <1>a, <2>1, <2>2, Zenon DEF TypeOK, Delivery
<1>d. "UNPREPARED" # "ESTABLISHED" /\ "idle" # "rearm" /\ ~ (0 > 0) /\ 0 # 1
  OBVIOUS
<1> HIDE DEF p, s
<1>e. ASSUME Apart(e), UNCHANGED state \/ e = "dialler" PROVE Delivery(p)'
  <2>1. /\ reader'[p] = reader[p] /\ io'[p] = io[p] /\ state'[p] = state[p] /\ got'[p] = got[p]
        /\ UNCHANGED sent
    BY <1>a, <1>e, Zenon DEF Apart, p
  <2>2. p = "dialler" => state'["acceptor"] = state["acceptor"]
    BY <1>a, <1>e, Zenon
  <2> QED
    BY <1>a, <2>1, <2>2, DeliveryKept, Zenon
<1>f. ASSUME Delivery(e)', Delivery(p)' PROVE \A x \in Ends : Delivery(x)'
  BY <1>a, <1>f, Zenon
<1>g. Whole(e) => Intact(reader[e], s, Len(got[e]))
  BY Zenon DEF Whole, s, p
<1>1. CASE FillRead(e)
  <2>1. /\ reader[e].filled = 0 /\ reader[e].in # <<>>
        /\ reader'[e].in = Tail(reader[e].in) /\ reader'[e].buf = Head(reader[e].in)
        /\ reader'[e].armed = 0 /\ reader'[e].filled = 1
        /\ Apart(e) /\ UNCHANGED <<state, io, got>>
    BY <1>1, <1>a, FillCalm, Zenon
  <2>2. io[e] = "idle" /\ ~ Deaf(e) /\ reader'[e].filled > 0 /\ UNCHANGED sent
    BY <1>1, <2>1 DEF FillRead, Idle, Deaf
  <2>3. Restarted(reader[e], reader'[e])
    BY <2>1, Zenon DEF Restarted
  <2>4. ASSUME e = "dialler" /\ state[e] = "UNPREPARED" PROVE Delivery(e)'
    BY <1>a, <1>c, <1>d, <2>1, <2>2, <2>3, <2>4, DeliveryDialler, Zenon
  <2>5. ASSUME ~ (e = "dialler" /\ state[e] = "UNPREPARED") PROVE Delivery(e)'
    <3>1. Whole(e)
      BY <1>a, <2>2, <2>5, Zenon DEF Delivery, Unconfirmed
    <3>2. Intact(reader'[e], s, Len(got[e]))
      BY <1>c, <1>g, <2>1, <2>2, <3>1, IntactFill, Zenon
    <3>3. Whole(e)'
      BY <2>1, <2>2, <2>5, <3>2, Zenon DEF Whole, s, p
    <3> QED
      BY <1>c, <2>1, <2>2, <3>3, Zenon DEF Delivery, s, p
  <2> QED
    BY <1>e, <1>f, <2>1, <2>4, <2>5, Zenon
<1>2. CASE Rearm(e)
  <2>1. /\ reader[e].filled = 0 /\ Restarted(reader[e], reader'[e])
        /\ io[e] = "rearm" /\ io'[e] = "idle" /\ Apart(e) /\ UNCHANGED <<state, got>>
    BY <1>2, <1>a, RearmCalm, Zenon
  <2>2. ~ Deaf(e) /\ UNCHANGED sent
    BY <2>1, Zenon DEF Deaf, Apart
  <2>3. ASSUME e = "dialler" PROVE Delivery(e)'
    <3>1. state["dialler"] = "UNPREPARED"
      BY <1>a, <2>1, <2>3, Zenon DEF ToDialler
    <3> QED
      BY <1>a, <1>c, <1>d, <2>1, <2>2, <2>3, <3>1, DeliveryDialler, Zenon
  <2>4. ASSUME e = "acceptor" PROVE Delivery(e)'
    <3>1. state'[e] = "ESTABLISHED"
      BY <1>a, <2>1, <2>4, Zenon DEF ToAcceptor
    <3>2. Whole(e)
      BY <1>a, <1>b, <2>2, <2>4, Zenon DEF Delivery, Unconfirmed
    <3>3. sent'[Peer(e)] = s /\ got'[e] = got[e] /\ io'[e] # "rearm"
      BY <1>d, <2>1, <2>2, Zenon DEF s, p
    <3> QED
      BY <1>c, <1>g, <2>1, <3>1, <3>2, <3>3, DeliveryRestarted, Zenon
  <2> QED
    BY <1>b, <1>e, <1>f, <2>1, <2>3, <2>4, Zenon
<1>3. CASE OnReceiveConfirmEstablished(e)
  <2>1. /\ Called(e, "UNPREPARED", {"CONFIRM"}) /\ Restarted(Read(e), reader'[e])
        /\ state'[e] = "ESTABLISHED" /\ Apart(e) /\ UNCHANGED <<io, got>>
    BY <1>3, <1>a, ConfirmCalm, Zenon
  <2>2. e = "dialler" /\ UNCHANGED sent
    BY <1>b, <2>1, Roles, Zenon DEF Apart
  <2>3. /\ Read(e) \in Readers /\ Read(e).in = reader[e].in /\ Read(e).filled = 0 /\ io'[e] = "idle"
        /\ reader[e].filled = 1 /\ reader[e].filled > 0 /\ state[e] = "UNPREPARED"
        /\ reader[e].buf.type = "CONFIRM"
    BY <2>1, <1>a, CalledCalm
  <2>4. ~ Deaf(e) /\ ~ Unconfirmed(e)
    BY <1>d, <2>2, <2>3, Zenon DEF Deaf, Unconfirmed, NoConfirm
  <2>5. reader[e].buf.type \notin Data
    BY <2>3 DEF Data
  <2>6. Intact(Read(e), s, Len(got[e]))
    BY <1>a, <1>c, <1>g, <2>3, <2>4, <2>5, IntactIdle, Zenon DEF Delivery
  <2>7. sent'[Peer(e)] = s /\ got'[e] = got[e] /\ io'[e] # "rearm"
    BY <1>d, <2>1, <2>2, <2>3, Zenon DEF s, p
  <2>8. Delivery(e)'
    BY <1>c, <2>1, <2>3, <2>6, <2>7, DeliveryRestarted, Zenon
  <2> QED
    BY <1>e, <1>f, <2>1, <2>2, <2>8, Zenon
<1>4. CASE OnReceiveChatMessageFrame(e) \/ OnReceiveFileOffer(e)
  <2>1. /\ Called(e, "ESTABLISHED", Data) /\ Restarted(Read(e), reader'[e])
        /\ got'[e] = Append(got[e], reader[e].buf) /\ Apart(e) /\ UNCHANGED <<io, state>>
    <3>1. \/ Called(e, "ESTABLISHED", {"CHAT"}) \/ Called(e, "ESTABLISHED", {"OFFER"})
      BY <1>4, <1>a, ChatCalm, OfferCalm, Zenon
    <3>2. Called(e, "ESTABLISHED", Data)
      BY <3>1 DEF Called, Data
    <3> QED
      BY <1>4, <1>a, <3>2, ChatCalm, OfferCalm, Zenon
  <2>2. /\ Read(e) \in Readers /\ Read(e).in = reader[e].in /\ Read(e).filled = 0 /\ io'[e] = "idle"
        /\ reader[e].filled = 1 /\ reader[e].filled > 0 /\ state[e] = "ESTABLISHED"
        /\ reader[e].buf.type \in Data /\ UNCHANGED sent
    BY <2>1, <1>a, CalledCalm, Zenon DEF Apart
  <2>3. Whole(e)
    <3>1. "HELLO" \notin Data
      BY DEF Data
    <3>2. ~ Deaf(e)
      BY <1>d, <2>2, <3>1, Zenon DEF Deaf
    <3>3. ~ Unconfirmed(e)
      BY <1>d, <2>2, Zenon DEF Unconfirmed
    <3> QED
      BY <1>a, <3>2, <3>3, Zenon DEF Delivery
  <2>4. /\ Len(got[e]) < Len(s) /\ reader[e].buf = s[Len(got[e]) + 1]
        /\ Intact(Read(e), s, Len(got[e]) + 1)
    BY <1>c, <1>g, <2>2, <2>3, IntactTaken, Zenon
  <2>5. reader[e].buf \in Frames
    BY <1>c, Fields, Zenon
  <2>6. Len(got'[e]) = Len(got[e]) + 1 /\ Prefix(got'[e], s)
    <3>1. PICK x \in Seq(Frames) : x = got[e]
      BY <1>c
    <3>2. PICK f \in Frames : f = reader[e].buf
      BY <2>5, SMTT(60)
    <3>3. Len(x) < Len(s) /\ f = s[Len(x) + 1] /\ Prefix(x, s)
      BY <1>c, <2>4, <3>1, <3>2
    <3>4. Len(Append(x, f)) = Len(x) + 1 /\ Prefix(Append(x, f), s)
      BY ONLY <1>c, <3>3, x \in Seq(Frames), f \in Frames DEF Prefix
    <3> QED
      BY <2>1, <3>1, <3>2, <3>4, SMTT(60)
  <2>7. sent'[Peer(e)] = s /\ io'[e] # "rearm" /\ state'[e] = "ESTABLISHED"
    BY <1>d, <2>1, <2>2, Zenon DEF s, p
  <2>8. Delivery(e)'
    BY <1>c, <2>1, <2>2, <2>4, <2>6, <2>7, DeliveryRestarted, Zenon
  <2> QED
    BY <1>e, <1>f, <2>1, <2>8, Zenon
<1>5. CASE IgnoreFrame(e)
  <2>1. /\ reader'[e].armed = 0 /\ reader'[e].filled = 0 /\ Apart(e)
        /\ UNCHANGED <<state, io, got>> /\ io[e] = "idle"
    BY <1>5, <1>a, IgnoreCalm, Zenon
  <2>2. Prefix(got'[e], sent'[Peer(e)]) /\ io'[e] # "rearm"
    BY <1>c, <1>d, <2>1, Zenon DEF Apart, s, p
  <2>3. Delivery(e)'
    BY <2>1, <2>2, DeliveryDeaf, Zenon
  <2> QED
    BY <1>e, <1>f, <2>1, <2>3, Zenon
<1>6. CASE OnReceiveHelloFrame(e)
  <2>1. /\ Called(e, "UNPREPARED", {"HELLO"})
        /\ reader'[e].in = reader[e].in /\ reader'[e].filled = 0
        /\ Gets(reader[p], reader'[p], Frame("HELLOBACK", 0))
        /\ io'[e] = "rearm" /\ io'[p] = io[p] /\ UNCHANGED <<state, sent, got>>
    BY <1>6, <1>a, HelloCalm, Zenon DEF p
  <2>2. e = "dialler"
    BY <1>b, <2>1, Roles, Zenon
  <2>3. reader[e].filled = 1 /\ state[e] = "UNPREPARED" /\ reader[e].buf.type = "HELLO"
    <3>1. Called(e, "UNPREPARED", {"HELLO"})
      BY ONLY <2>1, Zenon
    <3>2. /\ reader[e].filled = 1 /\ state[e] = "UNPREPARED"
          /\ reader[e].buf.type \in {"HELLO"}
      BY <1>a, <3>1, CalledCalm, Zenon
    <3> QED
      BY ONLY <3>2
  <2>4. ~ Deaf(e)
    BY <1>d, <2>3, Zenon DEF Deaf
  <2>5. Delivery(e)'
    BY <1>a, <1>c, <2>1, <2>2, <2>3, <2>4, DeliveryDialler, Zenon
  <2>6. /\ Frame("HELLOBACK", 0) \in Frames /\ Frame("HELLOBACK", 0).type \notin Data
        /\ Frame("HELLOBACK", 0).type # "CONFIRM"
    BY Written DEF Data
  <2>7. Delivery(p)'
    BY <1>a, <2>1, <2>6, DeliveryControl, Zenon
  <2> QED
    BY <1>f, <2>5, <2>7, Zenon
<1>7. CASE OnReceiveHelloBackFrame(e)
  <2>1. /\ Called(e, "UNPREPARED", {"HELLOBACK"})
        /\ reader'[e].in = reader[e].in /\ reader'[e].filled = 0
        /\ Gets(reader[p], reader'[p], Frame("CONFIRM", 0))
        /\ io'[e] = "rearm" /\ io'[p] = io[p]
        /\ state'[e] = "ESTABLISHED" /\ state'[p] = state[p]
        /\ UNCHANGED <<sent, got>>
    BY <1>7, <1>a, HelloBackCalm, Zenon DEF p
  <2>2. e = "acceptor" /\ p = "dialler" /\ state["acceptor"] = "UNPREPARED"
    BY <1>b, <2>1, Roles, Zenon DEF Called, p
  <2>3. reader[e].filled = 1 /\ state[e] = "UNPREPARED" /\ reader[e].buf.type = "HELLOBACK"
    <3>1. Called(e, "UNPREPARED", {"HELLOBACK"})
      BY ONLY <2>1, Zenon
    <3>2. /\ reader[e].filled = 1 /\ state[e] = "UNPREPARED"
          /\ reader[e].buf.type \in {"HELLOBACK"}
      BY <1>a, <3>1, CalledCalm, Zenon
    <3> QED
      BY ONLY <3>2
  <2>4. reader[e].buf.type \notin Data
    BY <2>3 DEF Data
  <2>5. ~ Deaf(e) /\ ~ Unconfirmed(e)
    BY <1>b, <1>d, <2>2, <2>3, Zenon DEF Deaf, Unconfirmed
  <2>6. Intact(reader'[e], s, Len(got[e]))
    BY <1>a, <1>c, <1>g, <2>1, <2>4, <2>5, IntactIdle, Zenon DEF Delivery
  <2>7. Delivery(e)'
    <3>1. Whole(e)'
      BY <1>b, <2>1, <2>2, <2>6, Zenon DEF Whole, s, p
    <3> QED
      BY <1>c, <2>1, <3>1, Zenon DEF Delivery, s, p
  <2>8. CASE Deaf(p)
    <3>1. Deaf(p)'
      BY <2>1, <2>8, Zenon DEF Deaf, Gets
    <3> QED
      BY <1>a, <1>f, <2>1, <2>7, <3>1, Zenon DEF Delivery
  <2>9. CASE Whole(p)
    <3>1. /\ Frame("CONFIRM", 0) \in Frames /\ Frame("CONFIRM", 0).type \notin Data
          /\ Frame("CONFIRM", 0).type = "CONFIRM"
      BY Written DEF Data
    <3>2. /\ reader[p] \in Readers /\ reader'[p] \in Readers /\ sent[e] \in Seq(Frames)
          /\ Len(got[p]) \in Nat
      <4>1. got[p] \in Seq(Frames)
        BY <1>a, Zenon DEF TypeOK
      <4>2. Len(got[p]) \in Nat
        BY ONLY <4>1
      <4> QED
        BY <1>a, <4>2, Zenon DEF TypeOK
    <3>3. Intact(reader'[p], sent[e], Len(got[p]))
      BY <1>a, <2>1, <2>9, <3>1, <3>2, IntactControl, Zenon DEF Whole
    <3>4. \A i \in DOMAIN reader[p].in : reader[p].in[i].type = "HELLO"
      BY <1>a, <2>2, Zenon DEF ToDialler, Arriving
    <3>5. reader[p].filled > 0 => reader[p].buf.type = "HELLO"
      BY <1>a, <2>2, Zenon DEF ToDialler
    <3>6. ConfirmDue(reader'[p])
      BY <2>1, <3>1, <3>2, <3>4, <3>5, ConfirmComes, Zenon
    <3>7. Whole(p)'
      BY <1>a, <2>1, <2>2, <3>3, <3>6, Zenon DEF Whole
    <3> QED
      BY <1>a, <1>f, <2>1, <2>7, <3>7, Zenon DEF Delivery
  <2>10. ~ Unconfirmed(p)
    BY <1>d, <2>2, Zenon DEF Unconfirmed
  <2> QED
    BY <1>a, <2>8, <2>9, <2>10, Zenon DEF Delivery
<1>8. CASE SendDataToNode(e) \/ SendFileOffer(e)
  <2>1. PICK f \in Frames :
           /\ f.type \in Data /\ f.id = Len(sent[e]) + 1
           /\ reader'[e] = reader[e] /\ Gets(reader[p], reader'[p], f)
           /\ sent'[e] = Append(sent[e], f) /\ sent'[p] = sent[p]
           /\ UNCHANGED <<state, io, got>>
    BY <1>8, SendCalm, Zenon DEF p
  <2>2. Delivery(e)'
    BY <1>a, <2>1, DeliveryKept, Zenon DEF p
  <2>3. Delivery(p)'
    BY <1>a, <2>1, DeliveryData, Zenon
  <2> QED
    BY <1>f, <2>2, <2>3, Zenon
<1>9. CASE WriteMessageFrameCallback(e) \/ AssertFails(e)
  <2>1. /\ UNCHANGED <<reader, state, sent, got>>
        /\ \A x \in Ends : io'[x] = io[x] \/ io'[x] # "rearm"
    BY <1>9, OtherCalm
  <2>2. Delivery(e)' /\ Delivery(p)'
    BY <1>a, <2>1, DeliveryKept, Zenon
  <2> QED
    BY <1>f, <2>2, Zenon
<1>10. ~ FlushWrite(e)
  BY WaitingStep, Zenon DEF CalmInv
<1> QED
  BY <1>1, <1>2, <1>3, <1>4, <1>5, <1>6, <1>7, <1>8, <1>9, <1>10, Zenon DEF Works
-----------------------------------------------------------------------------
(* The theorems *)

(* The connection starts so. *)
LEMMA InitIInv == Init => IInv
<1> SUFFICES ASSUME Init PROVE IInv
  OBVIOUS
<1>1. TypeOK
  BY InitTypeOK
<1>2. \A e \in Ends :
        /\ reader[e].armed = 1 /\ reader[e].filled = 0 /\ writer[e].waiting = 0
        /\ io[e] = "idle" /\ state[e] = "UNPREPARED" /\ sent[e] = <<>> /\ got[e] = <<>>
  BY DEF Init
<1>3. "dialler" \in Ends /\ "acceptor" \in Ends /\ \A e \in Ends : Peer(e) \in Ends
  BY DEF Ends, Peer
<1>4. reader["dialler"].in = <<Zeros>> /\ reader["acceptor"].in = <<>>
  BY DEF Init, Ends, Zeros
<1>5. Arriving(reader["acceptor"]) = {} /\ Arriving(reader["dialler"]) = {"HELLO"}
  <2>1. DOMAIN <<>> = {} /\ DOMAIN <<Zeros>> = {1} /\ <<Zeros>>[1] = Zeros /\ Zeros.type = "HELLO"
    BY FramesTyped
  <2> QED
    BY <1>4, <2>1 DEF Arriving
<1>6. ReaderLives
  BY <1>2 DEF ReaderLives
<1>7. \A e \in Ends : OneRead(e)
  BY <1>2 DEF OneRead
<1>8. ToAcceptor
  BY <1>2, <1>3, <1>5 DEF ToAcceptor
<1>9. OneConfirm(reader["dialler"])
  <2>1. \A i \in DOMAIN reader["dialler"].in : reader["dialler"].in[i].type # "CONFIRM"
    BY <1>5 DEF Arriving
  <2> QED
    BY <1>2, <1>3, <2>1 DEF OneConfirm
<1>10. ToDialler
  BY <1>2, <1>3, <1>5, <1>9 DEF ToDialler
<1>11. ASSUME NEW e \in Ends PROVE Delivery(e)
  <2>1. \A i \in DOMAIN reader[e].in : reader[e].in[i].type \notin Data
    BY <1>5, SMTT(60) DEF Arriving, Ends, Data
  <2>2. sent[Peer(e)] = <<>> /\ got[e] = <<>> /\ reader[e].filled = 0
    BY <1>2, <1>3
  <2>3. Len(<<>>) = 0 /\ \A k : k \notin 1..0
    OBVIOUS
  <2>4. Prefix(got[e], sent[Peer(e)])
    BY ONLY <2>2, <2>3, SMTT(60) DEF Prefix
  <2>5. Intact(reader[e], sent[Peer(e)], Len(got[e]))
    BY ONLY <2>1, <2>2, <2>3, SMTT(60) DEF Intact
  <2>6. Whole(e)
    BY <1>2, <1>3, <2>5 DEF Whole
  <2> QED
    BY <2>4, <2>6 DEF Delivery
<1> QED
  BY <1>1, <1>2, <1>6, <1>7, <1>8, <1>10, <1>11, Zenon DEF IInv, CalmInv

(* Every step keeps it. *)
LEMMA StepIInv == IInv /\ [Next]_vars => IInv'
<1> SUFFICES ASSUME IInv, [Next]_vars PROVE IInv'
  OBVIOUS
<1>1. TypeOK /\ TypeOK'
  BY StepTypeOK, Zenon DEF IInv
<1>2. CASE Next
  <2>1. PICK e \in Ends : Works(e) \/ SendDataToNode(e) \/ SendFileOffer(e) \/ AssertFails(e)
    BY <1>2, Zenon DEF Next
  <2>2. ReaderLives'
    BY <1>1, <2>1, LivesStep, Zenon DEF IInv
  <2>3. ASSUME Calm' PROVE CalmInv'
    <3>1. CalmInv
      BY <2>1, <2>3, CalmBefore, Zenon DEF IInv
    <3>2. \A x \in Ends : writer'[x].waiting = 0
      BY <1>1, <2>1, <2>3, <3>1, WaitingStep, Zenon DEF CalmInv
    <3> QED
      BY <1>1, <2>1, <2>3, <3>1, <3>2, OneReadStep, HandshakeStep, DeliveryStep, Zenon DEF CalmInv
  <2> QED
    BY <1>1, <2>2, <2>3, Zenon DEF IInv
<1>3. CASE UNCHANGED vars
  BY <1>1, <1>3, Zenon DEF vars, IInv, ReaderLives, Calm, CalmInv, OneRead, ToAcceptor, ToDialler,
     Delivery, Deaf, Unconfirmed, Whole
<1> QED
  BY <1>2, <1>3

LEMMA IInvHolds == Spec => []IInv
<1> QED
  BY InitIInv, StepIInv, PTL DEF Spec

(* Element by element, or by SubSeq. *)
LEMMA PrefixMeans ==
  ASSUME NEW s \in Seq(Frames), NEW t \in Seq(Frames), Prefix(s, t)
  PROVE  IsPrefixOf(s, t)
<1>1. Len(s) <= Len(t) /\ \A k \in 1..Len(s) : s[k] = t[k]
  BY DEF Prefix
<1>2. s = SubSeq(t, 1, Len(s))
  BY <1>1
<1> QED
  BY <1>1, <1>2 DEF IsPrefixOf

(* InOrder for any number of frames and any window: what the app of an end *)
(* is given is a prefix of what the other user sent, as long as no write   *)
(* had to wait for the kernel, no chat handler met an offer already in its *)
(* buffer, and no offer was taken for HELLOBACK.                           *)
THEOREM InOrderHolds == Spec => []InOrder
<1>1. IInv => InOrder
  <2> SUFFICES ASSUME IInv, Calm, NEW e \in Ends PROVE IsPrefixOf(got[e], sent[Peer(e)])
    BY Zenon DEF InOrder, Calm
  <2>1. Prefix(got[e], sent[Peer(e)])
    BY Zenon DEF IInv, CalmInv, Delivery
  <2>2. got[e] \in Seq(Frames) /\ sent[Peer(e)] \in Seq(Frames)
    BY Peers, Zenon DEF IInv, TypeOK
  <2> QED
    BY <2>1, <2>2, PrefixMeans, Zenon
<1> QED
  BY <1>1, IInvHolds, PTL

(* ReaderLives for any number of frames and any window: a session that no  *)
(* upset has touched has exactly one read outstanding, or none while the   *)
(* handler that will arm it is running.                                    *)
THEOREM ReaderLivesHolds == Spec => []ReaderLives
<1>1. IInv => ReaderLives
  BY DEF IInv
<1> QED
  BY <1>1, IInvHolds, PTL
=============================================================================
