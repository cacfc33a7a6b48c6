----------------------------- MODULE TcpFraming -----------------------------
(***************************************************************************)
(* tcpcnx (tcpcnx.cpp) at the level of bytes, for one connection.          *)
(*                                                                         *)
(* A frame is a header of 5 bytes, the order of the size's bytes and the   *)
(* size as an int32, and a payload.  The connection reads it with one      *)
(* async_read_some for the header and one for the payload, and takes       *)
(* whatever each of them brings for the whole of it.  Any thread writes a  *)
(* frame with three write_some under m_mtx_write.  "whole" and "cut" are   *)
(* history: whether every read brought what was asked for, and whether     *)
(* some write took less than it was given.                                 *)
(***************************************************************************)
EXTENDS Integers, Sequences, SequencesExt

CONSTANTS
  Base,       \* values of a byte, 256 in the code
  Payloads,   \* what the peer's frames carry
  MaxFrames,  \* bound: frames of the peer
  Writers,    \* threads that write to the connection
  MaxWrites,  \* bound: calls of write
  Replies     \* what they write; never empty, see gen_stomp_message

HEADER_SIZE == 5
Bytes == 0..Base - 1
Nobody == "nobody"

ASSUME FramingAssumption ==
  /\ Base \in Nat /\ Base > 1 /\ Base % 2 = 0
  /\ MaxFrames \in Nat /\ MaxWrites \in Nat /\ Nobody \notin Writers
  /\ Payloads \subseteq Seq(Bytes) /\ Replies \subseteq Seq(Bytes) \ {<<>>}
  /\ \A p \in Payloads \cup Replies : Len(p) < Base * Base * Base * (Base \div 2)

VARIABLES
  sent,       \* payloads the peer sent
  inbound,    \* bytes of them the connection has not read
  b_w_header, m_payload_size, m_rx_b,
  delivered,  \* what on_data_rx was given, for as long as every read is whole
  whole,
  open,       \* the socket of the server's end
  peer,       \* the peer is there
  dead,       \* an exception has ended the process
  m_mtx_write,
  pc,         \* writer to the place it has reached in write
  reply,      \* writer to what it writes
  began,      \* payloads of the writes, in the order they took m_mtx_write
  out,        \* bytes written, for as long as no write is cut
  failed,     \* a write_some has failed: those that follow fail too
  cut

reading == <<sent, inbound, b_w_header, m_payload_size, m_rx_b, delivered, whole, peer, dead>>
writing == <<m_mtx_write, pc, reply, began, out, failed, cut>>
vars == <<reading, writing, open>>

-----------------------------------------------------------------------------
(* An int32 as its bytes, the least significant first.                     *)
Worth == <<1, Base, Base * Base, Base * Base * Base>>
SizeBytes(n) == [i \in 1..4 |-> (n \div Worth[i]) % Base]
Int32(b) ==
  LET n == b[1] + b[2] * Worth[2] + b[3] * Worth[3] + b[4] * Worth[4]
  IN IF b[4] >= Base \div 2 THEN n - Base * Worth[4] ELSE n

(* A frame: of the peer, in the order it likes, and of the server.         *)
PeerFrame(p, invert) ==
  <<IF invert THEN 1 ELSE 0>>
    \o (IF invert THEN Reverse(SizeBytes(Len(p))) ELSE SizeBytes(Len(p))) \o p
ServerFrame(p) == <<0>> \o SizeBytes(Len(p)) \o p

resize(v, n) == [i \in 1..n |-> IF i <= Len(v) THEN v[i] ELSE 0]
Filled(v, bytes) == [i \in DOMAIN v |-> IF i <= Len(bytes) THEN bytes[i] ELSE v[i]]

(* std::swap of bytes 1 and 4, 2 and 3, if the first byte says so.         *)
KeepOrder(v) == v            \* slip: the first byte is ignored
InvertBytes(v) ==
  [i \in DOMAIN v |-> IF i = 1 \/ v[1] = 0 THEN v[i] ELSE v[7 - i]]

-----------------------------------------------------------------------------
(* The peer                                                                *)
PeerSends ==
  /\ peer /\ Len(sent) < MaxFrames
  /\ \E p \in Payloads, invert \in BOOLEAN :
       /\ sent' = Append(sent, p)
       /\ inbound' = inbound \o PeerFrame(p, invert)
  /\ UNCHANGED <<b_w_header, m_payload_size, m_rx_b, delivered, whole, peer, dead, writing, open>>

PeerLeaves ==
  /\ peer /\ peer' = FALSE
  /\ UNCHANGED <<sent, inbound, b_w_header, m_payload_size, m_rx_b, delivered, whole, dead,
                 writing, open>>

-----------------------------------------------------------------------------
(* The handler of async_read_some, and the read() at its end.              *)
Alive == open /\ ~dead
Bring(n) ==                  \* n bytes come, as many as were asked for or fewer
  /\ Alive /\ n \in 1..Len(inbound) /\ n <= m_payload_size
  /\ inbound' = SubSeq(inbound, n + 1, Len(inbound))
  /\ whole' = (whole /\ n = m_payload_size)

KeepWaiting(size) == size    \* slip: the payload's size outlives its frame
ForgetHeader(size) == 0      \* slip: the size is cleared only
NextHeader(size) == HEADER_SIZE

HeaderReceived(n) ==
  LET header == InvertBytes(Filled(m_rx_b, SubSeq(inbound, 1, n)))
      size == Int32(SubSeq(header, 2, 5))
  IN
  /\ b_w_header /\ Bring(n)
  /\ b_w_header' = FALSE
  /\ m_payload_size' = size
  /\ dead' = (size < 0)      \* as a size_t it is beyond max_size: resize throws
  /\ m_rx_b' = IF size < 0 THEN header ELSE resize(header, size)
  /\ UNCHANGED <<sent, delivered, peer, writing, open>>

ViewAfterReset(v) == resize(v, HEADER_SIZE)   \* slip: of m_payload_size as read() sets it
View(v) == resize(v, m_payload_size)

PayloadReceived(n) ==
  LET buffer == Filled(m_rx_b, SubSeq(inbound, 1, n))
  IN
  /\ ~b_w_header /\ Bring(n)
  /\ b_w_header' = TRUE
  /\ delivered' = IF whole' THEN Append(delivered, View(buffer)) ELSE delivered
  /\ m_payload_size' = NextHeader(m_payload_size)
  /\ m_rx_b' = resize(buffer, NextHeader(m_payload_size))
  /\ UNCHANGED <<sent, peer, dead, writing, open>>

(* A read of no bytes completes at once, and on_data_rx throws when it     *)
(* gets an empty frame: see EmptyFrame of StompParser.                     *)
EmptyPayload ==
  /\ Alive /\ ~b_w_header /\ m_payload_size = 0
  /\ dead' = TRUE
  /\ UNCHANGED <<sent, inbound, b_w_header, m_payload_size, m_rx_b, delivered, whole, peer,
                 writing, open>>

ReadError ==                 \* end of file, or the peer has reset the connection
  /\ Alive /\ ~peer
  /\ open' = FALSE
  /\ UNCHANGED <<reading, writing>>

-----------------------------------------------------------------------------
(* write, by one thread                                                    *)
Goto(w, from, to) == pc[w] = from /\ pc' = [pc EXCEPT ![w] = to]

NoLock(w) == UNCHANGED m_mtx_write    \* slip: write takes no lock
Locks(w) == m_mtx_write = Nobody /\ m_mtx_write' = w

(* A write to a socket that is not open takes and releases the lock: no    *)
(* step here.                                                              *)
StartWrite(w) ==
  /\ Alive /\ Goto(w, "idle", "flag")
  /\ Len(began) < MaxWrites
  /\ Locks(w)
  /\ \E p \in Replies : reply' = [reply EXCEPT ![w] = p]
  /\ began' = Append(began, reply'[w])
  /\ UNCHANGED <<reading, out, failed, cut, open>>

(* One write_some of bytes: it takes some of them, or fails.  The error    *)
(* of the last one decides, and an error does not go away.                 *)
WriteSome(w, bytes, from, to) ==
  /\ ~dead /\ Goto(w, from, to)
  /\ \/ /\ open /\ ~failed
        /\ \E n \in 1..Len(bytes) : cut' = (cut \/ n < Len(bytes))
        /\ out' = IF cut' THEN <<>> ELSE out \o bytes
        /\ UNCHANGED failed
     \/ /\ ~open \/ ~peer
        /\ failed' = TRUE /\ UNCHANGED <<out, cut>>
  /\ UNCHANGED <<reading, m_mtx_write, reply, began, open>>

WriteFlag(w) == WriteSome(w, <<0>>, "flag", "size")
WriteSize(w) == WriteSome(w, SizeBytes(Len(reply[w])), "size", "data")
WriteData(w) == WriteSome(w, reply[w], "data", "end")

MustClose(close_on_write) == failed \/ close_on_write

(* The lock is released when write returns, after the close.               *)
EndWrite(w) ==
  /\ ~dead /\ Goto(w, "end", "idle")
  /\ \E close_on_write \in BOOLEAN : open' = (open /\ ~MustClose(close_on_write))
  /\ m_mtx_write' = Nobody
  /\ UNCHANGED <<reading, reply, began, out, failed, cut>>

-----------------------------------------------------------------------------
FramingInit ==
  /\ sent = <<>> /\ inbound = <<>> /\ delivered = <<>>
  /\ b_w_header = TRUE /\ m_payload_size = HEADER_SIZE
  /\ m_rx_b = [i \in 1..HEADER_SIZE |-> 0]
  /\ whole = TRUE /\ open = TRUE /\ peer = TRUE /\ dead = FALSE
  /\ m_mtx_write = Nobody
  /\ pc = [w \in Writers |-> "idle"]
  /\ reply \in [Writers -> Replies]
  /\ began = <<>> /\ out = <<>> /\ failed = FALSE /\ cut = FALSE

ReadSome == \E n \in 1..Len(inbound) : HeaderReceived(n) \/ PayloadReceived(n)
read == ReadSome \/ EmptyPayload \/ ReadError
GoOn(w) == WriteFlag(w) \/ WriteSize(w) \/ WriteData(w) \/ EndWrite(w)

FramingNext ==
  \/ PeerSends \/ PeerLeaves \/ read
  \/ \E w \in Writers : StartWrite(w) \/ GoOn(w)

(* The io thread serves completed reads, and a write goes on.              *)
FramingSpec ==
  /\ FramingInit /\ [][FramingNext]_vars
  /\ WF_vars(read) /\ \A w \in Writers : WF_vars(GoOn(w))

-----------------------------------------------------------------------------
Places == {"idle", "flag", "size", "data", "end"}

(* The buffer is as long as the read that was asked for, so that neither   *)
(* the five bytes of a header nor the view of a payload leave it.          *)
FramingTypeOK ==
  /\ sent \in Seq(Payloads) /\ inbound \in Seq(Bytes) /\ delivered \in Seq(Seq(Bytes))
  /\ b_w_header \in BOOLEAN /\ m_payload_size \in Int /\ m_rx_b \in Seq(Bytes)
  /\ ~dead => Len(m_rx_b) = m_payload_size /\ (b_w_header => m_payload_size = HEADER_SIZE)
  /\ {whole, open, peer, dead, failed, cut} \subseteq BOOLEAN
  /\ m_mtx_write \in Writers \cup {Nobody}
  /\ pc \in [Writers -> Places] /\ reply \in [Writers -> Replies]
  /\ began \in Seq(Replies) /\ out \in Seq(Bytes)

(* While no read was short, the connection is the channel the server       *)
(* expects: header after payload, either order of bytes, no byte of one    *)
(* frame in another.                                                       *)
Channel == INSTANCE FrameChannel WITH up <- Alive, intact <- whole
ImplementsChannel == Channel!ChannelSpec

(* Only a frame without a payload, or what follows a short read, makes the *)
(* handlers of a read throw.                                               *)
DeathHasACause ==
  dead => \/ ~whole
          \/ Len(sent) > Len(delivered) /\ sent[Len(delivered) + 1] = <<>>

(* Frames of several threads do not mix: while no write was short, what    *)
(* was written are the frames of the writes that began, in their order, of *)
(* which the last may be on its way.  One that an error has spoilt is the  *)
(* last: the connection does not stay open for another.                    *)
FramesDoNotMix ==
  LET frames == FlattenSeq([i \in DOMAIN began |-> ServerFrame(began[i])])
  IN ~cut => /\ IsPrefix(out, frames)
             /\ open /\ m_mtx_write = Nobody => out = frames

(* A frame that was sent is delivered, unless the connection ends or a     *)
(* read was short, whatever is written to it meanwhile.                    *)
FramesArrive ==
  \A k \in 1..MaxFrames :
    (Len(sent) >= k) ~> (Len(delivered) >= k \/ ~whole \/ ~Alive)
=============================================================================
