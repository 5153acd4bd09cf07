------------------------------ MODULE StreamLink ------------------------------
(***************************************************************************)
(* Frames over the byte stream to the cloud: the sending and receiving     *)
(* loops of trans_socket_tls.c and trans_socket_tcp.c, the part of         *)
(* trans_link.c that reads a message and widens its buffer, and the length *)
(* rule CoapTcpV1GetRemainSize they are given.                             *)
(*                                                                         *)
(* A byte is its position in the stream.  A frame of the peer has a length *)
(* `n` and `says`, the length its first two bytes give when they are read  *)
(* as CoapTcpV1GetRemainSize reads them.  The frames CoapTcpV1Encode makes *)
(* and CoapTcpV1Decode takes begin with a nibble of length, the token's    *)
(* length and an extension or the code: of these, says is not n.  What the *)
(* peer wrote arrives in records of any size, which may join frames or     *)
(* split them.  The loop reads when the descriptor is readable, that is    *)
(* when a record waits in the kernel; what mbedtls has already taken from  *)
(* it (`left`) the loop does not see.  All of this runs on the loop's      *)
(* thread, the peer at any time.  `last` describes the step just taken.    *)
(***************************************************************************)
EXTENDS Integers, Sequences, SequencesExt

CONSTANTS Kinds,      \* the builds: "tls", "tcp"
          Frames,     \* the peer's frames: length n with the header, and says
          SendLens,   \* lengths of the frames sent
          Alloc, MaxSize, \* size of the receive buffer, and what it may grow to
          MaxFrames,  \* frames of the peer on one link
          MaxRecs,    \* records waiting in the kernel
          MaxSends, MaxLinks

VARIABLE sl

RawHeader == 2  \* COAP_TCP_V1_RAW_HEADER_LEN
Idle == [on |-> FALSE, start |-> 0, got |-> 0, base |-> 0, size |-> Alloc]
NoSend == [n |-> 0, sendLen |-> 0, wire |-> <<>>]
Nothing == [what |-> "none", from |-> 0, to |-> 0]
Fresh == [up |-> FALSE, frames |-> <<>>, queued |-> 0, recs |-> <<>>, left |-> 0, taken |-> 0,
          handed |-> 0, rd |-> Idle, snd |-> NoSend, last |-> Nothing]

StInit == \E k \in Kinds : sl = [Fresh EXCEPT !.up = TRUE] @@ [kind |-> k, links |-> 1, sends |-> 0, lost |-> FALSE]

Sum(seq) == FoldSeq(LAMBDA x, acc : x + acc, 0, seq)
Length(frames) == FoldSeq(LAMBDA f, acc : f.n + acc, 0, frames)
EndOf(s, i) == Length(SubSeq(s.frames, 1, i))
Starts(s) == {EndOf(s, i - 1) : i \in 1 .. Len(s.frames)}
FrameAt(s, p) == s.frames[CHOOSE i \in 1 .. Len(s.frames) : EndOf(s, i - 1) = p]
Whole(s, from, to) == \E i \in 1 .. Len(s.frames) : from = EndOf(s, i - 1) /\ to = EndOf(s, i)

Quiet(s) == [s EXCEPT !.last = Nothing]
LinkError(s) == Fresh @@ [s EXCEPT !.up = FALSE]
Free == sl.up /\ ~sl.lost /\ ~sl.rd.on /\ sl.snd.n = 0

-----------------------------------------------------------------------------
(* The peer and the network.                                               *)

PeerSends ==
  /\ sl.up /\ Len(sl.frames) < MaxFrames
  /\ \E f \in Frames : sl' = Quiet([sl EXCEPT !.frames = Append(@, f), !.queued = @ + f.n])

Arrive ==
  /\ sl.up /\ sl.queued > 0 /\ Len(sl.recs) < MaxRecs
  /\ \E n \in 1 .. sl.queued : sl' = Quiet([sl EXCEPT !.queued = @ - n, !.recs = Append(@, n)])

(* The connection breaks, and the cloud's state machine opens another.     *)
Breaks == sl.up /\ ~sl.lost /\ sl' = LinkError(Quiet(sl))

Reconnect ==
  /\ ~sl.up /\ sl.links < MaxLinks
  /\ sl' = Quiet([sl EXCEPT !.up = TRUE, !.links = @ + 1])

-----------------------------------------------------------------------------
(* Receiving.                                                              *)

(* dataFunc takes what is in the buffer for one message.                   *)
HandOver(s, from, to) ==
  [s EXCEPT !.rd = Idle, !.handed = to, !.last = [what |-> "message", from |-> from, to |-> to]]

(* All that can be read; a buffer that is full but for one byte is an      *)
(* error, whatever the length of the frame.                                *)
TcpSocketRecv ==
  /\ sl.kind = "tcp" /\ Free /\ sl.recs # <<>>
  /\ LET to == sl.taken + Sum(sl.recs)
     IN  sl' = IF to - sl.taken >= Alloc - 1 THEN LinkError(Quiet(sl))
               ELSE HandOver([sl EXCEPT !.recs = <<>>, !.taken = to], sl.taken, to)

TlsRecvBegin ==
  /\ sl.kind = "tls" /\ Free /\ sl.recs # <<>>
  /\ sl' = Quiet([sl EXCEPT !.rd = [Idle EXCEPT !.on = TRUE, !.start = sl.taken]])

(* Faulty: the header is not counted. *)
RemainNoHeader(f, curLen) == IF curLen < RawHeader THEN RawHeader - curLen ELSE f.says - RawHeader - curLen + 1

(* The first two bytes are the length of what follows them, of which       *)
(* curLen - RawHeader bytes are there.                                     *)
CoapTcpV1GetRemainSize(f, curLen) ==
  IF curLen < RawHeader THEN RawHeader - curLen ELSE (f.says - RawHeader) - (curLen - RawHeader)

Reads == sl.rd.on /\ ~sl.lost
Remain == CoapTcpV1GetRemainSize(FrameAt(sl, sl.rd.start), sl.rd.got)
Space == sl.rd.size - sl.rd.base - sl.rd.got

UtilsExpendBuffer(size, expectSize) == IF expectSize > size THEN expectSize ELSE size

(* The buffer is too small: the socket returns what is missing.  The link  *)
(* compares it with the space there was, widens the buffer by that much    *)
(* counted from the bytes it holds, and calls again, and the second call   *)
(* begins a message where the first stopped: inside the frame.             *)
TransLinkReadDataFromSocket ==
  /\ Reads /\ sl.rd.start \in Starts(sl) /\ Remain > Space
  /\ LET len     == sl.rd.base + sl.rd.got
         missing == Remain - Space
     IN  sl' = IF sl.rd.base > 0 \/ missing < sl.rd.size - len \/ missing + len > MaxSize
               THEN LinkError(Quiet(sl))
               ELSE Quiet([sl EXCEPT !.rd = [@ EXCEPT !.start = sl.taken, !.got = 0, !.base = len,
                                                      !.size = UtilsExpendBuffer(@, missing + len)]])

(* What is taken for a header are bytes of a frame's body, of the same     *)
(* frame in the second call or of one that the last message cut: what is   *)
(* read from here on is not modelled.                                      *)
Misreads ==
  /\ Reads /\ sl.rd.start \notin Starts(sl)
  /\ sl' = [sl EXCEPT !.lost = TRUE,
                      !.last = [what |-> IF sl.rd.base > 0 THEN "misread" ELSE "cut",
                                from |-> sl.rd.start - sl.rd.base, to |-> sl.rd.start]]

(* IotcTlsClientRecv returns at most what is left of one record.           *)
IotcTlsClientRecv ==
  /\ Reads /\ sl.rd.start \in Starts(sl) /\ Remain \in 1 .. Space
  /\ \/ /\ sl.left > 0
        /\ LET n == IF sl.left < Remain THEN sl.left ELSE Remain
           IN  sl' = Quiet([sl EXCEPT !.left = @ - n, !.taken = @ + n, !.rd.got = @ + n])
     \/ /\ sl.left = 0 /\ sl.recs # <<>>
        /\ sl' = Quiet([sl EXCEPT !.left = Head(sl.recs), !.recs = Tail(@)])
     \/ /\ sl.left = 0 /\ sl.recs = <<>>   \* the rest does not come in time
        /\ sl' = LinkError(Quiet(sl))

TlsSocketRecv ==
  /\ Reads /\ sl.rd.start \in Starts(sl) /\ Remain = 0
  /\ sl' = HandOver(sl, sl.rd.start - sl.rd.base, sl.rd.start + sl.rd.got)

-----------------------------------------------------------------------------
(* Sending: the stream takes any part of what it is offered.               *)

Sends ==
  /\ Free /\ sl.sends < MaxSends
  /\ \E n \in SendLens : sl' = Quiet([sl EXCEPT !.sends = @ + 1, !.snd = [NoSend EXCEPT !.n = n]])

(* Faulty: the data is offered from its beginning again. *)
OfferAgain(x) == 0

(* Where the next offer starts: the TCP loop offers the whole again.       *)
Offered(x) == IF sl.kind = "tls" THEN x.sendLen ELSE 0

SocketSend ==
  /\ sl.up /\ sl.snd.n > 0
  /\ LET x == sl.snd
     IN \/ \E k \in 1 .. x.n - Offered(x) :
             LET y == [x EXCEPT !.sendLen = @ + k,
                                !.wire = @ \o [i \in 1 .. k |-> Offered(x) + i]]
             IN  sl' = IF y.sendLen < x.n THEN Quiet([sl EXCEPT !.snd = y])
                       ELSE [sl EXCEPT !.snd = NoSend,
                               !.last = [what |-> IF y.wire = [i \in 1 .. x.n |-> i] THEN "sent" ELSE "torn",
                                         from |-> Len(x.wire), to |-> x.n]]
        \/ sl' = LinkError(Quiet(sl))

StNext ==
  \/ PeerSends \/ Arrive \/ Breaks \/ Reconnect
  \/ TcpSocketRecv \/ TlsRecvBegin \/ TransLinkReadDataFromSocket \/ Misreads
  \/ IotcTlsClientRecv \/ TlsSocketRecv \/ Sends \/ SocketSend

StSpec == StInit /\ [][StNext]_sl

-----------------------------------------------------------------------------
(* However the stream is cut into records, what the TLS socket hands over  *)
(* begins with a frame and is as long as its first two bytes say, never    *)
(* longer than the buffer: one whole frame if they give its length.  One   *)
(* that says more ends the link, or is misread when it says about twice    *)
(* the buffer or more; only a frame that does not give its length, as the  *)
(* device's own codec writes them, lets a message begin inside a frame.    *)
(* The TCP socket hands over what is there: it skips nothing, but only a   *)
(* frame that arrived alone is handed over whole.  On both, nothing is     *)
(* handed over twice or left out while the link lasts.  A frame that is    *)
(* sent arrives once and whole over TLS; over TCP if the first offer was   *)
(* taken in full.                                                          *)
StreamSound ==
  /\ sl.taken + sl.left + Sum(sl.recs) + sl.queued = Length(sl.frames)
  /\ ~sl.rd.on => sl.handed = sl.taken
  /\ sl.last.what = "message" /\ sl.kind = "tls" =>
       /\ sl.last.from \in Starts(sl)
       /\ LET f == FrameAt(sl, sl.last.from)
          IN  /\ sl.last.to - sl.last.from = f.says /\ f.says <= Alloc
              /\ f.says = f.n => Whole(sl, sl.last.from, sl.last.to)
  /\ sl.last.what = "message" /\ sl.kind = "tcp" =>
       sl.last.to > sl.last.from /\ sl.last.to - sl.last.from < Alloc
  /\ sl.last.what = "misread" =>
       /\ sl.last.from \in Starts(sl)
       /\ FrameAt(sl, sl.last.from).says >= 2 * Alloc - RawHeader
  /\ sl.last.what = "cut" =>
       \E i \in 1 .. Len(sl.frames) : EndOf(sl, i - 1) < sl.last.to /\ sl.frames[i].says # sl.frames[i].n
  /\ sl.last.what = "torn" => sl.kind = "tcp" /\ sl.last.from > 0

==============================================================================
