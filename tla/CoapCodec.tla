------------------------------ MODULE CoapCodec ------------------------------
(***************************************************************************)
(* The CoAP codecs for datagrams and for the cloud's TCP link, and the     *)
(* window check of sequence numbers.  A packet is encoded, possibly cut    *)
(* short on the way, and decoded.  A wire is a sequence of bytes and of    *)
(* opaque runs (token, option values, payload), each with its length.      *)
(***************************************************************************)
EXTENDS Integers, Sequences, SequencesExt, TLC, Bitwise

CONSTANTS
  Deltas,      \* differences between successive option numbers
  Lens,        \* lengths of option values
  PayLens,     \* lengths of payloads
  Tkls,        \* lengths of tokens
  Excluded,    \* values left out: those the one-byte extension cannot hold
  MaxFrame,    \* bound: ExLen of the TCP frames looked at
  MaxOpts,     \* COAP_OPTION_MAX_NUM
  Hmac,        \* SESS_HMAC_LEN
  SeqSpan,      \* sequence numbers are counted modulo this (2^32)
  Windows      \* windows of the sequence check

VARIABLES
  pkt,         \* the packet, or the sequence numbers, at hand
  wire,        \* its encoding
  got          \* what was decoded

ccVars == <<pkt, wire, got>>

None == [st |-> "none"]

-----------------------------------------------------------------------------
Byte(b) == [v |-> b % 256, n |-> 1]

Run(n) == IF n = 0 THEN <<>> ELSE <<[v |-> -1, n |-> n]>>

WireLen(w) == FoldLeft(LAMBDA k, x : k + x.n, 0, w)

(* Faulty: one byte too few for the largest values of a range. *)
BaseOffByOne(value) ==
  CASE value < 12 -> value
    [] value \in 12..269 -> 13
    [] value \in 270..65805 -> 14
    [] value > 65805 -> 15

(* Which values take one, two and four more bytes. *)
CoapCommGetExtensionBase(value) ==
  CASE value < 13 -> value
    [] value \in 13..269 -> 13
    [] value \in 270..65805 -> 14
    [] value > 65805 -> 15

CoapCommBuildExtension(value) ==
  CASE value < 13 -> <<>>
    [] value \in 13..269 -> <<Byte(value - 13)>>
    [] value \in 270..65805 -> <<Byte((value - 269) \div 256), Byte(value - 269)>>
    [] value > 65805 -> <<Byte((value - 65805) \div 16777216), Byte((value - 65805) \div 65536),
                          Byte((value - 65805) \div 256), Byte(value - 65805)>>

CoapCommBuildSingleOption(delta, len) ==
  <<Byte(CoapCommGetExtensionBase(delta) * 16 + CoapCommGetExtensionBase(len))>>
    \o CoapCommBuildExtension(delta) \o CoapCommBuildExtension(len) \o Run(len)

(* Options are given by delta; the marker of the payload always follows.    *)
CoapCommBuildOption(opts) ==
  FoldLeft(LAMBDA w, o : w \o CoapCommBuildSingleOption(o.delta, o.len), <<>>, opts)
    \o <<Byte(255)>>

CoapCommBuildToken(tkl) == Run(tkl)

CoapCommBuildPayload(len) == Run(len)

CoapUdpBuildHeader(p) == <<Byte(64 + p.tkl), Byte(1), Byte(p.id \div 256), Byte(p.id)>>

CoapUdpEncode(p) ==
  CoapUdpBuildHeader(p) \o CoapCommBuildToken(p.tkl) \o CoapCommBuildOption(p.opts)
    \o CoapCommBuildPayload(p.pay)

(* The encrypted payload is padded to whole blocks and followed by an HMAC. *)
Encrypted(p) == IF p.psk THEN p.pay + (16 - (p.pay % 16)) ELSE p.pay

ExLen(p) ==
  WireLen(CoapCommBuildOption(p.opts)) + Encrypted(p) + (IF p.psk THEN Hmac ELSE 0)

CoapTcpV1BuildHeader(p) ==
  <<Byte(CoapCommGetExtensionBase(ExLen(p)) * 16 + p.tkl)>>
    \o CoapCommBuildExtension(ExLen(p)) \o <<Byte(1)>>

CoapTcpV1Encode(p) ==
  CoapTcpV1BuildHeader(p) \o CoapCommBuildToken(p.tkl) \o CoapCommBuildOption(p.opts)
    \o CoapCommBuildPayload(Encrypted(p)) \o (IF p.psk THEN Run(Hmac) ELSE <<>>)

-----------------------------------------------------------------------------
(* Decoding.  A reader has a position in the wire; bad means that a byte is *)
(* missing or taken from the middle of a run.                               *)

At(w, i) == IF i <= Len(w) THEN w[i].v ELSE -1

CoapCommParseExtension(w, i, nib) ==
  CASE nib < 13 -> [val |-> nib, next |-> i, bad |-> FALSE]
    [] nib = 13 -> [val |-> At(w, i) + 13, next |-> i + 1, bad |-> At(w, i) < 0]
    [] nib = 14 -> [val |-> At(w, i) * 256 + At(w, i + 1) + 269, next |-> i + 2,
                    bad |-> At(w, i) < 0 \/ At(w, i + 1) < 0]
    [] nib = 15 -> [val |-> 0, next |-> i, bad |-> TRUE]

TakeRun(w, i, n) == n = 0 \/ (i <= Len(w) /\ w[i] = [v |-> -1, n |-> n])

After(i, n) == IF n = 0 THEN i ELSE i + 1

CoapCommParseSingleOption(r, w) ==
  LET d == CoapCommParseExtension(w, r.pos + 1, At(w, r.pos) \div 16)
      l == CoapCommParseExtension(w, d.next, At(w, r.pos) % 16)
  IN IF At(w, r.pos) < 0 \/ d.bad \/ l.bad \/ ~TakeRun(w, l.next, l.val)
     THEN [r EXCEPT !.bad = TRUE]
     ELSE [r EXCEPT !.pos = After(l.next, l.val),
                    !.opts = Append(@, [delta |-> d.val, len |-> l.val])]

(* Up to the marker, the end, or the first option that cannot be read.      *)
CoapCommParseOptions(w, i) ==
  LET More(r) == ~r.bad /\ r.pos <= Len(w) /\ At(w, r.pos) # 255
      end == FoldLeft(LAMBDA r, k : IF More(r) THEN CoapCommParseSingleOption(r, w) ELSE r,
                      [pos |-> i, opts |-> <<>>, bad |-> FALSE], [k \in 1..MaxOpts |-> k])
  IN [end EXCEPT !.bad = @ \/ More(end)]

CoapCommParsePayload(w, i) ==
  IF At(w, i) # 255 THEN 0 ELSE WireLen(SubSeq(w, i + 1, Len(w)))

(* The part the two codecs share: token, options and payload.               *)
ParseBody(w, i, tkl, id, exlen) ==
  LET o == CoapCommParseOptions(w, After(i, tkl))
  IN IF ~TakeRun(w, i, tkl) \/ o.bad THEN [st |-> "error"]
     ELSE [st |-> "ok", tkl |-> tkl, id |-> id, opts |-> o.opts,
           pay |-> CoapCommParsePayload(w, o.pos), exlen |-> exlen]

CoapUdpDecode(w) ==
  IF Len(w) < 4 \/ At(w, 1) \div 64 # 1 THEN [st |-> "error"]
  ELSE ParseBody(w, 5, At(w, 1) % 16, At(w, 3) * 256 + At(w, 4), 0)

(* The length of the whole frame.  In the sum of the two bytes "+" binds    *)
(* tighter than "|".                                                        *)
CoapTcpV1ParseHeader(w) ==
  LET nib == At(w, 1) \div 16
  IN 2 + (At(w, 1) % 16)
       + CASE nib < 13 -> nib
           [] nib = 13 -> At(w, 2) + 13 + 1
           [] nib = 14 -> (At(w, 2) * 256) | (At(w, 3) + 269 + 2)
           [] nib = 15 -> 0

CoapTcpV1Decode(w) ==
  LET nib == At(w, 1) \div 16
      i == 3 + (IF nib < 13 THEN 0 ELSE IF nib = 13 THEN 1 ELSE 2)
  IN IF WireLen(w) < 4 \/ i > Len(w) + 1 THEN [st |-> "error"]
     ELSE ParseBody(w, i, At(w, 1) % 16, 0, CoapTcpV1ParseHeader(w))

-----------------------------------------------------------------------------
(* Sequence numbers. *)

SeqNumCheckWithoutOverflow(cur, recv, win) ==
  IF recv > cur THEN recv - cur <= win ELSE cur - recv <= win

SeqNumCheckWithCurSeqSmall(cur, recv, win) ==
  recv < cur \/ recv - cur <= win \/ (SeqSpan - 1 - recv) + cur + 1 <= win

SeqNumCheckWithCurSeqBig(cur, recv, win) ==
  recv > cur \/ cur - recv <= win \/ (SeqSpan - 1 - cur) + recv + 1 <= win

SeqNumCheck(cur, recv, win) ==
  CASE recv = cur -> FALSE
    [] recv # cur /\ cur < win -> SeqNumCheckWithCurSeqSmall(cur, recv, win)
    [] recv # cur /\ cur >= win /\ cur > SeqSpan - 1 - win ->
         SeqNumCheckWithCurSeqBig(cur, recv, win)
    [] recv # cur /\ cur >= win /\ cur <= SeqSpan - 1 - win ->
         SeqNumCheckWithoutOverflow(cur, recv, win)

(* What it is to compute: not a repetition, and near in either direction.   *)
InWindow(cur, recv, win) ==
  LET ahead == (recv - cur) % SeqSpan
  IN ahead # 0 /\ (ahead <= win \/ SeqSpan - ahead <= win)

-----------------------------------------------------------------------------
Options == UNION {[1..n -> [delta : Deltas, len : Lens]] : n \in 0..2}

Packets ==
  [st : {"packet"}, fmt : {"udp", "tcp"}, tkl : Tkls, id : {0, 258}, opts : Options,
   pay : PayLens, psk : BOOLEAN]

Numbers == [st : {"seq"}, cur : 0..SeqSpan - 1, recv : 0..SeqSpan - 1, win : Windows]

(* A TCP request has a token; a datagram is not encrypted by the codec, and *)
(* what is encrypted has a payload: the requests and answers of the cloud   *)
(* all carry JSON.                                                          *)
Fits(p) ==
  /\ \A i \in DOMAIN p.opts : {p.opts[i].delta, p.opts[i].len} \cap Excluded = {}
  /\ IF p.fmt = "udp" THEN ~p.psk
     ELSE p.tkl # 0 /\ p.id = 0 /\ (p.psk => p.pay # 0) /\ ExLen(p) \notin Excluded /\ ExLen(p) <= MaxFrame

CcInit ==
  /\ pkt \in {p \in Packets : Fits(p)} \cup Numbers
  /\ wire = <<>>
  /\ got = None

Encode ==
  /\ pkt.st = "packet" /\ wire = <<>>
  /\ wire' = IF pkt.fmt = "udp" THEN CoapUdpEncode(pkt) ELSE CoapTcpV1Encode(pkt)
  /\ UNCHANGED <<pkt, got>>

(* A frame may be received only in part. *)
Cut ==
  /\ wire # <<>> /\ got.st = "none"
  /\ \E k \in 1..Len(wire) - 1 : wire' = SubSeq(wire, 1, k)
  /\ got' = [st |-> "cut"]
  /\ UNCHANGED pkt

Decode ==
  /\ wire # <<>> /\ got.st \in {"none", "cut"}
  /\ got' = [whole |-> got.st = "none"] @@
            (IF pkt.fmt = "udp" THEN CoapUdpDecode(wire) ELSE CoapTcpV1Decode(wire))
  /\ UNCHANGED <<pkt, wire>>

Check ==
  /\ pkt.st = "seq" /\ got = None
  /\ got' = [st |-> "seq", in |-> SeqNumCheck(pkt.cur, pkt.recv, pkt.win)]
  /\ UNCHANGED <<pkt, wire>>

CcNext == Encode \/ Cut \/ Decode \/ Check

CcSpec == CcInit /\ [][CcNext]_ccVars

-----------------------------------------------------------------------------
(* CodecRoundTrip: a whole frame is decoded to the packet that was built,   *)
(* and the TCP decoder finds the frame's length, over which the HMAC is     *)
(* computed.                                                                *)
CodecRoundTrip ==
  got.st \in {"ok", "error"} /\ got.whole =>
    /\ got.st = "ok"
    /\ got.opts = pkt.opts
    /\ got.tkl = pkt.tkl
    /\ IF pkt.fmt = "udp" THEN got.pay = pkt.pay /\ got.id = pkt.id
       ELSE got.exlen = WireLen(wire)

(* CodecSound: the round trip; what is read from a frame cut short begins   *)
(* the packet that was sent; and the window check, done case by case around *)
(* zero and the largest number, is the one check modulo the width.          *)
CodecSound ==
  /\ CodecRoundTrip
  /\ got.st = "ok" => IsPrefix(got.opts, pkt.opts)
  /\ got.st = "seq" => (got.in <=> InWindow(pkt.cur, pkt.recv, pkt.win))
=============================================================================
