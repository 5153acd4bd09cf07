---------------------------- MODULE MCSessions -----------------------------
(***************************************************************************)
(* What a peer and the device say to each other, layer by layer, each on   *)
(* its own instance: a behaviour belongs to the component that Init        *)
(* chooses, and the others are off.                                        *)
(*                                                                         *)
(* Codec: deltas and lengths on both sides of every step of the extension, *)
(* tokens empty and full, payloads that are absent, short and long, frames *)
(* below 525 octets; delta 269 is left out (CoapCodec269.cfg).             *)
(*                                                                         *)
(* Stream: two frames shorter than, as long as and longer than the         *)
(* buffer of four, which give their length or, as the codec writes them,   *)
(* do not, cut into two records at any place.                              *)
(*                                                                         *)
(* Cloud keys: three links and one local session.                          *)
(*                                                                         *)
(* BLE link: three commands of two fragments over two connections, and     *)
(* sequence numbers that wrap at eight, from seven.                        *)
(*                                                                         *)
(* SPEKE: equal and different pins, two overlapping starts, one message    *)
(* lost and two faults, with and without a context kept; and its scanner,  *)
(* over documents of two members, two deep, with strings that hold a       *)
(* brace, an escaped quote and too many characters; names are alike, so    *)
(* that the first member is called a.                                      *)
(*                                                                         *)
(* SLE: two connections where three come, and a queue of two events; the   *)
(* numbers of connections are alike, so that the first is number one.      *)
(*                                                                         *)
(* Advertising: serial numbers and names around every limit of the code.   *)
(*                                                                         *)
(* Hotspot: two stations that join three times with three addresses, for   *)
(* two slots, and sequence numbers up to three.                            *)
(*                                                                         *)
(* Device control: with and without the bridge, two values, which are      *)
(* alike, so that the first stands for both at the start, two requests,    *)
(* one change by the product, two links, a queue of two and one fault.     *)
(***************************************************************************)
EXTENDS Softap

VARIABLES
  which,
  pkt, wire, got,
  sl, ck, bl, sp,
  doc, text, ok, found,
  ss, ad, dc

Chars(n) == [i \in 1..n |-> "c"]
MCInfos == {[manu |-> Chars(12), dev |-> Chars(3), sn |-> 12, prod |-> 4],
            [manu |-> Chars(6) \o <<"#">>, dev |-> Chars(7), sn |-> 3, prod |-> 4]}

\* Length and what the first two bytes say.
MCFrames == {[n |-> 2, says |-> 2], [n |-> 4, says |-> 4], [n |-> 6, says |-> 6],
             [n |-> 3, says |-> 4], [n |-> 4, says |-> 6]}

CC == INSTANCE CoapCodec
        WITH Deltas <- {0, 12, 13, 268, 269, 270}, Lens <- {0, 12, 13, 100}, PayLens <- {0, 5, 200},
             Tkls <- {0, 8}, Excluded <- {269}, MaxFrame <- 524, MaxOpts <- 2, Hmac <- 32, SeqSpan <- 16,
             Windows <- {1, 3, 7}
SL == INSTANCE StreamLink
        WITH Kinds <- {"tls", "tcp"}, Frames <- MCFrames, SendLens <- {1, 3}, Alloc <- 4, MaxSize <- 8,
             MaxFrames <- 2, MaxRecs <- 2, MaxSends <- 1, MaxLinks <- 2
CK == INSTANCE CloudKeys WITH MaxLinks <- 3, MaxLocal <- 1
BL == INSTANCE BleLink
        WITH MaxCmd <- 3, MaxConn <- 2, MaxFrags <- 2, PkgTimeout <- 1, SeqSpan <- 8,
             Interval <- 2, FirstSeqs <- {7}, MaxSends <- 3, MaxReports <- 1
SP == INSTANCE Speke
        WITH Builds <- {"ble", "keep"}, Pins <- {1, 2}, MaxStarts <- 2, MaxFaults <- 2, MaxDrops <- 1,
             MaxSns <- 3, MaxData <- 1
SF == INSTANCE SpekeFlat
        WITH Keys <- {"a", "b"}, Digits <- {"1"}, MaxMembers <- 2, MaxDepth <- 4, MaxLen <- 2,
             Strings <- {<<>>, <<"}">>, <<"\\", "\"">>, <<"a", "a", "a">>}
SS == INSTANCE SleStack
        WITH Builds <- {"lite", "standard"}, ConnIds <- {1, 2}, MaxConn <- 2, QCap <- 2, Durs <- {1},
             AppSvcs <- {[attrs |-> 2, funcs |-> 4]}, MaxCalls <- 3, MaxLinks <- 3, MaxFaults <- 1
AD == INSTANCE AdvData
        WITH Sides <- {"ble", "sle"}, ProLen <- 5, SnLens <- {1, 2, 3, 4, 6}, NameLens <- {2, 9, 10, 12},
             AdvMax <- 31, Nearlink <- TRUE
DC == INSTANCE DeviceControl
        WITH CtlBuilds <- {"plain", "bridge"}, Values <- {1, 2}, QCap <- 2, MaxReqs <- 2, MaxChanges <- 1,
             MaxLinks <- 2, MaxCtlFaults <- 1

Off == "off"

MCInit ==
  /\ which \in {"codec", "stream", "keys", "link", "speke", "flat", "sle", "adv", "softap", "control"}
  /\ IF which = "codec" THEN CC!CcInit ELSE pkt = Off /\ wire = Off /\ got = Off
  /\ IF which = "stream" THEN SL!StInit ELSE sl = Off
  /\ IF which = "keys" THEN CK!CkInit ELSE ck = Off
  /\ IF which = "link" THEN BL!BlInit ELSE bl = Off
  /\ IF which = "speke" THEN SP!SpInit ELSE sp = Off
  /\ IF which = "flat" THEN SF!FlatInit /\ (doc.m # <<>> => doc.m[1][1] = "a")
     ELSE doc = Off /\ text = Off /\ ok = Off /\ found = Off
  /\ IF which = "sle" THEN SS!SsInit ELSE ss = Off
  /\ IF which = "adv" THEN AD!AdvInit ELSE ad = Off
  /\ IF which = "softap" THEN SaInit ELSE sa = Off
  /\ IF which = "control" THEN DC!DcInit /\ dc.val = 1 ELSE dc = Off

MCNext ==
  /\ UNCHANGED which
  /\ IF which = "codec" THEN TRUE ELSE UNCHANGED <<pkt, wire, got>>
  /\ IF which = "stream" THEN TRUE ELSE UNCHANGED sl
  /\ IF which = "keys" THEN TRUE ELSE UNCHANGED ck
  /\ IF which = "link" THEN TRUE ELSE UNCHANGED bl
  /\ IF which = "speke" THEN TRUE ELSE UNCHANGED sp
  /\ IF which = "flat" THEN TRUE ELSE UNCHANGED <<doc, text, ok, found>>
  /\ IF which = "sle" THEN TRUE ELSE UNCHANGED ss
  /\ IF which = "adv" THEN TRUE ELSE UNCHANGED ad
  /\ IF which = "softap" THEN TRUE ELSE UNCHANGED sa
  /\ IF which = "control" THEN TRUE ELSE UNCHANGED dc
  /\ \/ which = "codec" /\ CC!CcNext
     \/ which = "stream" /\ SL!StNext
     \/ which = "keys" /\ CK!CkNext
     \/ which = "link" /\ BL!BlNext
     \/ which = "speke" /\ SP!SpNext
     \/ which = "flat" /\ SF!FlatNext
     \/ which = "sle" /\ SS!SsNext /\ (ss.made = 0 => 2 \notin ss'.links)
     \/ which = "adv" /\ AD!AdvNext
     \/ which = "softap" /\ SaNext
     \/ which = "control" /\ DC!DcNext

MCSpec == MCInit /\ [][MCNext]_<<which, pkt, wire, got, sl, ck, bl, sp, doc, text, ok, found, ss, ad, sa, dc>>

-----------------------------------------------------------------------------
(* WireSound: what the device and the cloud send arrives as it was sent.   *)
(* A whole frame is decoded to the packet that was built, a stream cut     *)
(* into records is handed over frame by frame (TransLinkReadDataFromSocket)*)
(* and once a negotiation is over both ends hold the same keys             *)
(* (StationSessKeyGen).                                                    *)
WireSound ==
  /\ which = "codec" => CC!CodecSound
  /\ which = "stream" => SL!StreamSound
  /\ which = "keys" => CK!KeysSound

(* LinkSound: lost, repeated and reordered fragments, retries and          *)
(* reconnections do not corrupt the dialogue over BLE (linklayer_recv.c,   *)
(* BleSessRecvSeqCheck).                                                   *)
LinkSound == which = "link" => BL!LinkSound

(* SpekeSound: both sides of a negotiation end with the same key or know   *)
(* that they did not (security_speke_server.c), and the scanner of its     *)
(* messages finds what a parser would (security_speke_flat.c).             *)
SpekeSound ==
  /\ which = "speke" => SP!SpekeSound
  /\ which = "flat" => SF!FlatSound

(* SleSound: what the SLE service keeps of connections, announcing and     *)
(* services follows the host (sle_ssap_mgt.c, sle_adv_ctrl.c).             *)
SleSound == which = "sle" => SS!SleSound

(* AdvSound: what is on the air fits the radio and reads back as the       *)
(* device's description and state (ble_adv_data.c, sle_adv_data.c).        *)
AdvSound == which = "adv" => AD!AdvSound

(* HotspotSound: slots, messages, sequence numbers, service and name of    *)
(* the device's hotspot (svc_softap_sess.c, svc_softap_coap.c).            *)
HotspotSound == which = "softap" => SoftapSound

(* ControlSound: every channel is told what the product holds, a success   *)
(* means the product took the value, and buffers are returned once         *)
(* (device_control.c, m2m_cloud_response.c).                               *)
ControlSound == which = "control" => DC!DeviceSound
=============================================================================
