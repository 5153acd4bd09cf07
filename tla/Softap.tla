------------------------------- MODULE Softap -------------------------------
(***************************************************************************)
(* The soft-AP provisioning service: its start, timers and exit            *)
(* (wifi_svc_softap.c), the name of the hotspot (svc_softap_ssid.c,        *)
(* iotc_oh_softap_name.c), the table of peer sessions (svc_softap_sess.c), *)
(* the handlers every message passes (svc_softap_coap.c) and the reports   *)
(* (svc_softap_report.c).                                                  *)
(*                                                                         *)
(* Everything runs on the scheduler's loop.  A timer is armed or not and   *)
(* may fire at any moment; stations join, leave and take over addresses on *)
(* their own.  A session key is named after the station that negotiated it.*)
(***************************************************************************)
EXTENDS Integers, Sequences, FiniteSets

CONSTANTS
  Ips, Macs,    \* addresses and stations
  MaxPeers,     \* IOTC_CONF_SOFTAP_MAX_PEER_SESS_NUM
  SeqMax,       \* UINT32_MAX
  Window,       \* E2E_CTRL_SEQ_WINDOWS
  Infos,        \* device descriptions: [manu, dev, sn, prod]
  MaxStarts,    \* bound: service starts
  MaxJoins,     \* bound: stations that join
  MaxFaults     \* bound: failures of the host and of the device service

SE == INSTANCE SequencesExt

VARIABLE sa

Nil == 0
Slots == 1..MaxPeers
Free == [act |-> FALSE, addr |-> Nil, mac |-> Nil, made |-> FALSE, speke |-> FALSE,
         key |-> Nil, set |-> FALSE, seq |-> 0, plain |-> FALSE, timer |-> FALSE]

Quiet(s) == [s EXCEPT !.out = {}, !.seen = "none", !.step = 0, !.ssid = <<>>]

Fault(s) == [s EXCEPT !.faults = @ + 1]

-----------------------------------------------------------------------------
(* The name of the hotspot.  A name is a sequence over "c" (a letter, a     *)
(* digit or a space) and "#" (anything else); the SSID is the sequence of   *)
(* the lengths of its parts.                                                *)

DelInvalidChar(str) == SelectSeq(str, LAMBDA ch : ch = "c")

CutDevInfo(manu, dev) ==
  IF manu + dev <= 10 THEN <<manu, dev>>
  ELSE IF manu < 5 THEN <<manu, 10 - manu>>
  ELSE IF dev < 5 THEN <<10 - dev, dev>>
  ELSE <<5, 5>>

BuildManuNameAndDeviceName(info) ==
  LET cut == CutDevInfo(Len(DelInvalidChar(info.manu)), Len(DelInvalidChar(info.dev)))
  IN  IF info.manu = <<>> \/ info.dev = <<>> THEN {} ELSE {<<cut[1], 1, cut[2]>>}

(* BuildProdId and BuildSoftapSn take four, two and three characters, and   *)
(* refuse a description that has fewer.                                     *)
BuildProdIdAndSn(info) ==
  IF info.prod = 4 /\ info.sn >= 3 THEN {<<4, 2, 3>>} ELSE {}

Total(parts) == SE!FoldSeq(LAMBDA a, b : a + b, 0, parts)

(* "Hi- ", the names, "-1", the product, the serial number, one blank and   *)
(* blanks up to the 32 characters of the buffer.                            *)
BuildHiLinkSsid(info) ==
  {LET body == <<4>> \o n \o <<1, 1>> \o p \o <<1>>
   IN  body \o <<32 - Total(body)>> :
     n \in BuildManuNameAndDeviceName(info), p \in BuildProdIdAndSn(info)}

(* IotcOhGetSoftApName: "Oh-", at most 14 characters of the names, "-1",    *)
(* the product, four characters of the serial number and the capability.    *)
IotcOhGetSoftApName(info) ==
  LET names == Len(info.manu) + Len(info.dev)
      body  == <<3, IF names <= 14 THEN names ELSE 14, 2, info.prod, 4>>
  IN  IF names = 0 \/ names > 64 \/ info.sn < 4 \/ Total(body) + 1 > 32 THEN {}
      ELSE {body \o <<1>>}

-----------------------------------------------------------------------------
(* The table of peer sessions. *)

(* The slot with the address, else the last slot that is not active.        *)
FindSoftapPeerSession(s, ip) ==
  LET same  == {i \in Slots : s.peers[i].addr = ip}
      empty == {i \in Slots : ~s.peers[i].act}
  IN  IF same # {} THEN CHOOSE i \in same : \A j \in same : i <= j
      ELSE IF empty # {} THEN CHOOSE i \in empty : \A j \in empty : j <= i
      ELSE Nil

(* The station of an active slot is sent away; timer and SPEKE session go.  *)
DestroyPeerSession(s, i) ==
  [s EXCEPT !.sta = IF s.peers[i].act
                    THEN {p \in @ : p[2] # s.peers[i].mac} ELSE @,
            !.peers[i] = Free]

(* The address must belong to a station of the hotspot; the peer has 30 s   *)
(* from here to complete SPEKE.                                             *)
CreatePeerSession(s, i, ip) ==
  LET d == DestroyPeerSession(s, i)
  IN  {[d EXCEPT !.peers[i] = [Free EXCEPT !.act = TRUE, !.addr = ip, !.mac = p[2],
                                           !.timer = TRUE]] :
         p \in {q \in d.sta : q[1] = ip}}

SoftapGetPeerSess(s, ip) ==
  LET i == FindSoftapPeerSession(s, ip)
  IN  IF i # Nil /\ s.peers[i].act THEN i ELSE Nil

(* The states in which the sender has a slot; none when the table is full   *)
(* or the sender is not a station.                                          *)
SoftapGetPeerSessCreateIfNotExist(s, ip) ==
  LET i == FindSoftapPeerSession(s, ip)
  IN  IF i = Nil THEN {}
      ELSE IF s.peers[i].act THEN {s}
      ELSE CreatePeerSession(s, i, ip)

SoftapPeerSessInitSpeke(s, i) == [s EXCEPT !.peers[i].speke = TRUE]

NotifyKeepsTimer(s, i, mac, good) ==
  IF good THEN [s EXCEPT !.peers[i].made = TRUE, !.peers[i].key = mac,
                         !.peers[i].set = FALSE]
  ELSE DestroyPeerSession(s, i)

(* A completed negotiation opens the session, forgets the sequence number   *)
(* and stops the 30 s timer; a failed one takes the whole slot away.        *)
SoftapNotifySpekeFinished(s, i, mac, good) ==
  IF good THEN [s EXCEPT !.peers[i].made = TRUE, !.peers[i].key = mac,
                         !.peers[i].set = FALSE, !.peers[i].timer = FALSE]
  ELSE DestroyPeerSession(s, i)

PeerSessTimeoutTimerCallback(s, i) == DestroyPeerSession(s, i)

(* Every 5 s: slots whose address and station no longer go together end.    *)
StationCheckTimerCallback(s) ==
  LET gone == {i \in Slots : s.peers[i].act
                 /\ <<s.peers[i].addr, s.peers[i].mac>> \notin s.sta}
  IN  [s EXCEPT !.sta = {p \in @ : \A i \in gone : p[2] # s.peers[i].mac},
                !.peers = [i \in Slots |-> IF i \in gone THEN Free ELSE @[i]]]

(* CreateSoftapSess: the CoAP stack on the hotspot's address, its handlers  *)
(* and resources, and the station check.  A step that fails undoes all.     *)
CreateSoftapSess(s) ==
  [s EXCEPT !.created = TRUE, !.timers = @ \cup {"sta"}]

DestroySoftapSess(s) ==
  LET act == {i \in Slots : s.peers[i].act}
  IN  [s EXCEPT !.timers = @ \ {"sta"}, !.peers = [i \in Slots |-> Free],
                !.sta = {p \in @ : \A i \in act : p[2] # s.peers[i].mac}]

-----------------------------------------------------------------------------
(* The way of a message.  [uri, mac, key, ok, seq]: the path, who sent it,  *)
(* the key it is encrypted with (Nil in clear), whether the content is what *)
(* the handler wants, the number of a control message.                      *)

SpekeUri(m) == m.uri \in {"req", "cfm"}      \* the only path in the white lists

(* SoftapCoapMsgRecvPreProcess, then base64 and decryption: the states in   *)
(* which the message reaches a handler.                                     *)
SoftapCoapMsgRecv(s, ip, m) ==
  {t \in SoftapGetPeerSessCreateIfNotExist(s, ip) :
     LET p == t.peers[FindSoftapPeerSession(t, ip)]
     IN  SpekeUri(m) \/ (p.speke /\ p.made /\ m.key = p.key /\ m.key # Nil)}

(* SoftapCoapMsgSendEncryptProcess: in clear when the bit says so, else     *)
(* only with an open session.                                               *)
MayBeSent(p) == p.act /\ (p.plain \/ (p.speke /\ p.made))

FinalKeepsBits(s, i, kind) ==
  [s EXCEPT !.out = @ \cup {[kind |-> kind, plain |-> s.peers[i].plain]}]

(* SoftapCoapMsgSendFinalProcess: the bits hold for one message.            *)
SoftapCoapMsgSendFinalProcess(s, i, kind) ==
  [s EXCEPT !.out = @ \cup {[kind |-> kind, plain |-> s.peers[i].plain]},
            !.peers[i].plain = FALSE]

(* CoapServerSendResp through these handlers; a send that finds no buffer   *)
(* never reaches them.                                                      *)
Send(s, i, kind) ==
  (IF i # Nil /\ MayBeSent(s.peers[i])
   THEN {SoftapCoapMsgSendFinalProcess(s, i, kind)} ELSE {s})
  \cup (IF s.faults < MaxFaults
        THEN {[Fault(s) EXCEPT !.stuck = i # Nil /\ s.peers[i].plain]} ELSE {})

-----------------------------------------------------------------------------
(* The handlers. *)

(* SPEKE answers go out in clear, re-negotiation included; a negotiation    *)
(* that fails is not answered.                                              *)
SoftapCoapSpekeReqHandler(s, ip, m) ==
  LET i == SoftapGetPeerSess(s, ip)
      t == SoftapPeerSessInitSpeke(s, i)
      r == IF m.uri = "req" THEN t ELSE SoftapNotifySpekeFinished(t, i, m.mac, m.ok)
  IN  IF m.uri = "cfm" /\ ~m.ok THEN {r}
      ELSE Send([r EXCEPT !.peers[i].plain = TRUE], i, "speke")

(* SoftapServiceExit: timers, sessions, the hotspot, then the context.      *)
SoftapServiceExit(s) ==
  IF ~s.on THEN {s}
  ELSE LET d == [DestroySoftapSess(s) EXCEPT
                   !.on = FALSE, !.timers = {}, !.started = FALSE, !.created = FALSE,
                   !.recved = FALSE]
       IN  IF ~s.started THEN {d}
           ELSE {[d EXCEPT !.hotspot = FALSE, !.sta = {}]}
                \cup (IF s.faults < MaxFaults
                      THEN {[Fault(d) EXCEPT !.left = TRUE]} ELSE {})

(* The network and the owner are taken over once per service; the service   *)
(* ends 500 ms after the answer, or at once when it gets no timer for that. *)
SoftapCoapSetupReqHandler(s, ip, m) ==
  IF s.recved THEN {s}
  ELSE LET i == SoftapGetPeerSess(s, ip)
           taken == Send([s EXCEPT !.recved = TRUE, !.applied = @ + 1], i, "resp")
       IN  IF ~m.ok THEN Send(s, i, "resp")
           ELSE {[t EXCEPT !.timers = @ \cup {"stop"}] : t \in taken}
                \cup UNION {SoftapServiceExit(Fault(t)) : t \in {t \in taken : t.faults < MaxFaults}}

SeqCheckNoWindow(p, seq) ==
  ~p.set \/ seq # p.seq

(* SoftCoapE2eCtrlSeqCheck, with the test the code has near the end of the  *)
(* number range.                                                            *)
SoftCoapE2eCtrlSeqCheck(p, seq) ==
  \/ ~p.set
  \/ p.seq <= SeqMax - Window /\ seq > p.seq /\ seq - p.seq <= Window
  \/ p.seq > SeqMax - Window
     /\ (seq > p.seq \/ (seq <= Window /\ Window - seq < SeqMax - p.seq + 1))

Ahead(from, to) == (to - from) % (SeqMax + 1)

(* The message is carried out, answered, and a read is followed by a report *)
(* to the same peer.                                                        *)
SoftapCoapE2eCtrlHandler(s, ip, m) ==
  LET i == SoftapGetPeerSess(s, ip)
      p == s.peers[i]
      t == [s EXCEPT !.peers[i].seq = m.seq, !.peers[i].set = TRUE,
                     !.step = IF p.set THEN Ahead(p.seq, m.seq) ELSE 1]
  IN  IF ~SoftCoapE2eCtrlSeqCheck(p, m.seq) THEN {s}
      ELSE UNION {Send(r, i, "resp") : r \in (IF m.ok THEN Send(t, i, "report") ELSE {t})}

Handle(s, ip, m) ==
  CASE SpekeUri(m)    -> SoftapCoapSpekeReqHandler(s, ip, m)
    [] m.uri = "setup" -> SoftapCoapSetupReqHandler(s, ip, m)
    [] m.uri = "e2e"   -> SoftapCoapE2eCtrlHandler(s, ip, m)

(* SoftapServiceReportToAllPeer: one report for each open session, or none  *)
(* when the data has no vendor part.                                        *)
SoftapServiceReportToAllPeer(s) ==
  LET made == {i \in Slots : s.peers[i].made}
  IN  {s, [s EXCEPT !.out = {[kind |-> "report", plain |-> s.peers[i].plain] : i \in made},
                    !.peers = [i \in Slots |-> [@[i] EXCEPT !.plain = FALSE]]]}

-----------------------------------------------------------------------------
(* The service. *)

(* StartSoftapService, with the subscription to the device's reports.       *)
StartSoftapService(s) ==
  {[t EXCEPT !.on = TRUE, !.timers = {"boot", "tmo"}, !.applied = 0,
             !.starts = @ + 1] : t \in SoftapServiceExit(s)}

(* CreateWorkingSoftap with IotcStartSoftAp: the name of the application or *)
(* of the device description, station mode off, then the hotspot.           *)
CreateWorkingSoftap(s) ==
  {[s EXCEPT !.started = TRUE, !.hotspot = TRUE, !.left = FALSE, !.ssid = n, !.sta = {}] :
     n \in UNION {IotcOhGetSoftApName(i) \cup BuildHiLinkSsid(i) : i \in Infos}}

(* SessCreateTimerCallback: at once, then every 5 s until the hotspot and   *)
(* the sessions are there.                                                  *)
SessCreateTimerCallback(s) ==
  LET done(t) == [CreateSoftapSess(t) EXCEPT !.timers = @ \ {"boot"}]
      up == IF s.started THEN {s} ELSE CreateWorkingSoftap(s)
      mayFail == s.faults < MaxFaults
  IN  {done(t) : t \in up}
      \cup (IF mayFail THEN {Fault(DestroySoftapSess(t)) : t \in up} ELSE {})
      \cup (IF up = {} THEN {s} ELSE {})
      \cup (IF mayFail /\ ~s.started
            THEN {[Fault(s) EXCEPT !.hotspot = FALSE, !.left = FALSE, !.sta = {}]} ELSE {})

TimerCallback(s, t) ==
  CASE t = "boot" -> SessCreateTimerCallback(s)
    [] t = "tmo"  -> SoftapServiceExit(s)      \* SoftapTimeoutTimerCallback
    [] t = "stop" -> SoftapServiceExit(s)      \* CloseSoftapService
    [] t = "sta"  -> {StationCheckTimerCallback(s)}

-----------------------------------------------------------------------------
SaInit ==
  sa = [on |-> FALSE, started |-> FALSE, created |-> FALSE, recved |-> FALSE,
        timers |-> {}, peers |-> [i \in Slots |-> Free],
        hotspot |-> FALSE, sta |-> {}, ssid |-> <<>>,
        out |-> {}, seen |-> "none", step |-> 0, applied |-> 0, stuck |-> FALSE,
        left |-> FALSE, starts |-> 0, joins |-> 0, faults |-> 0]

Start == sa.starts < MaxStarts /\ \E s \in StartSoftapService(Quiet(sa)) : sa' = s

(* StopSoftapService refuses an instance other than the running one.        *)
Stop == sa.on /\ \E s \in SoftapServiceExit(Quiet(sa)) : sa' = s

Timer ==
  \/ \E t \in sa.timers : \E s \in TimerCallback(Quiet(sa), t) : sa' = s
  \/ \E i \in Slots : sa.peers[i].timer /\ sa' = PeerSessTimeoutTimerCallback(Quiet(sa), i)

Msgs(mac) ==
  [uri : {"req"}, mac : {mac}, key : {Nil}, ok : {TRUE}, seq : {0}]
  \cup [uri : {"cfm"}, mac : {mac}, key : {Nil}, ok : BOOLEAN, seq : {0}]
  \cup [uri : {"setup"}, mac : {mac}, key : {Nil, mac}, ok : BOOLEAN, seq : {0}]
  \cup [uri : {"e2e"}, mac : {mac}, key : {mac}, ok : BOOLEAN, seq : 0..SeqMax]

Recv ==
  /\ sa.created
  /\ \E p \in sa.sta : \E m \in Msgs(p[2]) :
       \E t \in SoftapCoapMsgRecv(Quiet(sa), p[1], m) :
         \E s \in Handle([t EXCEPT !.seen = IF m.key = Nil THEN "clear" ELSE "sealed"],
                             p[1], m) : sa' = s

Report == sa.on /\ \E s \in SoftapServiceReportToAllPeer(Quiet(sa)) : sa' = s

(* Stations of the hotspot are numbered as they first join; each takes the  *)
(* lowest free address.                                                     *)
Station ==
  \/ /\ sa.hotspot /\ sa.joins < MaxJoins
     /\ \E ip \in Ips, mac \in Macs :
          /\ \A p \in sa.sta : p[1] # ip /\ p[2] # mac
          /\ mac <= sa.joins + 1
          /\ \A j \in Ips : j < ip => \E p \in sa.sta : p[1] = j
          /\ sa' = [Quiet(sa) EXCEPT !.sta = @ \cup {<<ip, mac>>}, !.joins = @ + 1]
  \/ \E p \in sa.sta : sa' = [Quiet(sa) EXCEPT !.sta = @ \ {p}]

SaNext == Start \/ Stop \/ Timer \/ Recv \/ Report \/ Station

SaSpec == SaInit /\ [][SaNext]_sa

-----------------------------------------------------------------------------
(* Soft-AP soundness.                                                       *)
(* - Table: no two slots serve one address, a slot that is not active holds *)
(*   nothing of its last peer, and a peer is on the clock exactly until its *)
(*   negotiation completes, so a half-open slot always ends.                *)
(* - Messages: what leaves in clear is an answer of the negotiation, unless *)
(*   a send that found no buffer left the bit behind; what reaches the      *)
(*   set-up and control handlers came under the key of an open session.     *)
(* - Sequence: a control message that is carried out is ahead of the last   *)
(*   one by at most the window, near the end of the range by at most two.   *)
(* - Service: the configuration is taken at most once and always with the   *)
(*   end of the service armed; the sessions are there or still being tried; *)
(*   without the service there is no hotspot unless switching it off        *)
(*   failed.                                                                *)
(* - Name: the hotspot's name fills exactly 32 characters, or at most 32    *)
(*   when the application names it.                                         *)
SoftapSound ==
  /\ \A i, j \in Slots : i # j /\ sa.peers[i].act /\ sa.peers[j].act
                           => sa.peers[i].addr # sa.peers[j].addr
  /\ \A i \in Slots : LET p == sa.peers[i]
                      IN  /\ ~p.act => p = Free
                          /\ p.act => (p.timer <=> ~p.made)
                          /\ p.made => p.speke /\ p.key # Nil
  /\ \A o \in sa.out : o.plain /\ ~sa.stuck => o.kind = "speke"
  /\ sa.seen = "clear" => sa.step = 0 /\ \A o \in sa.out : o.kind = "speke"
  /\ sa.step <= 2 * Window
  /\ sa.step > Window => \E i \in Slots : sa.peers[i].set /\ sa.peers[i].seq <= Window
  /\ sa.applied <= 1
  /\ sa.recved => sa.on /\ "stop" \in sa.timers
  /\ sa.on => ("boot" \in sa.timers <=> ~sa.created)
  /\ sa.created => sa.started /\ "sta" \in sa.timers
  /\ ~sa.on => sa.timers = {} /\ (sa.hotspot => sa.left)
  /\ ~sa.on \/ ~sa.created => \A i \in Slots : ~sa.peers[i].act
  /\ sa.ssid # <<>> => IF sa.ssid[1] = 3 THEN Total(sa.ssid) <= 32 
                       ELSE Total(sa.ssid) = 32 /\ sa.ssid[2] + sa.ssid[4] <= 10
=============================================================================
