---------------------------- MODULE CoapEndpoint ----------------------------
(***************************************************************************)
(* The CoAP endpoint over an unreliable datagram network: the client with  *)
(* its list of pending requests, the retransmission list that also answers *)
(* repeated requests, and the server with its resources                    *)
(* (transport/coap/endpoint).  All of it runs on the loop's thread; a      *)
(* handler runs inside the step that calls it and may send a request of    *)
(* its own.  Times are ages, so that the clock needs no bound.             *)
(***************************************************************************)
EXTENDS Integers, Sequences, SequencesExt

CONSTANTS
  Peers,        \* addresses of the other side
  Home,         \* the peer the device sends its own requests to
  Ids,          \* message ids the peers use, alike and with like tokens
  Uris,         \* how a peer's request is addressed
  MaxReq,       \* bound: requests the device sends
  MaxCnts,      \* values of COAP_ENDPOINT_CLIENT_REQ_MAX_CNT
  RespTimeout,  \* client.timeout, in ticks
  RetransCnt,   \* COAP_DEFAULT_COAP_RETRANS_CNT
  Interval,     \* COAP_DEFAULT_RETRANS_INTERVAL, in ticks
  BufMax,       \* retrans.maxBufSize
  MaxHandled,   \* bound: times a peer's request is handled
  MaxRestart    \* bound: times the stack is destroyed and created

VARIABLE ep     \* endpoint, network and history

epVars == <<ep>>

-----------------------------------------------------------------------------
(* Packets.  A response carries id and token of the request it answers; the *)
(* device's tokens are random and not those of the peers.                   *)

PeerReq(p, i, u) == [class |-> "req", peer |-> p, id |-> i, token |-> "peer", uri |-> u]

PeerResp(p, h) == [class |-> "resp", peer |-> p, id |-> h, token |-> "own", uri |-> "own"]

(* Packets the device sends; a response is longer than a request.           *)
OwnReq(h) == [class |-> "req", peer |-> Home, id |-> h, token |-> "own", uri |-> "own"]

RespTo(pkt) == [pkt EXCEPT !.class = "resp"]

PktLen(pkt) == IF pkt.class = "resp" THEN 2 ELSE 1

ReqKeys == Peers \X Ids

EpInit ==
  \E max \in MaxCnts :
  ep = [reqs |-> <<>>,       \* client.reqList: request, age
        max |-> max,
        nodes |-> <<>>,      \* retrans.retransList
        buf |-> 0,           \* retrans.curBufSize
        ready |-> FALSE,     \* what the source's check found
        astray |-> {},       \* repetitions met with a packet that is not theirs
        sent |-> 0, called |-> [h \in 1..MaxReq |-> <<>>], missed |-> {},
        handled |-> [k \in ReqKeys |-> 0], forgot |-> [k \in ReqKeys |-> 0],
        restarts |-> 0]

-----------------------------------------------------------------------------
(* Retransmission. *)

CoapEndpointRetransDefaultCheckFunc(cnt) == cnt < RetransCnt

RetransNodeNew(pkt) == [pkt |-> pkt, cnt |-> 0, remain |-> Interval, since |-> 0]

(* A response that is not kept cannot answer a repetition of its request.   *)
Forget(s, pkt) ==
  IF pkt.class = "resp" THEN [s EXCEPT !.forgot[<<pkt.peer, pkt.id>>] = @ + 1] ELSE s

CoapRetransAddPacket(s, pkt) ==
  IF PktLen(pkt) > BufMax - s.buf \/ ~CoapEndpointRetransDefaultCheckFunc(0)
  THEN Forget(s, pkt)
  ELSE [s EXCEPT !.buf = @ + PktLen(pkt), !.nodes = Append(@, RetransNodeNew(pkt))]

(* The packet leaves, whether it arrives or not, and is kept. *)
CoapEndpointSendPacket(s, pkt) == CoapRetransAddPacket(s, pkt)

(* CoapEndpointRetransCheck: what is left of each interval. *)
RetransElapse(node) ==
  [node EXCEPT !.remain = IF node.since > node.remain THEN 0 ELSE node.remain - node.since,
               !.since = 0]

CoapEndpointRetransCheck(s) ==
  [s EXCEPT !.nodes = [i \in DOMAIN @ |-> RetransElapse(@[i])]]

RetransReady(s) == \E i \in DOMAIN s.nodes : s.nodes[i].since > s.nodes[i].remain

RetransNodeFreeBuffer(s, node) ==
  Forget([s EXCEPT !.buf = IF @ > PktLen(node.pkt) THEN @ - PktLen(node.pkt) ELSE 0], node.pkt)

(* Send again what is due; a node is given up after its last time.          *)
RetransOne(s, node) ==
  IF node.remain # 0 THEN [s EXCEPT !.nodes = Append(@, node)]
  ELSE IF CoapEndpointRetransDefaultCheckFunc(node.cnt + 1)
  THEN [s EXCEPT !.nodes = Append(@, [node EXCEPT !.cnt = @ + 1, !.remain = Interval])]
  ELSE RetransNodeFreeBuffer(s, node)

CoapEndpointRetransDispatch(s) ==
  FoldLeft(RetransOne, [s EXCEPT !.nodes = <<>>], s.nodes)

(* Faulty: the address is not compared. *)
RetransMatchAnyPeer(s, pkt) ==
  SelectSeq(s.nodes, LAMBDA n : n.pkt.id = pkt.id /\ n.pkt.token = pkt.token)

(* The node that answers a repeated request: same id, address and token.    *)
RetransMatch(s, pkt) ==
  SelectSeq(s.nodes, LAMBDA n : n.pkt.id = pkt.id /\ n.pkt.peer = pkt.peer /\ n.pkt.token = pkt.token)

(* It goes to the address the node was kept with. *)
CoapEndpointRecvPacketRetransProcess(s, pkt) ==
  LET kept == Head(RetransMatch(s, pkt)).pkt
  IN IF kept.class = "resp" /\ kept.peer = pkt.peer THEN s
     ELSE [s EXCEPT !.astray = @ \cup {<<pkt.peer, pkt.id>>}]

-----------------------------------------------------------------------------
(* Client. *)

Due(r) == r.age > RespTimeout

HandlerCalled(s, h, what) == [s EXCEPT !.called[h] = Append(@, what)]

(* The request is sent; an insertion into a full list is only logged.       *)
InsertReq(s, h) ==
  IF Len(s.reqs) >= s.max THEN s
  ELSE [s EXCEPT !.reqs = Append(@, [h |-> h, age |-> 0])]

SendReq(s) ==
  LET h == s.sent + 1
  IN CoapEndpointSendPacket([s EXCEPT !.sent = h], OwnReq(h))

(* What a handler may do: nothing, or send another request, in the          *)
(* millisecond in which it was called or in a later one.                    *)
Moods == IF ep.sent < MaxReq THEN {"rest", "send", "sendLate"} ELSE {"rest"}

Follow(s, mood) ==
  IF mood # "rest" /\ s.sent < MaxReq THEN InsertReq(SendReq(s), s.sent + 1) ELSE s

(* CoapClientRespTimeoutCheck reads the clock once.  GetTimeoutRespHandler  *)
(* removes every request that is due and returns the handler of the last    *)
(* one, which is called, and so on until there is none.  A request that a   *)
(* handler has sent meanwhile, later than the time that was read, is due at *)
(* once: UtilsDeltaTime takes the difference for a turn of the clock.       *)
RECURSIVE TimeoutRounds(_, _, _)
TimeoutRounds(s, first, mood) ==
  LET DueAt(r) == Due(r) \/ (mood = "sendLate" /\ r.h > first)
      due == SelectSeq(s.reqs, DueAt)
      kept == [s EXCEPT !.reqs = SelectSeq(@, LAMBDA r : ~DueAt(r)),
                        !.missed = @ \cup {r.h : r \in ToSet(due) \ {Last(due)}}]
  IN IF due = <<>> THEN s
     ELSE TimeoutRounds(Follow(HandlerCalled(kept, Last(due).h, 0), mood), first, mood)

CoapClientRespTimeoutCheck(s, mood) == TimeoutRounds(s, s.sent, mood)

CoapClientSendReq(s, mood) ==
  LET h == s.sent + 1
  IN InsertReq(CoapClientRespTimeoutCheck(SendReq(s), mood), h)

(* GetRespHandler: the pending request of this id and token, removed.       *)
GetRespHandler(s, pkt) == SelectSeq(s.reqs, LAMBDA r : r.h = pkt.id)

CoapEndpointClientRecvRespPacket(s, pkt, mood) ==
  LET found == GetRespHandler(s, pkt)
      taken == [s EXCEPT !.reqs = SelectSeq(@, LAMBDA r : r # Head(found))]
  IN CoapClientRespTimeoutCheck(
       IF found = <<>> THEN s ELSE Follow(HandlerCalled(taken, Head(found).h, pkt.id), mood), mood)

-----------------------------------------------------------------------------
(* Server. *)

(* The URI can be read, has a resource, and the checkers let it pass.       *)
Served(pkt) == pkt.uri # "none"

(* The handler answers, or the service chooses to stay mute.                *)
CoapServerSendResp(s, pkt) ==
  IF pkt.uri = "mute" THEN Forget(s, RespTo(pkt)) ELSE CoapEndpointSendPacket(s, RespTo(pkt))

CoapEndpointServerRecvReqPacket(s, pkt) ==
  IF Served(pkt)
  THEN CoapServerSendResp([s EXCEPT !.handled[<<pkt.peer, pkt.id>>] = @ + 1], pkt)
  ELSE s

CoapEndpointRecvPacket(s, pkt, mood) ==
  IF pkt.class = "req"
  THEN IF RetransMatch(s, pkt) # <<>> THEN CoapEndpointRecvPacketRetransProcess(s, pkt)
       ELSE CoapEndpointServerRecvReqPacket(s, pkt)
  ELSE CoapEndpointClientRecvRespPacket(s, pkt, mood)

-----------------------------------------------------------------------------
(* Steps of the loop. *)

(* The network loses, repeats, delays and reorders: whatever was or may have *)
(* been sent can arrive now, any number of times, or never.                 *)
Datagrams ==
  {PeerReq(p, i, u) : p \in Peers, i \in Ids, u \in Uris}
    \cup {PeerResp(Home, h) : h \in 1..ep.sent}

(* The application sends a request.  A send that fails changes nothing: no  *)
(* request is listed and no retransmission is kept.                         *)
SendOwn ==
  \E mood \in Moods :
    /\ ep.sent < MaxReq
    /\ ep' = CoapClientSendReq(ep, mood)

(* A datagram arrives: it is decoded and handed to the endpoint.            *)
Receive ==
  \E pkt \in Datagrams : \E mood \in IF pkt.class = "req" THEN {"rest"} ELSE Moods :
    /\ pkt.class = "req" => ep.handled[<<pkt.peer, pkt.id>>] < MaxHandled
    /\ ep' = CoapEndpointRecvPacket(ep, pkt, mood)

CoapClientReqCheck(s) == s.reqs # <<>> /\ (Head(s.reqs).age > 0 \/ Due(Head(s.reqs)))

(* Faulty: only retransmissions make the source ready. *)
SourceCheckNoReq ==
  /\ ~ep.ready
  /\ ep' = [CoapEndpointRetransCheck(ep) EXCEPT !.ready = RetransReady(ep)]

(* CoapEndpointSourceCheck. *)
SourceCheck ==
  /\ ~ep.ready
  /\ ep' = [CoapEndpointRetransCheck(ep) EXCEPT
              !.ready = RetransReady(ep) \/ CoapClientReqCheck(ep)]

(* RetransSourceDispatch. *)
SourceDispatch ==
  /\ ep.ready
  /\ \E mood \in Moods :
       ep' = CoapEndpointRetransDispatch(
               CoapClientRespTimeoutCheck([ep EXCEPT !.ready = FALSE], mood))

(* CoapNetStackDestroy and CoapNetStackCreate: the lists are freed.         *)
Restart ==
  /\ ep.restarts < MaxRestart
  /\ ep' = [FoldLeft(LAMBDA s, n : Forget(s, n.pkt), ep, ep.nodes)
              EXCEPT !.reqs = <<>>, !.nodes = <<>>, !.buf = 0, !.ready = FALSE,
                     !.missed = @ \cup {r.h : r \in ToSet(ep.reqs)},
                     !.restarts = @ + 1]

-----------------------------------------------------------------------------
(* The outside. *)

Older(r) == [r EXCEPT !.age = IF @ > RespTimeout THEN @ ELSE @ + 1]

Later(n) == [n EXCEPT !.since = IF @ > Interval THEN @ ELSE @ + 1]

(* Time passes; the clock stands still while nothing waits for it.          *)
Tick ==
  /\ ep.reqs # <<>> \/ ep.nodes # <<>>
  /\ ep' = [ep EXCEPT !.reqs = [i \in DOMAIN @ |-> Older(@[i])],
                      !.nodes = [i \in DOMAIN @ |-> Later(@[i])]]

Source == SourceCheck \/ SourceDispatch

EpNext ==
  \/ SendOwn \/ Receive \/ Source \/ Restart
  \/ Tick

(* The loop runs its sources and time passes; the network owes nothing.     *)
EpFair ==
  /\ WF_epVars(Source)
  /\ WF_epVars(Tick)

EpSpec == EpInit /\ [][EpNext]_epVars /\ EpFair

-----------------------------------------------------------------------------
EpTypeOK ==
  /\ ep.reqs \in Seq([h : 1..MaxReq, age : 0..RespTimeout + 1])
  /\ \A i \in DOMAIN ep.nodes :
       /\ ep.nodes[i].cnt \in 0..RetransCnt - 1
       /\ ep.nodes[i].remain \in 0..Interval
  /\ ep.ready \in BOOLEAN
  /\ ep.sent \in 0..MaxReq
  /\ ep.missed \subseteq 1..MaxReq

Pending(h) == h \in {r.h : r \in ToSet(ep.reqs)}

(* EndpointSound: the lists of the endpoint agree with what was sent and    *)
(* called.                                                                  *)
(*  - a request's handler is called at most once, not while the request is  *)
(*    pending, and with the answer to this very request or a timeout;       *)
(*  - the kept packets fill curBufSize exactly, within maxBufSize;          *)
(*  - a repeated request that is not handled anew is met with the response  *)
(*    kept for it, sent to the peer that repeated it, also when peers use   *)
(*    the same message id and token;                                        *)
(*  - a request is handled a second time only if its response was not kept  *)
(*    or was given up since (CoapEndpointRecvPacketRetransProcess).         *)
EndpointSound ==
  /\ EpTypeOK
  /\ \A h \in 1..MaxReq :
       /\ ep.called[h] \in {<<>>, <<h>>, <<0>>}
       /\ Pending(h) \/ h \in ep.missed => ep.called[h] = <<>>
  /\ Len(ep.reqs) <= ep.max
  /\ ep.buf = FoldLeft(LAMBDA n, x : n + PktLen(x.pkt), 0, ep.nodes)
  /\ ep.buf <= BufMax
  /\ ep.astray = {}
  /\ \A k \in ReqKeys : ep.handled[k] <= ep.forgot[k] + 1

(* RequestsSettle: a pending request does not stay in the list, whatever is *)
(* lost: it is answered or times out (CoapEndpointSourceCheck).             *)
RequestsSettle ==
  \A h \in 1..MaxReq : Pending(h) ~> ~Pending(h)
=============================================================================
