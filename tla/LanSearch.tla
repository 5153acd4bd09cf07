------------------------------ MODULE LanSearch ------------------------------
(***************************************************************************)
(* The LAN search service (lan_search/): phones on the local network find  *)
(* the device, agree on a key with it (SPEKE, two requests) and send the   *)
(* binding data under that key.  Peers are kept by address in a hash map   *)
(* with a counter beside it, and are dropped by a periodic check.          *)
(*                                                                         *)
(* Time goes in steps of half the 30 s period of the check.  A fault is a  *)
(* socket that cannot be set up.                                           *)
(***************************************************************************)
EXTENDS Integers, FiniteSets

CONSTANTS
  Addrs,        \* addresses of phones
  MaxPeerNum,   \* config.maxPeerNum
  SpekeTime,    \* LAN_SEARCH_NEW_PEER_SPEKE_TIMEOUT
  PeerTime,     \* config.peerExpireTime
  Period,       \* LAN_SEARCH_EXPIRE_TIMER_CHECK_PERIOD
  MaxStarts,    \* bound: starts of the service
  MaxFaults     \* bound: sockets that cannot be set up

VARIABLE ls

NoPeer == [age |-> 0, exp |-> 0, nego |-> FALSE, fin |-> FALSE]

Quiet(s) == [s EXCEPT !.step = "none", !.known = FALSE, !.took = FALSE]

(* The hash map: its keys are the addresses with a peer.                    *)
Keys(s) == {a \in Addrs : s.peers[a] # NoPeer}
UtilsHashMapLength(s) == Cardinality(Keys(s))
UtilsHashMapRemove(s, a) == [s EXCEPT !.peers[a] = NoPeer]

-----------------------------------------------------------------------------
(* lan_search_peer_mngr.c *)

(* The check: drop what has expired and count again.                        *)
PeerExpireCheckTimer(s) ==
  LET left == {a \in Keys(s) : s.peers[a].age < s.peers[a].exp}
  IN  [s EXCEPT !.peers = [a \in Addrs |-> IF a \in left THEN @[a] ELSE NoPeer],
                !.cur = Cardinality(left)]

(* The timer is added when there is none, that is when its number is below  *)
(* zero; Deinit leaves the number 0.                                        *)
LanSearchPeerManagerInit(s) ==
  [s EXCEPT !.map = TRUE, !.cur = UtilsHashMapLength(s),
            !.timer = IF @ = "none" THEN "armed" ELSE @, !.phase = 0]

LanSearchPeerManagerDeinit(s) ==
  [s EXCEPT !.map = FALSE, !.cur = 0, !.timer = "zero",
            !.peers = [a \in Addrs |-> NoPeer]]

(* No peer is looked for while the counter says there is none.              *)
LanSearchGetPeer(s, a) ==
  IF s.map /\ s.cur # 0 THEN s.peers[a] ELSE NoPeer

LanSearchSpekeNotifySpekeFinishedCallback(p) == [p EXCEPT !.fin = TRUE, !.exp = PeerTime]

LanSearchPeerNew == [age |-> 0, exp |-> SpekeTime, nego |-> FALSE, fin |-> FALSE]

LanSearchDestroyPeer(s, a) ==
  IF a \notin Keys(s) THEN s
  ELSE LET t == UtilsHashMapRemove(s, a) IN [t EXCEPT !.cur = UtilsHashMapLength(t)]

(* A new peer replaces one of the same address.  The counter is not         *)
(* brought up to date; the next check does that.                            *)
LanSearchCreatePeer(s, a) ==
  IF ~s.map THEN s
  ELSE LET t == LanSearchDestroyPeer(s, a)
       IN  IF t.cur >= MaxPeerNum THEN t ELSE [t EXCEPT !.peers[a] = LanSearchPeerNew]

-----------------------------------------------------------------------------
(* lan_search_sess.c and lan_search_coap_api.c.  Searching and SPEKE are in *)
(* the white list and go in clear; the rest needs a finished negotiation.   *)

DecryptAnyPeer(s, a) == LanSearchGetPeer(s, a) # NoPeer

(* LanSearchSessSpekeProcess on a request that is not in clear.             *)
LanSearchSessCoapRecvDecrypt(s, a) == LanSearchGetPeer(s, a).fin

(* SpekeProcessPacket: the first request opens a negotiation, the second    *)
(* ends the one that is open; what does not fit gets no answer.             *)
SpekeProcessPacket(p, m) ==
  IF m = "req" THEN [p EXCEPT !.nego = TRUE]
  ELSE IF p.nego THEN [LanSearchSpekeNotifySpekeFinishedCallback(p) EXCEPT !.nego = FALSE]
  ELSE p

(* step and known record what the message was, and whether the negotiation  *)
(* it belongs to was still there.                                           *)
LanSearchCoapSpekeHandler(s, a, m) ==
  LET t == IF LanSearchGetPeer(s, a) = NoPeer THEN LanSearchCreatePeer(s, a) ELSE s
      o == [t EXCEPT !.step = m, !.known = s.peers[a].nego /\ s.cur # 0]
  IN  IF t.peers[a] = NoPeer THEN o
      ELSE [o EXCEPT !.peers[a] = SpekeProcessPacket(@, m), !.took = (m = "req" \/ t.peers[a].nego)]

LanSearchCoapSearchHandler(s) == [s EXCEPT !.step = "search", !.took = TRUE]

LanSearchCoapCloudSetupHandler(s, a) ==
  IF LanSearchSessCoapRecvDecrypt(s, a)
  THEN [s EXCEPT !.step = "setup", !.took = TRUE, !.known = s.peers[a].fin]
  ELSE [s EXCEPT !.step = "setup"]

Handle(s, a, m) ==
  CASE m = "search"        -> LanSearchCoapSearchHandler(s)
    [] m \in {"req", "cfm"} -> LanSearchCoapSpekeHandler(s, a, m)
    [] m = "setup"         -> LanSearchCoapCloudSetupHandler(s, a)

-----------------------------------------------------------------------------
(* lan_search_coap_stack.c and lan_search_svc.c *)

LanSearchCoapStackStart(s) ==
  IF s.started THEN [ok |-> {s}, err |-> {}]
  ELSE [ok  |-> {[s EXCEPT !.created = TRUE, !.started = TRUE]},
        err |-> IF s.faults < MaxFaults
                THEN {[s EXCEPT !.created = c, !.faults = @ + 1] : c \in {s.created, TRUE}}
                ELSE {}]

LanSearchCoapStackStop(s) == [s EXCEPT !.started = FALSE]

LanSearchCoapStackDestroy(s) == [s EXCEPT !.started = FALSE, !.created = FALSE]

LanSearchServiceStopInner(s) == LanSearchPeerManagerDeinit(LanSearchCoapStackDestroy(s))

(* A failed start takes everything back but the subscriptions.              *)
LanSearchServiceStart(s) ==
  LET t == [LanSearchPeerManagerInit(s) EXCEPT !.sub = TRUE]
      r == IF s.net THEN LanSearchCoapStackStart(t) ELSE [ok |-> {t}, err |-> {}]
  IN  {[u EXCEPT !.on = TRUE] : u \in r.ok} \cup {LanSearchServiceStopInner(u) : u \in r.err}

-----------------------------------------------------------------------------
(* LanSearchContextInit.                                                    *)
LsInit ==
  ls = [on |-> FALSE, sub |-> FALSE, map |-> FALSE, created |-> FALSE, started |-> FALSE,
        timer |-> "none", phase |-> 0, peers |-> [a \in Addrs |-> NoPeer], cur |-> 0,
        net |-> FALSE, step |-> "none", known |-> FALSE, took |-> FALSE,
        starts |-> 0, faults |-> 0]

(* By the cloud service, each time it comes online.                         *)
Start ==
  /\ ~ls.on /\ ls.starts < MaxStarts
  /\ \E s \in LanSearchServiceStart([Quiet(ls) EXCEPT !.starts = @ + 1]) : ls' = s

Stop == ls.on /\ ls' = [LanSearchServiceStopInner(Quiet(ls)) EXCEPT !.on = FALSE]

(* EventSubForLanSearchCoapStackStart and -Stop, on a change of the network.*)
NetEvent ==
  LET s == [Quiet(ls) EXCEPT !.net = ~@]
      r == LanSearchCoapStackStart(s)
  IN  IF ~ls.sub THEN ls' = s
      ELSE IF s.net THEN \E t \in r.ok \cup r.err : ls' = t
      ELSE ls' = LanSearchCoapStackStop(s)

Recv ==
  /\ ls.started
  /\ \E a \in Addrs, m \in {"search", "req", "cfm", "setup"} : ls' = Handle(Quiet(ls), a, m)

(* Half a period passes; the check runs with the end of each period.        *)
Tick ==
  LET s == [Quiet(ls) EXCEPT
              !.peers = [a \in Addrs |-> IF @[a] = NoPeer THEN NoPeer
                                         ELSE [@[a] EXCEPT !.age = IF @ < PeerTime THEN @ + 1 ELSE @]],
              !.phase = (@ + 1) % Period]
  IN  /\ ls.on
      /\ ls' = IF ls.timer = "armed" /\ s.phase = 0 THEN PeerExpireCheckTimer(s) ELSE s

LsNext == Start \/ Stop \/ NetEvent \/ Recv \/ Tick

LsSpec == LsInit /\ [][LsNext]_ls

-----------------------------------------------------------------------------
(* LAN search soundness (lan_search_peer_mngr.c, lan_search_sess.c).        *)
(* - The counter never says more peers than there are, so a lookup that is  *)
(*   skipped is the only harm of its lag.                                   *)
(* - Binding data is taken only under a key agreed with the same address    *)
(*   and still held.                                                        *)
(* - A second request ends the negotiation it belongs to, whenever the      *)
(*   counter shows that the peer can be looked up.                          *)
(* - While the check runs, no peer outlives its time by more than a period, *)
(*   nor does an unfinished negotiation.                                    *)
(* - Peers are only kept by a running service, and a service that was       *)
(*   started at the first attempt runs the check.  A later start does not:  *)
(*   the stop has left the timer's number 0, which a start takes for a      *)
(*   timer that is there.                                                   *)
(* Nothing is said of how many peers there are: creating one leaves the     *)
(* counter behind, so between two checks maxPeerNum does not bound them.    *)
LanSound ==
  /\ ls.cur <= UtilsHashMapLength(ls)
  /\ ls.took /\ ls.step = "setup" => ls.known
  /\ ls.took /\ ls.step = "cfm" => ls.known
  /\ ls.step = "cfm" /\ ls.known => ls.took
  /\ ls.timer = "armed" =>
       \A a \in Keys(ls) : /\ ls.peers[a].age < ls.peers[a].exp + Period
                           /\ ~ls.peers[a].fin => ls.peers[a].exp = SpekeTime
  /\ ~ls.on => Keys(ls) = {} /\ ~ls.map /\ ls.timer # "armed"
  /\ ls.on /\ ls.starts = 1 => ls.timer = "armed"
  /\ ls.started => ls.created /\ ls.net
=============================================================================
