----------------------------- MODULE LocalControl -----------------------------
(***************************************************************************)
(* Local control (local_control/, e2e_ctl/): phones on the local network   *)
(* open sessions with the bound device and control it under the session's  *)
(* key.  Sessions are kept in a hash map by their random number, at most   *)
(* one for each phone (puuid), and the oldest makes room for a new one.    *)
(*                                                                         *)
(* Sessions are numbered in the order they are made.  Messages are what    *)
(* phones that hold the key send, again or late: any number near the       *)
(* window, from any address.  Time goes in periods of the check.           *)
(***************************************************************************)
EXTENDS Integers, FiniteSets

CONSTANTS
  Puuids,        \* number of phones
  Addrs,         \* number of their addresses
  MaxClientNum,  \* config.maxClientNum
  ExpireTime,    \* config.clientExpireTime, in periods of the check
  SeqWindow,     \* LOCAL_CONTROL_SEQ_WINDOW
  MapBits,       \* width of seqMap
  MaxSess,       \* bound: sessions made
  MaxMsgs,       \* bound: control messages accepted
  MaxReports,    \* bound: reports sent in a session
  MaxStarts,     \* bound: starts of the service
  MaxLocalFaults      \* bound: sockets, keys and sends that fail

VARIABLE lc

Ids == 1..MaxSess

NoClient == [p |-> 0, a |-> 0, active |-> FALSE, age |-> 0, map |-> {},
             send |-> 0, done |-> {}]

NotOut == -1
Settled(s) == [s EXCEPT !.again = FALSE, !.out = NotOut]
LocalFault(s) == [s EXCEPT !.faults = @ + 1]
MayFail(s) == s.faults < MaxLocalFaults

(* The hash map (utils_hash_map.c).                                         *)
ClientIds(s) == {i \in Ids : s.cli[i] # NoClient}
UtilsHashMapLength(s) == Cardinality(ClientIds(s))
ClientRemoved(s, i) == [s EXCEPT !.cli[i] = NoClient]
NoClients == [i \in Ids |-> NoClient]

-----------------------------------------------------------------------------
(* local_ctl_cli_mngr.c *)

ClientExpireTimerCallback(s) ==
  LET left == {i \in ClientIds(s) : s.cli[i].age < ExpireTime}
  IN  [s EXCEPT !.cli = [i \in Ids |-> IF i \in left THEN @[i] ELSE NoClient],
                !.cur = Cardinality(left)]

LocalCtlClientManagerInit(s) ==
  [s EXCEPT !.map = TRUE, !.cur = UtilsHashMapLength(s), !.timer = TRUE]

LocalCtlClientManagerDestroy(s) ==
  [s EXCEPT !.map = FALSE, !.cli = NoClients, !.timer = FALSE, !.cur = 0]

(* ClientMapTraversalFindPuuid: the sessions of a phone.                    *)
OfPuuid(s, p) == {i \in ClientIds(s) : s.cli[i].p = p}

(* GetLocalControlClient by number.  The search for a phone's session       *)
(* (LocalCtlCoapSearchHandler) changes nothing and is left out.             *)
Known(s, i) == s.map /\ s.cur # 0 /\ s.cli[i] # NoClient

(* LocalControlClientNew: the keys need the authorization data, and may     *)
(* fail.                                                                    *)
LocalControlClientNew(p, a) == [NoClient EXCEPT !.p = p, !.a = a]

(* LocalCtlClientFullProcess: when the counter says full, the oldest goes;  *)
(* among equals it is the last in the order of the hash map.  Without any   *)
(* client to remove there is no result: the new client is refused.          *)
LocalCtlClientFullProcess(s) ==
  IF s.cur < MaxClientNum THEN {s}
  ELSE LET old == {i \in ClientIds(s) : \A j \in ClientIds(s) : s.cli[i].age >= s.cli[j].age}
       IN  {[ClientRemoved(s, i) EXCEPT !.cur = UtilsHashMapLength(ClientRemoved(s, i)),
                                             !.out = s.cli[i].age] : i \in old}

LocalControlClientInsert(s, c) ==
  {LET t == [u EXCEPT !.cli[s.next] = c, !.next = @ + 1]
   IN  [t EXCEPT !.cur = UtilsHashMapLength(t)] : u \in LocalCtlClientFullProcess(s)}

(* The counter is not brought up to date when the phone's earlier client    *)
(* goes, so it is too large until the new one is in.                        *)
RemoveTargetPuuidClient(s, p) ==
  [s EXCEPT !.cli = [i \in Ids |-> IF i \in OfPuuid(s, p) THEN NoClient ELSE @[i]]]

CreateLocalControlClient(s, p, a) ==
  LET t == RemoveTargetPuuidClient(s, p)
  IN  IF ~s.map THEN [ok |-> {}, err |-> {s}]
      ELSE [ok  |-> LocalControlClientInsert(t, LocalControlClientNew(p, a)),
            err |-> (IF MayFail(t) THEN {LocalFault(t)} ELSE {})
                    \cup (IF LocalCtlClientFullProcess(t) = {} THEN {t} ELSE {})]

ActiveKeepsOthers(s, i, a) == [s EXCEPT !.cli[i].a = a, !.cli[i].active = TRUE]

ClientSessActiveUpdateAddr(s, i, a) ==
  IF s.cur = 0 THEN s
  ELSE [s EXCEPT !.cli = [j \in Ids |->
         IF j = i THEN [@[j] EXCEPT !.a = a, !.active = TRUE]
         ELSE IF @[j] # NoClient /\ @[j].a = a THEN [@[j] EXCEPT !.active = FALSE]
         ELSE @[j]]]

-----------------------------------------------------------------------------
(* local_ctl_report.c *)

(* ReportToTargetClient: the number goes on when the report was sent.       *)
ReportToTargetClient(s, i) ==
  (IF s.cli[i].send < MaxReports THEN {[s EXCEPT !.cli[i].send = @ + 1]} ELSE {})
  \cup (IF MayFail(s) THEN {LocalFault(s)} ELSE {})

(* All active clients, here those where sending does not fail.              *)
LocalCtlReportToAllClient(s) ==
  LET active == {i \in ClientIds(s) : s.cli[i].active /\ s.cli[i].send < MaxReports}
  IN  IF s.cur = 0 THEN {s}
      ELSE {[s EXCEPT !.cli = [i \in Ids |-> IF i \in sent THEN [@[i] EXCEPT !.send = @ + 1]
                                             ELSE @[i]],
                      !.faults = IF sent = active THEN @ ELSE @ + 1]
              : sent \in {active} \cup (IF MayFail(s) THEN SUBSET active ELSE {})}

LocalCtlReportToTargetClient(s, i) == IF s.cli[i].active THEN ReportToTargetClient(s, i) ELSE {s}

(* LocalCtrlMsgReportAfterGetCmd, run later by the executor: the client is  *)
(* looked up again.                                                         *)
LocalCtrlMsgReportAfterGetCmd(s, i) ==
  IF ~Known(s, i) THEN {s} ELSE LocalCtlReportToTargetClient(s, i)

-----------------------------------------------------------------------------
(* local_ctl_sess.c: the session's number must be known; a payload is       *)
(* decrypted with the session's key, and that makes the session the active  *)
(* one of the address.  Without a payload neither happens.                  *)
LocalCtlSessCoapRecv(s, i, a, payload) ==
  IF ~Known(s, i) THEN {}
  ELSE {IF payload THEN ClientSessActiveUpdateAddr(s, i, a) ELSE s}

SeqCheckShiftOnly(c, d) ==
  IF d = 0 \/ d > SeqWindow \/ d < -SeqWindow \/ (d < 0 /\ -d \in c.map) THEN {}
  ELSE IF d < 0 THEN {[c EXCEPT !.map = @ \cup {-d}]}
  ELSE {[c EXCEPT !.map = {x + d : x \in @}]}

(* SessCoapRecvSeqCheck.  A message is given by the distance d of its       *)
(* number from the number last taken (recvSeq); map holds the distances     *)
(* behind it at which numbers were taken already.                           *)
SessCoapRecvSeqCheck(c, d) ==
  IF d = 0 \/ d > SeqWindow \/ d < -SeqWindow \/ (d < 0 /\ -d \in c.map) THEN {}
  ELSE IF d < 0 THEN {[c EXCEPT !.map = @ \cup {-d}]}
  ELSE {[c EXCEPT !.map = {b \in {x + d : x \in @} \cup {d} : b < MapBits}]}

(* Values go to the device.  odd records that they did for a session that   *)
(* is not the active one.                                                   *)
Written(s, i) == [s EXCEPT !.odd = @ \/ ~s.cli[i].active]

(* E2eCtrlMsgProcess: a request for values is answered by a report from the *)
(* executor.  The rest goes to the device: values to write, or without data *)
(* the wish for a report of everything, which comes back as a device report.*)
E2eCtrlMsgProcess(s, i, m) ==
  IF m = "get" THEN [s EXCEPT !.asked = @ \cup {i}] ELSE Written(s, i)

(* done holds the distances at which messages were really carried out, and *)
(* again records that one was carried out twice.                            *)
LocalCtlCoapControlHandler(s, i, d, m) ==
  LET taken == SessCoapRecvSeqCheck(s.cli[i], d)
      old == s.cli[i].done
      new == IF d > 0 THEN {b \in {x + d : x \in old} : b < MapBits} \cup {0} ELSE old \cup {-d}
  IN  IF taken = {} THEN {s}
      ELSE {E2eCtrlMsgProcess([s EXCEPT !.cli[i] = [c EXCEPT !.done = new],
                                        !.msgs = @ + 1, !.again = -d \in old], i, m) : c \in taken}

(* localCtlSessKeyGen writes the numbers of the session into the salt of    *)
(* the cloud connection.                                                    *)
localCtlSessKeyGen(s) == [s EXCEPT !.salt = "local"]

LocalCtlCoapSessMngrHandler(s, p, a) ==
  LET r == CreateLocalControlClient(s, p, a)
  IN  {localCtlSessKeyGen(t) : t \in r.ok} \cup r.err

-----------------------------------------------------------------------------
(* local_ctl_coap_stack.c and local_ctl_svc.c *)

LocalControlCoapStackStart(s) ==
  IF s.started THEN [ok |-> {s}, err |-> {}]
  ELSE [ok  |-> {[s EXCEPT !.created = TRUE, !.started = TRUE]},
        err |-> IF MayFail(s) THEN {[LocalFault(s) EXCEPT !.created = c] : c \in {s.created, TRUE}}
                ELSE {}]

LocalControlCoapStackStop(s) == [s EXCEPT !.started = FALSE]

LocalControlCoapStackDestroy(s) == [s EXCEPT !.started = FALSE, !.created = FALSE]

LocalControlServiceStopInner(s) ==
  LocalCtlClientManagerDestroy(LocalControlCoapStackDestroy(s))

EventSubForLocalCoapServerStart(s) ==
  IF ~s.sub \/ ~s.bound \/ ~s.net THEN {s}
  ELSE LET r == LocalControlCoapStackStart(s) IN r.ok \cup r.err

LocalControlServiceStart(s) ==
  LET t == [LocalCtlClientManagerInit(s) EXCEPT !.sub = TRUE]
      r == IF s.bound /\ s.net THEN LocalControlCoapStackStart(t)
           ELSE [ok |-> {t}, err |-> {}]
  IN  {[u EXCEPT !.on = TRUE] : u \in r.ok} \cup {LocalControlServiceStopInner(u) : u \in r.err}

-----------------------------------------------------------------------------
(* LocalCtlCtxInit.                                                         *)
LcInit ==
  lc = [on |-> FALSE, sub |-> FALSE, map |-> FALSE, created |-> FALSE, started |-> FALSE,
        timer |-> FALSE, cli |-> NoClients, cur |-> 0, net |-> FALSE, bound |-> FALSE,
        asked |-> {}, salt |-> "cloud", again |-> FALSE, out |-> NotOut, odd |-> FALSE,
        next |-> 1, msgs |-> 0, starts |-> 0, faults |-> 0]

(* The cloud service comes online: it says so and starts local control, its *)
(* key being negotiated before.                                             *)
Online ==
  /\ ~lc.on /\ lc.net /\ lc.starts < MaxStarts
  /\ \E s \in EventSubForLocalCoapServerStart([Settled(lc) EXCEPT
                  !.bound = TRUE, !.salt = "cloud", !.starts = @ + 1]) :
       \E t \in LocalControlServiceStart(s) : lc' = t

(* LocalControlServiceStop with LocalControlServiceDeinit, when the         *)
(* framework is taken down.  The event bus and the executor go with it.     *)
Stop ==
  /\ lc.on
  /\ lc' = [LocalControlServiceStopInner(Settled(lc)) EXCEPT !.on = FALSE, !.sub = FALSE, !.asked = {}]

(* WIFI_NET_CONNECT and WIFI_NET_DISCONNECT.                                *)
NetEvent ==
  LET s == [Settled(lc) EXCEPT !.net = ~@]
  IN  IF s.net THEN \E t \in EventSubForLocalCoapServerStart(s) : lc' = t
      ELSE lc' = IF s.sub THEN LocalControlCoapStackStop(s) ELSE s

(* Phones and addresses are alike: of those not in use the first stands for *)
(* all.                                                                     *)
FirstFree(used, n) ==
  {x \in 1..n : x \in used \/ \A y \in 1..x-1 : y \in used}
Used == {lc.cli[i].a : i \in Ids}

SessMngr ==
  /\ lc.started /\ lc.next <= MaxSess
  /\ \E p \in FirstFree({lc.cli[i].p : i \in Ids}, Puuids), a \in FirstFree(Used, Addrs) :
       \E s \in LocalCtlCoapSessMngrHandler(Settled(lc), p, a) : lc' = s

Control ==
  /\ lc.started /\ lc.msgs < MaxMsgs
  /\ \E i \in ClientIds(lc), a \in FirstFree(Used, Addrs) :
       \E s \in LocalCtlSessCoapRecv(Settled(lc), i, a, TRUE) :
         \E t \in UNION {LocalCtlCoapControlHandler(s, i, d, m) :
                           d \in -SeqWindow-1..SeqWindow+1, m \in {"get", "put"}} : lc' = t

(* LocalCtlSvcGetCoapHandler answers from the device, LocalCtlSvcCoapHandler *)
(* writes the values of its payload to it.  There is no number to check: a  *)
(* request that comes again is carried out again.                           *)
LocalCtlSvcCoapHandler(s, i, payload) == IF payload THEN {s, Written(s, i)} ELSE {s}

Service ==
  /\ lc.started
  /\ \E i \in ClientIds(lc), a \in FirstFree(Used, Addrs), payload \in BOOLEAN :
       \E s \in LocalCtlSessCoapRecv(Settled(lc), i, a, payload) :
         \E t \in LocalCtlSvcCoapHandler(s, i, payload) : lc' = t

ReportAfterGetCmdExecutorCallback ==
  \E i \in lc.asked :
    \E s \in LocalCtrlMsgReportAfterGetCmd([Settled(lc) EXCEPT !.asked = @ \ {i}], i) : lc' = s

LocalCtlDeviceReportMessageHandler ==
  lc.on /\ \E s \in LocalCtlReportToAllClient(Settled(lc)) : lc' = s

(* A period passes, and the check runs.                                     *)
Tick ==
  /\ lc.timer
  /\ lc' = ClientExpireTimerCallback([Settled(lc) EXCEPT !.cli = [i \in Ids |->
              IF @[i] = NoClient THEN NoClient ELSE [@[i] EXCEPT !.age = @ + 1]]])

LcNext ==
  Online \/ Stop \/ NetEvent \/ SessMngr \/ Control \/ Service
    \/ ReportAfterGetCmdExecutorCallback \/ LocalCtlDeviceReportMessageHandler \/ Tick

LcSpec == LcInit /\ [][LcNext]_lc

-----------------------------------------------------------------------------
(* Local control soundness (local_ctl_cli_mngr.c, local_ctl_coap_api.c).    *)
(* - There are never more sessions than the limit, the counter never says   *)
(*   fewer than there are, and a phone has one session at most.             *)
(* - No two active sessions have the same address, so a report reaches a    *)
(*   phone once (local_ctl_cli_mngr.h says so of the update).               *)
(* - No message to the control resource, where messages are numbered, is    *)
(*   carried out twice in a session, whatever comes again or late.  Nothing *)
(*   is said of how often a request to the other resources is carried out.  *)
(* - Values are written only for a session that has shown its key from the  *)
(*   address it is now active at.                                           *)
(* - Room is made by a session that no other is older than.                 *)
(* - No session is older than its time, and none outlives the service.      *)
LocalSound ==
  /\ UtilsHashMapLength(lc) <= MaxClientNum
  /\ UtilsHashMapLength(lc) <= lc.cur
  /\ \A i, j \in ClientIds(lc) : i # j =>
       /\ lc.cli[i].p # lc.cli[j].p
       /\ lc.cli[i].active /\ lc.cli[j].active => lc.cli[i].a # lc.cli[j].a
  /\ ~lc.again
  /\ ~lc.odd
  /\ lc.out # NotOut => \A i \in ClientIds(lc) : lc.cli[i].age <= lc.out
  /\ \A i \in ClientIds(lc) : lc.cli[i].age < ExpireTime
  /\ ~lc.on => ClientIds(lc) = {} /\ ~lc.timer
=============================================================================
