------------------------------ MODULE CloudFsm ------------------------------
(***************************************************************************)
(* The cloud service (wifi/application/cloud): the state machine that      *)
(* registers, logs in, revokes and stays online, the link below it and the *)
(* CoAP client that pairs its requests with answers and timeouts.          *)
(*                                                                         *)
(* Everything runs on the loop thread: a timer callback, an answer, an     *)
(* expiry, a link error or an event is one step.  A step is an operator    *)
(* on the state s of the service, because handlers run inside each other:  *)
(* a send that fails runs the link error callback, a send that succeeds    *)
(* first runs the handler of an expired request, and the state a handler   *)
(* of the table returns overwrites what those have switched to.            *)
(*                                                                         *)
(* A binding is a number: the register info of binding n, delivered by the *)
(* network configuration, becomes login info n once the cloud accepts it.  *)
(* A request is live while an answer to it may still arrive.  Payloads,    *)
(* options and keys are left out; memory, flash and the timer list do not  *)
(* fail, and the device service the reports come from is registered.       *)
(***************************************************************************)
EXTENDS Integers, Sequences, FiniteSets

CONSTANTS Subs,        \* SLE devices behind this gateway
          Uses         \* what the environment may do, see Calm

VARIABLES
  c,        \* the service and what it keeps, see Down
  store,    \* in flash: login info and revoke flag
  reg,      \* in RAM: g_devRegInfo, the binding to register, or 0
  boot,     \* "up", or "restoring" once IotcFwkRestore asked for a reboot
  bound,    \* history: bindings made known so far
  asked,    \* history: the bindings for which a revocation was asked, see PowerCutInRevoke
  trouble,  \* disturbances left
  use       \* the use the behaviour belongs to

vars == <<c, store, reg, boot, bound, asked, trouble, use>>

\* s: the service's context together with the flash, the unit every operator below works on
Here == [c |-> c, store |-> store, reg |-> reg, boot |-> boot]
Becomes(s) == c' = s.c /\ store' = s.store /\ reg' = s.reg /\ boot' = s.boot
Costs(n) == n <= trouble /\ trouble' = trouble - n

\* rough: SLE devices are set up, and several requests may expire in one check; stray: a device without a binding may be restored too;
\* bounds: trouble, the disturbances by network, cloud or user; room, the requests
\* pending at once (the client's limit of 255 is never met); binds, the bindings made
Calm == [rough |-> FALSE, stray |-> FALSE, trouble |-> 3, room |-> 1, binds |-> 2]
Rough == [rough |-> TRUE, stray |-> FALSE, trouble |-> 2, room |-> 1, binds |-> 1]
Stray == [rough |-> FALSE, stray |-> TRUE, trouble |-> 2, room |-> 1, binds |-> 2]

MaxBind == 2   \* the largest binds of a use
Asking == {"PSK", "REGISTER", "LOGIN", "AUTHCODE", "REVOKE", "DEV_INFO_SYNC",
           "GET_AUTHCODE", "ECO_DEV_INFO_SYNC", "ECO_STATE_SYNC"}
Waiting == [k \in Asking |-> k \o "_WAIT_RESP"]
States == Asking \cup {Waiting[k] : k \in Asking} \cup {"INIT", "CREATE_LINK", "CONNECT", "ONLINE", "EXIT"}
Requests == [kind : Asking \cup {"HEARTBEAT", "TOKEN"}, live : BOOLEAN, of : 0..MaxBind]
Answers == {"ok", "err", "gone", "bad"}   \* errcode 0, another, one that ends the binding, unreadable

\* M2mCloudCtxInit and the lists of the device manager, as a boot leaves them
Down == [fsm |-> "none",           \* stateManager.fsmCtx: NULL, or its state
         bits |-> {},              \* bitMap: of REGISTER and REVOKE those set
         auth |-> 0,               \* authInfo: the binding it holds, 0 when zeroed
         timers |-> {},            \* of reg, token and hb those armed
         link |-> "null",          \* linkInfo: no endpoint, closed, up
         reqs |-> <<>>,            \* client.reqList, oldest first
         sent |-> 0,               \* heartbeatInfo.sentCnt, up to its limit
         failed |-> FALSE,         \* history: REGISTER_FAILED was published
         skipped |-> FALSE,        \* history: a link error took the machine past CREATE_LINK
         listening |-> FALSE,      \* isInitialized of SleDeviceCloudFsmInit
         waiting |-> {},           \* pending_list
         sub |-> [d \in Subs |-> "no"]]  \* online_list: no, pending, info, sync, online

Init ==
  /\ use \in Uses
  /\ c = Down /\ boot = "up" /\ reg = 0 /\ asked = {} /\ trouble = use.trouble
  /\ \E n \in {0, 1} : store = [login |-> n, revoke |-> FALSE] /\ bound = n
-----------------------------------------------------------------------------
(* The link and the CoAP client.                                           *)

\* UtilsFsmSwitch does nothing without a machine
To(s, state) == IF s.c.fsm = "none" THEN s ELSE [s EXCEPT !.c.fsm = state]
Disarm(s, ts) == [s EXCEPT !.c.timers = @ \ ts]
Unanswered(q) == [k \in DOMAIN q |-> [q[k] EXCEPT !.live = FALSE]]
HbLimit == 2   \* CLOUD_HB_TIMEOUT_CNT

M2mCloudDisableHeartbeat(s) == Disarm([s EXCEPT !.c.sent = 0], {"hb"})

\* the requests of a closed connection stay in the list of the endpoint
M2mCloudLinkClose(s) ==
  IF s.c.link = "null" THEN s
  ELSE [s EXCEPT !.c.link = "closed", !.c.reqs = Unanswered(@)]

M2mCloudLinkDeinit(s) == [s EXCEPT !.c.link = "null", !.c.reqs = <<>>]
\* faulty: an endpoint that exists is used again
Reuses_M2mCloudLinkCreate(s) == [M2mCloudLinkClose(s) EXCEPT !.c.link = "closed", !.c.skipped = FALSE]
M2mCloudLinkCreate(s) == [M2mCloudLinkDeinit(s) EXCEPT !.c.link = "closed", !.c.skipped = FALSE]

CloudSessLinkErrorCallback(s) ==
  LET skips == s.c.fsm = "CREATE_LINK"
      off == Disarm(M2mCloudDisableHeartbeat(M2mCloudLinkClose(s)), {"token"})
  IN To([off EXCEPT !.c.skipped = @ \/ skips], "CONNECT")

\* IotcFwkRestore: the device service forgets the register info, then the device reboots
IotcFwkRestore(s) == [s EXCEPT !.reg = 0, !.boot = "restoring"]
CleanLoginInfo(s) == [s EXCEPT !.store.login = 0]

\* the answer, or its absence, is not looked at, nor is the state
CloudRevokeRespHandler(s) == To(CleanLoginInfo([s EXCEPT !.store.revoke = FALSE]), "INIT")

\* faulty: only the heartbeat and the revocation handle a timeout
Shrugs_OnTimeout(s, kind) ==
  CASE kind = "REVOKE" -> CloudRevokeRespHandler(s)
    [] kind = "HEARTBEAT" /\ s.c.sent >= HbLimit -> To(M2mCloudDisableHeartbeat(s), "CONNECT")
    [] OTHER -> s
\* what the handler of a request of that kind does when it is told of the timeout
OnTimeout(s, kind) ==
  CASE kind = "REVOKE" -> CloudRevokeRespHandler(s)
    [] kind = "TOKEN" -> s
    [] kind = "HEARTBEAT" ->
         IF s.c.sent >= HbLimit THEN To(M2mCloudDisableHeartbeat(s), "CONNECT") ELSE s
    [] OTHER -> IF s.c.fsm = Waiting[kind] THEN To(s, "CONNECT") ELSE s

\* how many of the oldest requests may have expired by now
Expired(s) == {n \in 0..Len(s.c.reqs) : /\ \A k \in 1..n : ~s.c.reqs[k].live
                                        /\ n > 1 => use.rough}

\* the last of them is of the kind the machine waits for, and it waits for a newer one:
\* the answer to that is slow, which counts as a disturbance
Slow(s, n) ==
  IF /\ n > 0 /\ s.c.reqs[n].kind \in Asking /\ s.c.fsm = Waiting[s.c.reqs[n].kind]
     /\ \E i \in DOMAIN s.c.reqs : s.c.reqs[i].live /\ s.c.reqs[i].kind = s.c.reqs[n].kind
  THEN 1 ELSE 0

\* n requests expired: GetTimeoutRespHandler removes them all and returns the last handler
CoapClientRespTimeoutCheck(s, n) ==
  IF n = 0 THEN s
  ELSE OnTimeout([s EXCEPT !.c.reqs = SubSeq(@, n + 1, Len(@))], s.c.reqs[n].kind)

\* the builders with an effect; SLE devices are taken from the lists
Buildable(s, kind) ==
  CASE kind = "GET_AUTHCODE" -> s.c.waiting # {}
    [] kind \in {"ECO_DEV_INFO_SYNC", "ECO_STATE_SYNC"} -> \E d \in Subs : s.c.sub[d] # "no"
    [] OTHER -> TRUE
M2mBuildRequest(s, kind) ==
  CASE kind = "HEARTBEAT" -> [s EXCEPT !.c.sent = IF @ < HbLimit THEN @ + 1 ELSE @]
    [] kind = "ECO_DEV_INFO_SYNC" ->
         [s EXCEPT !.c.sub = [d \in Subs |-> IF @[d] = "info" THEN "sync" ELSE @[d]]]
    [] kind = "ECO_STATE_SYNC" /\ (\E d \in Subs : s.c.sub[d] = "sync") ->
         [s EXCEPT !.c.sub[CHOOSE d \in Subs : s.c.sub[d] = "sync"] = "online"]
    [] OTHER -> s

\* a send the network refuses runs the error callback of the link, a send it takes
\* looks for expired requests before it records its own
M2mCloudSendRequest(s, kind, refused, n) ==
  LET b == M2mBuildRequest(s, kind)
      e == CoapClientRespTimeoutCheck(b, n)
      r == [kind |-> kind, live |-> TRUE, of |-> IF kind \in {"LOGIN", "REVOKE"} THEN s.c.auth ELSE 0]
  IN CASE s.c.link = "null" \/ ~Buildable(s, kind) -> [ok |-> FALSE, s |-> s]
       [] s.c.link = "closed" \/ refused -> [ok |-> FALSE, s |-> CloudSessLinkErrorCallback(b)]
       [] OTHER -> [ok |-> TRUE, s |-> [e EXCEPT !.c.reqs = Append(@, r)]]
-----------------------------------------------------------------------------
(* The state machine, run from its timer.                                  *)

\* faulty: the revoke flag is not looked at
NeverRevokes_CloudFsmInitHandler(s) ==
  CASE s.store.login # 0 -> [s EXCEPT !.c.auth = s.store.login, !.c.fsm = "CREATE_LINK", !.c.bits = {}]
    [] s.store.login = 0 /\ s.reg # 0 ->
         [s EXCEPT !.c.auth = s.reg, !.c.fsm = "CREATE_LINK",
                   !.c.bits = {"REGISTER"}, !.c.timers = @ \cup {"reg"}]
    [] OTHER -> [s EXCEPT !.c.bits = {}]
\* the bits are cleared even when there is nothing to do yet
CloudFsmInitHandler(s) ==
  LET idle == [s EXCEPT !.c.bits = {}]
  IN CASE s.store.login # 0 ->
            [idle EXCEPT !.c.auth = s.store.login, !.c.fsm = "CREATE_LINK",
                         !.c.bits = IF s.store.revoke THEN {"REVOKE"} ELSE {}]
       [] s.store.login = 0 /\ s.reg # 0 ->
            [idle EXCEPT !.c.auth = s.reg, !.c.fsm = "CREATE_LINK",
                         !.c.bits = {"REGISTER"}, !.c.timers = @ \cup {"reg"}]
       [] OTHER -> idle

CloudFsmCreateLinkHandler(s) == To(M2mCloudLinkCreate(s), "CONNECT")

\* faulty: a refused connection is not tried again
GivesUp_CloudFsmConnectHandler(s, how) ==
  LET closed == M2mCloudLinkClose(s)
      up == [closed EXCEPT !.c.link = "up"]
  IN CASE s.c.link = "null" \/ how = "refused" -> To(closed, "EXIT")
       [] how = "cut" -> To(CloudSessLinkErrorCallback(up), "PSK")
       [] OTHER -> To(up, "PSK")
\* how: the connection is refused, the first message (CSM) is refused, or all goes well
CloudFsmConnectHandler(s, how) ==
  LET closed == M2mCloudLinkClose(s)
      up == [closed EXCEPT !.c.link = "up"]
  IN CASE s.c.link = "null" \/ how = "refused" -> closed
       [] how = "cut" -> To(CloudSessLinkErrorCallback(up), "PSK")
       [] OTHER -> To(up, "PSK")

\* the handlers that send a request and wait for its answer
CloudFsmSendHandler(s, kind, refused, n) ==
  LET r == M2mCloudSendRequest(s, kind, refused, n)
  IN [r.s EXCEPT !.c.fsm = IF r.ok THEN Waiting[kind] ELSE "CONNECT"]

\* backoff and a network that is down only make CONNECT stay as it is
Init_Run == c.fsm = "INIT" /\ Becomes(CloudFsmInitHandler(Here)) /\ Costs(0)
CreateLink_Run == c.fsm = "CREATE_LINK" /\ Becomes(CloudFsmCreateLinkHandler(Here)) /\ Costs(0)
Connect_Run ==
  /\ c.fsm = "CONNECT"
  /\ \E how \in {"refused", "cut", "well"} :
       Becomes(CloudFsmConnectHandler(Here, how)) /\ Costs(IF how = "well" THEN 0 ELSE 1)
Send_Run ==
  /\ c.fsm \in Asking
  /\ \E refused \in BOOLEAN, n \in Expired(Here) :
       /\ refused => c.link = "up"
       /\ Becomes(CloudFsmSendHandler(Here, c.fsm, refused, n))
       /\ Costs(IF refused THEN 1 ELSE 0)
M2mFsmTimerCallback ==
  /\ Init_Run \/ CreateLink_Run \/ Connect_Run \/ Send_Run
  /\ UNCHANGED <<bound, asked, use>>
-----------------------------------------------------------------------------
(* Answers.                                                                *)

\* DealErrCodeRsp on an answer that ends the binding
Ended(s) == IotcFwkRestore(CleanLoginInfo(s))

\* the timer that watches over the registration is gone before the registration begins
M2mCloudPskRegRespHandler(s, a) ==
  IF a # "ok" THEN To(s, "CONNECT")
  ELSE To(Disarm(s, {"reg"}), IF "REGISTER" \in s.c.bits THEN "REGISTER" ELSE "LOGIN")

M2mCloudRegisterRegRespHandler(s, a) ==
  LET done == [s EXCEPT !.c.bits = @ \ {"REGISTER"}]
  IN CASE a = "bad" -> To(s, "CONNECT")
       [] a = "ok" -> To([done EXCEPT !.store.login = s.c.auth], "LOGIN")
       [] OTHER -> To([done EXCEPT !.c.auth = 0, !.c.failed = TRUE], "EXIT")

CloudLoginRespHandler(s, a) ==
  CASE a = "ok" -> To([s EXCEPT !.c.timers = @ \cup {"token"}],
                      IF "REVOKE" \in s.c.bits THEN "REVOKE" ELSE "DEV_INFO_SYNC")
    [] a = "gone" -> To(Ended(s), "CONNECT")
    [] OTHER -> To(s, "CONNECT")

\* faulty: the heartbeat is left to start by itself
NoHeartbeat_CloudDevInfoSyncRespHandler(s, a) ==
  IF a # "ok" THEN To(s, "CONNECT") ELSE To(Disarm(s, {"reg"}), "AUTHCODE")
\* the heartbeat starts, and the event that the device is online removes the timer reg
CloudDevInfoSyncRespHandler(s, a) ==
  IF a # "ok" THEN To(s, "CONNECT")
  ELSE To([s EXCEPT !.c.timers = (@ \cup {"hb"}) \ {"reg"}, !.c.sent = 0], "AUTHCODE")

\* an authcode the cloud refuses does not keep the device from going online
M2mCloudAuthCodeRegRespHandler(s, a) ==
  IF a = "bad" THEN To(s, "CONNECT") ELSE To([s EXCEPT !.c.listening = TRUE], "ONLINE")

\* a new token is not stored: the handler returns on errcode 0 before it parses it
CloudTokenRefreshRespHandler(s, a) == IF a = "gone" THEN Ended(s) ELSE s
M2mCloudHeartbbeatRespHandler(s, a) == IF a = "bad" THEN s ELSE [s EXCEPT !.c.sent = 0]

\* the device leaves the pending list even when the online list holds it already
MoveCloudDeviceToOnline(s, d) ==
  LET moved == [s EXCEPT !.c.waiting = @ \ {d}]
      new == s.c.sub[d] = "no"
  IN [ok |-> new, s |-> IF new THEN [moved EXCEPT !.c.sub[d] = "pending"] ELSE moved]

\* the answer names the device it was asked for; the machine stays in its state
M2mCloudDevIdRespHandler(s, a) ==
  LET r == MoveCloudDeviceToOnline(s, CHOOSE d \in s.c.waiting : TRUE)
  IN CASE a = "bad" \/ (a = "ok" /\ s.c.waiting = {}) -> To(s, "CONNECT")
       [] a = "ok" /\ s.c.waiting # {} -> IF r.ok THEN r.s ELSE To(r.s, "CONNECT")
       [] OTHER -> s

M2mCloudEcoDevInfoRespHandler(s, a) ==
  CASE a = "ok" -> To(s, "ECO_STATE_SYNC") [] a = "bad" -> To(s, "CONNECT") [] OTHER -> s
M2mCloudEcoDevStateRespHandler(s, a) == IF a = "bad" THEN To(s, "CONNECT") ELSE s

\* every handler but three ignores an answer that the state does not wait for
OnAnswer(s, kind, a) ==
  IF kind \in Asking \ {"REVOKE"} /\ s.c.fsm # Waiting[kind] THEN s
  ELSE CASE kind = "REVOKE" -> CloudRevokeRespHandler(s)
         [] kind = "TOKEN" -> CloudTokenRefreshRespHandler(s, a)
         [] kind = "HEARTBEAT" -> M2mCloudHeartbbeatRespHandler(s, a)
         [] kind = "PSK" -> M2mCloudPskRegRespHandler(s, a)
         [] kind = "REGISTER" -> M2mCloudRegisterRegRespHandler(s, a)
         [] kind = "LOGIN" -> CloudLoginRespHandler(s, a)
         [] kind = "AUTHCODE" -> M2mCloudAuthCodeRegRespHandler(s, a)
         [] kind = "DEV_INFO_SYNC" -> CloudDevInfoSyncRespHandler(s, a)
         [] kind = "GET_AUTHCODE" -> M2mCloudDevIdRespHandler(s, a)
         [] kind = "ECO_DEV_INFO_SYNC" -> M2mCloudEcoDevInfoRespHandler(s, a)
         [] kind = "ECO_STATE_SYNC" -> M2mCloudEcoDevStateRespHandler(s, a)

\* the cloud never accepts a login without credentials
Normal(r) == IF r.kind = "LOGIN" /\ r.of = 0 THEN "err" ELSE "ok"

CoapEndpointClientRecvRespPacket(i, a) ==
  LET r == c.reqs[i]
      got == [Here EXCEPT !.c.reqs = SubSeq(@, 1, i - 1) \o SubSeq(@, i + 1, Len(@))]
      s == OnAnswer(got, r.kind, a)
  IN /\ c.link = "up" /\ r.live
     /\ a = "ok" => Normal(r) = "ok"
     /\ \E n \in Expired(s) :
          /\ Becomes(CoapClientRespTimeoutCheck(s, n))
          /\ Costs(Slow(s, n) + IF a = Normal(r) THEN 0 ELSE 1)
     /\ asked' = asked \cup IF a = "gone" THEN {store.login} \ {store'.login} ELSE {}
     /\ UNCHANGED <<bound, use>>

\* the event source of the endpoint, in the loop while the link is up
CoapEndpointCheck ==
  /\ c.link = "up"
  /\ \E n \in Expired(Here) \ {0} :
       Becomes(CoapClientRespTimeoutCheck(Here, n)) /\ Costs(Slow(Here, n))
  /\ UNCHANGED <<bound, asked, use>>

\* the request or its answer is lost, or comes too late
Lose ==
  /\ \E i \in DOMAIN c.reqs : c.reqs[i].live /\ c' = [c EXCEPT !.reqs[i].live = FALSE]
  /\ Costs(1) /\ UNCHANGED <<store, reg, boot, bound, asked, use>>

LinkError ==
  /\ c.link = "up" /\ Becomes(CloudSessLinkErrorCallback(Here))
  /\ Costs(1) /\ UNCHANGED <<bound, asked, use>>
-----------------------------------------------------------------------------
(* Timers and events.                                                      *)

\* The other timers have periods of a minute and the machine one of milliseconds: they do
\* not fire before it has run.  The requests they send leave room for those of the machine.
Settled == c.fsm \notin Asking \cup {"CREATE_LINK"}
TimerSends(kind, timer) ==
  /\ timer \in c.timers /\ Settled /\ Len(c.reqs) < use.room
  /\ \E refused \in BOOLEAN, n \in Expired(Here) :
       /\ refused => c.link = "up"
       /\ Becomes(M2mCloudSendRequest(Here, kind, refused, n).s)
       /\ Costs(Slow(Here, n) + IF refused THEN 1 ELSE 0)
  /\ UNCHANGED <<bound, asked, use>>
CloudHeartbeatTimerCallback == TimerSends("HEARTBEAT", "hb")
TokenUpdateTimerCallback == TimerSends("TOKEN", "token")

RegisterTimeoutTimerHandler ==
  /\ "reg" \in c.timers /\ Settled
  /\ Becomes(To(Disarm([Here EXCEPT !.c.failed = TRUE], {"reg"}), "EXIT"))
  /\ UNCHANGED <<bound, asked, trouble, use>>

\* an SLE device was set up; known devices are not looked at again
CloudProcessSubData(d) ==
  /\ use.rough /\ c.listening /\ d \notin c.waiting /\ Len(c.reqs) < use.room
  /\ Becomes(To([Here EXCEPT !.c.waiting = @ \cup {d}], "GET_AUTHCODE"))
  /\ UNCHANGED <<bound, asked, trouble, use>>

\* the info of an SLE device arrived; it is given to a device still without a state
CloudProcessDevInfoData(d) ==
  /\ use.rough /\ c.listening /\ c.sub[d] \in {"pending", "info"} /\ Len(c.reqs) < use.room
  /\ Becomes(To([Here EXCEPT !.c.sub[d] = "info"], "ECO_DEV_INFO_SYNC"))
  /\ UNCHANGED <<bound, asked, trouble, use>>

\* the cloud deletes the device
M2mCloudCoapDeviveDelHandler ==
  /\ c.link = "up" /\ store.login # 0 /\ Becomes(Ended(Here))
  /\ asked' = asked \cup {store.login}
  /\ Costs(1) /\ UNCHANGED <<bound, use>>

M2mCloudServiceStart ==
  /\ c.fsm = "none" /\ boot = "up"
  /\ c' = [c EXCEPT !.fsm = "INIT"]
  /\ UNCHANGED <<store, reg, boot, bound, asked, trouble, use>>

\* faulty: the link is left as it is
LeavesLink_StopInner(s) == [s EXCEPT !.c.fsm = "none", !.c.timers = {}]
M2mCloudServiceStopInner(s) ==
  M2mCloudLinkDeinit([s EXCEPT !.c.fsm = "none", !.c.timers = {}])
M2mCloudServiceStop ==
  /\ c.fsm # "none" /\ Becomes(M2mCloudServiceStopInner(Here))
  /\ Costs(1) /\ UNCHANGED <<bound, asked, use>>

\* the network configuration delivers the register info of a new binding, whether or not
\* the device is bound
DeviceServiceRecvBindingInfo ==
  /\ boot = "up" /\ bound < use.binds
  /\ reg' = bound + 1 /\ bound' = bound + 1
  /\ UNCHANGED <<c, store, boot, asked, trouble, use>>

\* the flag is saved first, whether or not there is a binding to revoke
IotcOhRestore ==
  /\ c.fsm # "none" /\ boot = "up" /\ (use.stray \/ store.login # 0)
  /\ Becomes(IotcFwkRestore([Here EXCEPT !.store.revoke = TRUE]))
  /\ asked' = asked \cup ({store.login, reg, c.auth} \ {0})
  /\ Costs(1) /\ UNCHANGED <<bound, use>>

PowerUp == c' = Down /\ reg' = 0 /\ boot' = "up"
Reboot == boot = "restoring" /\ PowerUp /\ UNCHANGED <<store, bound, asked, trouble, use>>
PowerCut == boot = "up" /\ c # Down /\ PowerUp /\ Costs(1) /\ UNCHANGED <<store, bound, asked, use>>
\* power is cut in the revoke handler, after the flag was cleared and before the login info:
\* nothing is left in the device of what was asked
PowerCutInRevoke ==
  /\ c.link = "up"
  /\ \E i \in DOMAIN c.reqs : c.reqs[i].kind = "REVOKE" /\ (c.reqs[i].live \/ i \in Expired(Here))
  /\ store' = [store EXCEPT !.revoke = FALSE] /\ asked' = asked \ {store.login}
  /\ PowerUp /\ Costs(1) /\ UNCHANGED <<bound, use>>
-----------------------------------------------------------------------------
Next ==
  \/ M2mFsmTimerCallback
  \/ \E i \in DOMAIN c.reqs, a \in Answers : CoapEndpointClientRecvRespPacket(i, a)
  \/ CoapEndpointCheck \/ Lose \/ LinkError
  \/ CloudHeartbeatTimerCallback \/ TokenUpdateTimerCallback \/ RegisterTimeoutTimerHandler
  \/ \E d \in Subs : CloudProcessSubData(d) \/ CloudProcessDevInfoData(d)
  \/ M2mCloudCoapDeviveDelHandler \/ M2mCloudServiceStart \/ M2mCloudServiceStop
  \/ DeviceServiceRecvBindingInfo \/ IotcOhRestore \/ Reboot \/ PowerCut \/ PowerCutInRevoke

Answered(k) ==
  \E i \in DOMAIN c.reqs : /\ c.reqs[i].kind = k
                          /\ CoapEndpointClientRecvRespPacket(i, Normal(c.reqs[i]))
\* The loop runs the timer of the machine and checks the endpoint; the cloud answers what
\* reaches it; the device reboots when it is told to, and its program starts the service.
Fairness ==
  /\ WF_vars(M2mFsmTimerCallback) /\ WF_vars(CoapEndpointCheck)
  /\ \A k \in Asking \cup {"HEARTBEAT", "TOKEN"} : WF_vars(Answered(k))
  /\ WF_vars(M2mCloudServiceStart) /\ WF_vars(Reboot)
Spec == Init /\ [][Next]_vars /\ Fairness
-----------------------------------------------------------------------------
TypeOK ==
  /\ c.fsm \in States \cup {"none"} /\ c.bits \subseteq {"REGISTER", "REVOKE"}
  /\ c.auth \in 0..MaxBind /\ c.timers \subseteq {"reg", "token", "hb"}
  /\ c.link \in {"null", "closed", "up"} /\ c.reqs \in Seq(Requests) /\ c.sent \in 0..HbLimit
  /\ c.sub \in [Subs -> {"no", "pending", "info", "sync", "online"}]
  /\ store \in [login : 0..MaxBind, revoke : BOOLEAN] /\ reg \in 0..MaxBind

(***************************************************************************)
(* A service that is stopped holds nothing: no endpoint, no request and no *)
(* timer of it is left to call into it (M2mCloudServiceStopInner).  A      *)
(* request never outlives its endpoint and is answered only over the       *)
(* connection it was sent on.                                              *)
(***************************************************************************)
ServiceSound ==
  /\ TypeOK
  /\ c.fsm = "none" => c.timers = {} /\ c.link = "null"
  /\ c.reqs # <<>> => c.link # "null"
  /\ \A i \in DOMAIN c.reqs : c.reqs[i].live => c.link = "up"

(***************************************************************************)
(* A revocation that is on its way, or was given up and is still to expire,*)
(* can only wipe the login info of the binding it was sent for, although   *)
(* CloudRevokeRespHandler looks neither at its answer nor at the state it  *)
(* meets: CREATE_LINK throws the requests of the old endpoint away before  *)
(* anything is registered.  A link error between INIT and CREATE_LINK      *)
(* takes the machine past that step, and then it does not hold.            *)
(***************************************************************************)
RevokesItsOwn ==
  c.skipped \/ \A i \in DOMAIN c.reqs : c.reqs[i].kind = "REVOKE" => store.login \in {c.reqs[i].of, 0}

(***************************************************************************)
(* ONLINE is what it says: the link is up, the timers that ask for a new   *)
(* token and send the heartbeat run, and the device is logged in with the  *)
(* binding that is in flash.  That the token is fresh is not said: see     *)
(* CloudTokenRefreshRespHandler.  The exception is a binding that somebody *)
(* asked to end: its credentials stay in memory, and a link error after    *)
(* the revocation makes CloudSessLinkErrorCallback connect with them       *)
(* again.  (For skipped see RevokesItsOwn.)                                *)
(***************************************************************************)
OnlineSound ==
  c.fsm = "ONLINE" =>
    /\ c.link = "up" /\ {"token", "hb"} \subseteq c.timers /\ c.auth # 0
    /\ store.login = c.auth \/ c.auth \in asked \/ c.skipped

(***************************************************************************)
(* While requests expire one at a time, a state that waits for an answer   *)
(* has its request pending on an open connection: some answer, expiry or   *)
(* link error will take the machine out of it.  (The states for SLE        *)
(* devices stay where they are after the answer, and several expiries in   *)
(* one check lose all handlers but the last.)                              *)
(***************************************************************************)
NoDeafWait ==
  ~use.rough => \A k \in Asking :
    c.fsm = Waiting[k] => c.link = "up" /\ \E i \in DOMAIN c.reqs : c.reqs[i].kind = k

(***************************************************************************)
(* A device that is bound, or was given register info, comes online once   *)
(* the disturbances are over, or its registration fails, or it loses both. *)
(***************************************************************************)
ComesOnline ==
  (use = Calm /\ (store.login # 0 \/ reg # 0))
    ~> (c.fsm = "ONLINE" \/ c.failed \/ (store.login = 0 /\ reg = 0))

(***************************************************************************)
(* A binding that was to be revoked is forgotten for good while requests   *)
(* expire one at a time, whatever messages, connections or power are lost  *)
(* on the way, but for one cut of power: that between the two saves of     *)
(* CloudRevokeRespHandler, which keeps the login info and forgets that it  *)
(* was to be revoked (PowerCutInRevoke, the step that takes the binding    *)
(* out of asked).                                                          *)
(***************************************************************************)
RestoreForgets ==
  \A n \in 1..MaxBind :
    (use = Calm /\ n \in asked) ~> (n \notin asked \/ [](store.login # n))

(***************************************************************************)
(* When IotcOhRestore returns the restore is over: login info is wiped     *)
(* only if a restore, or the cloud, was asked to end that very binding.    *)
(***************************************************************************)
OnlyAskedWiped == [][store.login # 0 /\ store'.login # store.login => store.login \in asked']_vars

(***************************************************************************)
(* The service's state is what the machine says in every interleaving of   *)
(* timers, answers, expiries and link errors: stopped means nothing left,  *)
(* ONLINE means online, waiting means something is awaited.                *)
(***************************************************************************)
CloudSound == ServiceSound /\ OnlineSound /\ NoDeafWait
=============================================================================
