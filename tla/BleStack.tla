------------------------------ MODULE BleStack ------------------------------
(***************************************************************************)
(* The BLE service: its start and stop (ble_svc.c), the GATT server and    *)
(* its bookkeeping of the connection (ble_gatt_mgt.c, ble_sched_event.c),  *)
(* advertising with its timer (ble_adv_ctrl.c), and the adapter to the     *)
(* Bluetooth host (adapter/ble/ohos_standard/iotc_ble.c).                  *)
(*                                                                         *)
(* Two threads meet here.  Everything of the service runs on the           *)
(* scheduler's loop; the callbacks of the Bluetooth host run on a thread   *)
(* of its own and post events to the loop's queue without waiting.  While  *)
(* the loop polls for a callback's result it serves no event.              *)
(***************************************************************************)
EXTENDS Integers, Sequences, FiniteSets

CONSTANTS
  ConnIds,      \* connection numbers of the host, 0 may be one of them
  QCap,         \* room in the loop's queue
  Durs,         \* advertising times, Always excluded
  MaxCalls,     \* bound: calls of the application
  MaxLinks,     \* bound: connections a peer makes
  MaxFaults     \* bound: requests to the host that fail or are answered late

Always == -1      \* IOTC_BLE_ADV_ALWAYS
NoLink == -1
Items == 1..3     \* what the host adds: application, service, characteristics
Started == 0      \* results of the host that are events: a service is started
Deleted == -1     \* or deleted

VARIABLE bs

BsInit ==
  bs = [on |-> FALSE, stack |-> FALSE,
        num |-> 0, started |-> 0,                    \* svcNum, startedSvcNum
        handles |-> [i \in Items |-> 0],             \* attempt each handle is from
        connNum |-> 0, peer |-> 0,                   \* connNum, peerDevInfo[0].connId
        sess |-> FALSE,                              \* a session or SPEKE with the peer
        dur |-> 0, age |-> 0, timer |-> FALSE,       \* g_advDuration, time since start
        advId |-> FALSE,                             \* g_advId is valid
        q |-> <<>>,                                  \* queue of the loop
        wait |-> [for |-> "none"],                   \* what the loop polls for
        att |-> 0, res |-> [i \in Items |-> 0],      \* attempts, g_...Result of each item
        \* the Bluetooth host
        cbs |-> <<>>, advReq |-> FALSE, adv |-> FALSE, up |-> FALSE, link |-> NoLink,
        \* history and bounds
        gaps |-> {}, calls |-> 0, links |-> 0, faults |-> 0]

Idle == bs.wait.for = "none"

Queued(ev) == \E i \in 1..Len(bs.q) : bs.q[i].ev = ev

-----------------------------------------------------------------------------
(* The queue of the loop. *)

(* BleGattEventHandler copies an event and posts it with timeout 0; what    *)
(* finds the queue full is freed.                                           *)
Post(s, e) ==
  IF Len(s.q) < QCap THEN [s EXCEPT !.q = Append(@, e)]
  ELSE [s EXCEPT !.gaps = IF e.ev \in {"conn", "disc"} THEN @ \cup {"lost"} ELSE @]

-----------------------------------------------------------------------------
(* Advertising. *)

IotcBleStopAdv(s) ==
  IF s.advId THEN [s EXCEPT !.adv = FALSE, !.advReq = FALSE, !.advId = FALSE] ELSE s

(* StopBleAdvTimer comes first; the name may be refused before the old      *)
(* advertising is stopped.                                                  *)
BleAdapterAdvCtrlStart(s, ms, then) ==
  [IotcBleStopAdv([s EXCEPT !.timer = FALSE])
     EXCEPT !.advId = TRUE, !.advReq = TRUE,
            !.wait = [for |-> "adv", ms |-> ms, then |-> then]]

AdvRefused(s) ==
  [s EXCEPT !.timer = FALSE, !.faults = @ + 1, !.gaps = @ \cup {"advfail"}]

(* Faulty: no timer is added when one ran before. *)
TimerOnlyOnce(s, ms) ==
  [s EXCEPT !.dur = ms, !.timer = ms # Always /\ s.age = 0, !.age = 0]

StartBleAdvTimer(s, ms) ==
  [s EXCEPT !.age = 0, !.dur = ms, !.timer = ms # Always]

BleAdvCtrlStop(s) == IotcBleStopAdv([s EXCEPT !.timer = FALSE])

(* What is left of the advertising time: the time to start again with, or   *)
(* 0 when there is nothing to resume.                                       *)
Remaining(s) ==
  IF s.dur = Always THEN Always ELSE IF s.age >= s.dur THEN 0 ELSE s.dur - s.age

Forgotten(s) ==
  IF s.dur # Always /\ s.age >= s.dur THEN [s EXCEPT !.dur = 0] ELSE s

-----------------------------------------------------------------------------
(* Start and stop of the service. *)

(* Faulty: the services are freed and their count of started ones stays.    *)
GattDestroyKeepsCount(s) ==
  [s EXCEPT !.num = 0, !.handles = [i \in Items |-> 0], !.peer = 0]

(* Has the started services deleted and frees the table; connNum stays.     *)
BleGattMgtDestroy(s) ==
  [s EXCEPT !.cbs = IF s.started > 0 THEN Append(@, [item |-> Deleted, att |-> 0]) ELSE @,
            !.started = 0, !.num = 0, !.handles = [i \in Items |-> 0], !.peer = 0]

(* IotcBleDeInitStack stops the advertising, unregisters the application    *)
(* and disables the host, which drops the connection.  The host may still   *)
(* tell of the deletion and of the disconnection or not.                    *)
IotcBleDeInitStack(s, tell) ==
  LET d == [IotcBleStopAdv(s)
              EXCEPT !.stack = FALSE, !.up = FALSE, !.res[1] = 0, !.link = NoLink,
                     !.cbs = IF tell THEN SelectSeq(@, LAMBDA c : c.item = Deleted) ELSE <<>>]
  IN IF tell /\ s.link # NoLink THEN Post(d, [ev |-> "disc", id |-> s.link]) ELSE d

BleServiceStopInner(s, tell) ==
  IotcBleDeInitStack(
    BleGattMgtDestroy([s EXCEPT !.sess = FALSE, !.on = FALSE, !.wait = [for |-> "none"],
                                !.gaps = IF s.connNum # 0 \/ s.link # NoLink
                                         THEN @ \cup {"stopped"} ELSE @]),
    tell)

(* Each request to add an item resets its result and is then polled for.    *)
AddRequest(s, i, then) ==
  [s EXCEPT !.res[i] = 0, !.cbs = Append(@, [item |-> i, att |-> s.att]),
            !.wait = [for |-> "item", item |-> i, then |-> then]]

IotcBleStartGattsService(s, then) == AddRequest([s EXCEPT !.att = @ + 1], 1, then)

IotcBleInitStack(s) == [s EXCEPT !.stack = TRUE]

(* The services listed by the profile are copied into the adapter's table.  *)
BleGattProfileSvcInit(s) == [s EXCEPT !.num = 1]

(* The callbacks are registered and the peer table cleared.                 *)
BleGattMgtInit(s, then) ==
  IotcBleStartGattsService([BleGattProfileSvcInit(s) EXCEPT !.peer = 0], then)

BleServiceInit(s) == BleGattMgtInit(IotcBleInitStack(s), "start")

(* Once the loop has the service's handles and the host advertises, the     *)
(* profile, the session and the reports subscribe.                          *)
BleServiceStarted(s) == [s EXCEPT !.on = TRUE]

-----------------------------------------------------------------------------
(* Handlers of the events, on the loop. *)

BleEventConnectHandler(s, e) ==
  IF s.connNum >= 1 THEN s ELSE [s EXCEPT !.connNum = 1, !.peer = e.id]

(* Sessions end when IOTC_CORE_BLE_EVENT_GATT_DISCONNECT is published.      *)
PublishDisconnect(s) == IF s.on THEN [s EXCEPT !.sess = FALSE] ELSE s

(* Faulty: the event is not published when the device is registered.        *)
DisconnectUnpublished(s, e, registered) ==
  LET r == IF s.peer = e.id THEN [s EXCEPT !.connNum = 0, !.peer = 0] ELSE s
  IN IF s.connNum = 0 THEN {s}
     ELSE IF registered THEN {r}
     ELSE IF Remaining(r) = 0 THEN {PublishDisconnect(Forgotten(r))}
     ELSE (IF s.stack THEN {BleAdapterAdvCtrlStart(r, Remaining(r), "disc")} ELSE {})
          \cup (IF s.faults < MaxFaults \/ ~s.stack THEN {AdvRefused(r)} ELSE {})

(* The device advertises again unless the product says it is registered; if *)
(* that fails the handler returns before it publishes.                      *)
BleEventDisconnectHandler(s, e, registered) ==
  LET r == IF s.peer = e.id THEN [s EXCEPT !.connNum = 0, !.peer = 0] ELSE s
  IN IF s.connNum = 0 THEN {s}
     ELSE IF registered THEN {PublishDisconnect(r)}
     ELSE IF Remaining(r) = 0 THEN {PublishDisconnect(Forgotten(r))}
     ELSE (IF s.stack THEN {BleAdapterAdvCtrlStart(r, Remaining(r), "disc")} ELSE {})
          \cup (IF s.faults < MaxFaults \/ ~s.stack THEN {AdvRefused(r)} ELSE {})

(* A service that did not start is added again.                             *)
BleEventStartSvcResultHandler(s, e) ==
  IF s.num = 0 THEN s
  ELSE IF ~e.ok /\ s.handles[2] = e.id
  THEN IotcBleStartGattsService(s, "again")
  ELSE [s EXCEPT !.started = @ + 1]

(* A service that was not deleted is asked to be deleted again, which a     *)
(* host that is disabled by now refuses.                                    *)
BleEventStopSvcResultHandler(s, e) ==
  IF ~e.ok THEN [s EXCEPT !.cbs = IF s.stack THEN Append(@, [item |-> Deleted, att |-> 0]) ELSE @]
  ELSE [s EXCEPT !.started = IF @ > 0 THEN @ - 1 ELSE 0]

(* The attribute is looked up in the table by its handle.                   *)
FindAttrHandle(s) == s.num > 0 /\ s.handles[3] # 0

(* A write is answered first and then handed to the characteristic, whose   *)
(* data may set up a session.                                               *)
BleGattReqWrite(s) ==
  IF s.connNum = 0 \/ ~FindAttrHandle(s) THEN {s} ELSE {s, [s EXCEPT !.sess = s.on]}

(* A read looks the handle up and is answered with no data.                 *)
BleGattReqRead(s) == s

-----------------------------------------------------------------------------
(* Calls of the application run on the loop. *)

BleAdvCtrlStart(s, ms) ==
  (IF s.stack THEN {BleAdapterAdvCtrlStart(s, ms, "call")} ELSE {})
  \cup (IF s.faults < MaxFaults THEN {AdvRefused(s)} ELSE {})

(* Advertising is stopped, its timer is not, and what is left is resumed.   *)
BleAdvCtrlUpdate(s) ==
  LET t == IotcBleStopAdv(s)
  IN IF Remaining(t) = 0 THEN {Forgotten(t)}
     ELSE IF s.stack THEN {BleAdapterAdvCtrlStart(t, Remaining(t), "call")}
     ELSE {AdvRefused(t)}

Called(s, e) ==
  CASE e.op = "start"  -> IF s.on THEN {s} ELSE {BleServiceInit(s)}
    [] e.op = "stop"   -> IF s.on THEN {BleServiceStopInner(s, t) : t \in BOOLEAN} ELSE {s}
    [] e.op = "adv"    -> BleAdvCtrlStart(s, e.ms)
    [] e.op = "advoff" -> {BleAdvCtrlStop(s)}
    [] e.op = "update" -> BleAdvCtrlUpdate(s)

Handled(s, e) ==
  CASE e.ev = "conn"  -> {BleEventConnectHandler(s, e)}
    [] e.ev = "disc"  -> UNION {BleEventDisconnectHandler(s, e, r) : r \in BOOLEAN}
    [] e.ev = "svc"   -> {BleEventStartSvcResultHandler(s, e)}
    [] e.ev = "del"   -> {BleEventStopSvcResultHandler(s, e)}
    [] e.ev = "write" -> BleGattReqWrite(s)
    [] e.ev = "read"  -> {BleGattReqRead(s)}
    [] e.ev = "call"  -> Called(s, e)

BleSchedEventSourceMsgHandler ==
  /\ Idle /\ bs.q # <<>>
  /\ \E s \in Handled([bs EXCEPT !.q = Tail(@)], Head(bs.q)) : bs' = s

AdvCtrlTimerCb ==
  /\ Idle /\ bs.timer /\ bs.age >= bs.dur
  /\ bs' = BleAdvCtrlStop(bs)

-----------------------------------------------------------------------------
(* The loop polls for the result of a request. *)

(* Faulty: the wait takes a result without comparing what it is for. *)
AnyResult(i) == bs.res[i] # 0 \/ (i = 3 /\ bs.res[2] # 0)

HasResult(i) == bs.res[i] # 0

(* The handle is kept and the next item requested; after the last one the   *)
(* service is started, and at the start of the service advertising begins.  *)
WaitAddGattResult(ms) ==
  /\ bs.wait.for = "item" /\ HasResult(bs.wait.item)
  /\ LET i == bs.wait.item
         s == [bs EXCEPT !.handles[i] = bs.res[i]]
         u == [s EXCEPT !.up = TRUE,
                        !.cbs = Append(@, [item |-> Started, att |-> s.handles[2]])]
     IN bs' = IF i + 1 \in Items THEN AddRequest(s, i + 1, bs.wait.then)
              ELSE IF bs.wait.then = "again" THEN [u EXCEPT !.wait = [for |-> "none"]]
              ELSE BleAdapterAdvCtrlStart(u, ms, "start")

WaitStartAdvResult ==
  /\ bs.wait.for = "adv" /\ ~bs.advReq
  /\ LET s == [StartBleAdvTimer(bs, bs.wait.ms) EXCEPT !.wait = [for |-> "none"]]
     IN bs' = CASE bs.wait.then = "call"  -> s
                [] bs.wait.then = "start" -> BleServiceStarted(s)
                [] bs.wait.then = "disc"  -> PublishDisconnect(s)

(* A request fails or BLE_CB_WAIT_TIMEOUT passes: what was asked for may    *)
(* still happen.                                                            *)
WaitFails ==
  /\ ~Idle /\ bs.faults < MaxFaults
  /\ LET s == [bs EXCEPT !.wait = [for |-> "none"], !.faults = @ + 1,
                         !.gaps = @ \cup {IF bs.wait.for = "adv" THEN "advfail" ELSE "late"}]
     IN IF bs.wait.then = "start"
        THEN \E t \in BOOLEAN : bs' = BleServiceStopInner(s, t)
        ELSE bs' = s

-----------------------------------------------------------------------------
(* Callbacks, on the thread of the Bluetooth host. *)

(* Results of requests come in the order of the requests; the result of a   *)
(* start of the service is an event.                                        *)
AddResultCb ==
  /\ bs.cbs # <<>> /\ Head(bs.cbs).item # Deleted
  /\ LET c == Head(bs.cbs)
         s == [bs EXCEPT !.cbs = Tail(@)]
     IN IF c.item \in Items
        THEN bs' = [s EXCEPT !.res[c.item] = c.att]
        ELSE \/ bs' = Post(s, [ev |-> "svc", ok |-> TRUE, id |-> c.att])
             \/ /\ bs.faults < MaxFaults
                /\ bs' = Post([s EXCEPT !.faults = @ + 1], [ev |-> "svc", ok |-> FALSE, id |-> c.att])

(* The host tells that a service was deleted, or that it was not.           *)
ServiceStopCb(ok) ==
  /\ bs.cbs # <<>> /\ Head(bs.cbs).item = Deleted
  /\ ok \/ bs.faults < MaxFaults
  /\ bs' = Post([bs EXCEPT !.cbs = Tail(@), !.faults = IF ok THEN @ ELSE @ + 1],
                [ev |-> "del", ok |-> ok])

AdvStartCb == bs.advReq /\ bs.stack /\ bs' = [bs EXCEPT !.advReq = FALSE, !.adv = TRUE]

(* The event is posted and advertising stopped, from this thread.           *)
ConnectServerCb(c) ==
  /\ bs.stack /\ bs.up /\ bs.adv /\ bs.link = NoLink /\ bs.links < MaxLinks
  /\ bs' = IotcBleStopAdv(Post([bs EXCEPT !.link = c, !.links = @ + 1], [ev |-> "conn", id |-> c]))

DisconnectServerCb ==
  /\ bs.link # NoLink
  /\ bs' = Post([bs EXCEPT !.link = NoLink], [ev |-> "disc", id |-> bs.link])

RequestCb(ev) ==
  /\ bs.link # NoLink /\ bs.q = <<>>
  /\ bs' = Post(bs, [ev |-> ev])

-----------------------------------------------------------------------------

(* One call at a time: the caller holds the lock of the API until the loop  *)
(* has run it.                                                              *)
Calls == {[ev |-> "call", op |-> o, ms |-> 0] : o \in {"start", "stop", "advoff", "update"}}
         \cup {[ev |-> "call", op |-> "adv", ms |-> d] : d \in Durs \cup {Always}}

Call(c) ==
  /\ ~Queued("call") /\ (~Idle => bs.wait.then \in {"disc", "again"})
  /\ bs.calls < MaxCalls /\ Len(bs.q) < QCap
  /\ bs' = [bs EXCEPT !.q = Append(@, c), !.calls = @ + 1]

AdvTick == bs.timer /\ bs.age < bs.dur /\ bs' = [bs EXCEPT !.age = @ + 1]

LoopStep ==
  \/ BleSchedEventSourceMsgHandler
  \/ AdvCtrlTimerCb
  \/ \E d \in Durs \cup {Always} : WaitAddGattResult(d)
  \/ WaitStartAdvResult

HostStep == AddResultCb \/ AdvStartCb \/ \E ok \in BOOLEAN : ServiceStopCb(ok)

BsNext ==
  \/ LoopStep
  \/ WaitFails
  \/ HostStep
  \/ \E c \in ConnIds : ConnectServerCb(c)
  \/ DisconnectServerCb
  \/ \E ev \in {"read", "write"} : RequestCb(ev)
  \/ \E c \in Calls : Call(c)
  \/ AdvTick

BsSpec ==
  /\ BsInit /\ [][BsNext]_bs
  /\ WF_bs(LoopStep) /\ WF_bs(AdvCtrlTimerCb) /\ WF_bs(HostStep) /\ WF_bs(AdvTick)

-----------------------------------------------------------------------------
(* Properties. *)

(* The bookkeeping of the BLE service follows the host, whatever the order  *)
(* of callbacks, calls, waits and the timer: GattStopStaredService never    *)
(* indexes past the services of the table; unless an event found the queue  *)
(* full or the service was stopped on a connection, connNum and the peer    *)
(* are the connection once its events are served; unless advertising could  *)
(* not be resumed, no session outlives the connection; advertising for a    *)
(* limited time has its timer unless a start of it failed; and handles of   *)
(* one service come from one attempt to add it unless a wait for the host   *)
(* expired.                                                                 *)
BleSound ==
  /\ bs.started <= bs.num
  /\ Idle /\ ~Queued("conn") /\ ~Queued("disc") /\ bs.gaps \cap {"lost", "stopped"} = {}
     => /\ bs.connNum = (IF bs.link = NoLink THEN 0 ELSE 1)
        /\ bs.link # NoLink => bs.peer = bs.link
  /\ Idle /\ bs.sess /\ "advfail" \notin bs.gaps => bs.connNum = 1
  /\ Idle /\ bs.adv /\ bs.dur # Always /\ "advfail" \notin bs.gaps => bs.timer
  /\ Idle /\ bs.num > 0 /\ "late" \notin bs.gaps
     => \A i, j \in Items : bs.handles[i] = bs.handles[j]

(* Advertising for a limited time ends by itself, unless a start of it      *)
(* failed: the timer outlives connections, resumptions and updates.         *)
AdvertisingEnds ==
  (bs.adv /\ bs.dur # Always /\ Idle)
    ~> (~bs.adv \/ bs.dur = Always \/ "advfail" \in bs.gaps)

=============================================================================
