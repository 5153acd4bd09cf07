------------------------------ MODULE SleStack ------------------------------
(***************************************************************************)
(* The SLE (NearLink) service: its start and stop (sle_svc.c), the SSAP    *)
(* table and the count of connections (sle_ssap_mgt.c, sle_sched_event.c), *)
(* announcing with its timer (sle_adv_ctrl.c), and the adapters to the     *)
(* SLE host.  With ohos_lite the device is a server; with ohos_standard it *)
(* is a client whose service never starts, because the adapter polls for a *)
(* state it never sets.                                                    *)
(*                                                                         *)
(* The service runs on the scheduler's loop; the callbacks of the host run *)
(* on another thread and post events without waiting.                      *)
(***************************************************************************)
EXTENDS Integers, Sequences, FiniteSets

LOCAL INSTANCE SequencesExt

CONSTANTS
  Builds,       \* adapters, among "lite" and "standard"
  ConnIds,      \* connection numbers of the host
  MaxConn,      \* SLE_DEFAULT_MAX_CONN_NUM
  AppSvcs,      \* services an application lists: attributes and functions
  QCap,         \* room in the loop's queue
  Durs,         \* announcing times, Always excluded
  MaxCalls,     \* bound: calls of the application
  MaxLinks,     \* bound: connections peers make
  MaxFaults     \* bound: requests to the host that fail

Always == -1            \* IOTC_SLE_ADV_ALWAYS
UuidTable == 7          \* g_hilink_group_uuid
FuncTable == 10         \* g_charasFunc

VARIABLE ss

Idle == <<>>

SsInit ==
  \E b \in Builds :
    ss = [build |-> b, main |-> FALSE, on |-> FALSE,  \* g_mainTaskId
          opt |-> Idle,                               \* what a thread is about to list
          init |-> Idle,                              \* a start that has counted the list
          list |-> <<>>, svc |-> <<>>, peers |-> FALSE, \* g_ssapSvcList, svc, peerDevInfo
          connNum |-> 0, cur |-> 0,                   \* connNum, g_connectId
          cbs |-> FALSE, subs |-> FALSE,              \* host callbacks, connectStateChnage
          follow |-> FALSE,                           \* SleConnectStateCallback subscribed
          ann |-> FALSE,                              \* g_sleAdvCtrlCb
          uuid |-> 0, func |-> 0,                     \* g_hilink_group_cnt, g_chara_cnt
          dur |-> 0, age |-> 0, timer |-> FALSE,
          held |-> FALSE,                             \* global mutex kept by the loop
          q |-> <<>>,
          adv |-> FALSE, links |-> {},                \* the SLE host
          gaps |-> {}, starts |-> 0, calls |-> 0, made |-> 0, faults |-> 0]

Gap(s, g) == [s EXCEPT !.gaps = @ \cup {g}]

Fault(s) == [s EXCEPT !.faults = @ + 1]

-----------------------------------------------------------------------------
(* The queue of the loop. *)

(* SleConnectionEventHandler and SleSsapEventHandler copy the event and     *)
(* post it with timeout 0; what finds the queue full is freed.              *)
SleConnectionEventHandler(s, e) ==
  IF Len(s.q) < QCap THEN [s EXCEPT !.q = Append(@, e)] ELSE Gap(s, "lost")

SleSsapEventHandler(s, e) ==
  IF Len(s.q) < QCap THEN [s EXCEPT !.q = Append(@, e)] ELSE s

-----------------------------------------------------------------------------
(* Announcing. *)

(* Faulty: the timer of an earlier announcement is left to run. *)
StartTimerAlwaysKeeps(s, ms) ==
  [s EXCEPT !.age = 0, !.dur = ms, !.timer = IF ms = Always THEN @ ELSE ms < s.dur]

StartSleAdvTimer(s, ms) ==
  [s EXCEPT !.age = 0, !.dur = ms, !.timer = ms # Always]

(* The timer is stopped before the host is asked; if the host refuses, an   *)
(* announcement under way goes on without it.                               *)
SleAdapterAdvCtrlStart(s, ms) ==
  LET t == [s EXCEPT !.timer = FALSE]
  IN {StartSleAdvTimer([t EXCEPT !.adv = TRUE], ms)}
     \cup (IF s.faults < MaxFaults THEN {Gap(Fault(t), "advfail")} ELSE {})

SleAdvCtrlStart(s, ms) ==
  IF s.ann THEN SleAdapterAdvCtrlStart(s, ms) ELSE {s}

SleAdvCtrlStop(s) ==
  LET t == [s EXCEPT !.timer = FALSE]
  IN {[t EXCEPT !.adv = FALSE]}
     \cup (IF s.faults < MaxFaults THEN {Gap(Fault(t), "advfail")} ELSE {})

SleAdvCtrlResume(s) ==
  IF s.dur = Always THEN SleAdvCtrlStart(s, Always)
  ELSE IF s.dur = 0 THEN {s}
  ELSE IF s.age >= s.dur THEN {[s EXCEPT !.dur = 0]}
  ELSE SleAdvCtrlStart(s, s.dur - s.age)

(* On registration and online events: stops the announcement, not the       *)
(* timer, and resumes what is left of it.                                   *)
SleAdvCtrlUpdate(s) ==
  SleAdvCtrlResume([s EXCEPT !.adv = FALSE])
  \cup (IF s.faults < MaxFaults THEN {Fault(s)} ELSE {})

(* The three error returns keep the global mutex locked.                    *)
SleRegAdvAdvInfoCallback(s) ==
  {[s EXCEPT !.ann = TRUE]}
  \cup (IF s.faults < MaxFaults THEN {Fault([s EXCEPT !.ann = TRUE, !.held = TRUE])} ELSE {})

-----------------------------------------------------------------------------
(* The SSAP table. *)

(* Nothing is looked up: a service listed twice is there twice.             *)
SleAddSsapSvc(s, x) == [s EXCEPT !.list = Append(@, x)]

(* The length of the list is read and the table allocated without the lock; *)
(* the list is copied under it, as long as it is by then.                   *)
SleSsapProfileSvcCount(s, ms) == [s EXCEPT !.init = <<Len(s.list), ms>>]

SleSsapProfileSvcInit(s) ==
  LET t == [s EXCEPT !.init = Idle, !.svc = s.list]
  IN IF Len(s.list) > s.init[1] THEN Gap(t, "overrun") ELSE t

(* What a service puts into the tables of the adapter: an identifier for    *)
(* the service and each characteristic, a function entry for each           *)
(* characteristic and for the descriptor of one that indicates.             *)
DataSvc == [attrs |-> 3, funcs |-> 3]

Attributes(X) == FoldSeq(LAMBDA x, n : x.attrs + n, 0, X)
Functions(X) == FoldSeq(LAMBDA x, n : x.funcs + n, 0, X)

(* Identifiers and functions are numbered with counters that are never      *)
(* reset, nor compared with the tables they index.                          *)
IotcSleStartServiceEx(s) ==
  LET t == [s EXCEPT !.uuid = @ + Attributes(s.svc), !.func = @ + Functions(s.svc)]
  IN IF t.uuid > UuidTable \/ t.func > FuncTable THEN Gap(t, "overrun") ELSE t

(* Handles are places in the list of attributes plus the service's handle.  *)
IotcSleSsapsStartServiceExt(s) == IotcSleStartServiceEx(s)

(* Faulty: the table of services survives. *)
DestroyKeepsTable(s) == [s EXCEPT !.peers = FALSE, !.list = <<>>]

(* The table, the list head of the peers and the profile's list are freed,  *)
(* the application's services with it; connNum stays.                       *)
SleSsapMgtDestroy(s) == [s EXCEPT !.svc = <<>>, !.peers = FALSE, !.list = <<>>]

SleSsapServiceEventInit(s) == [s EXCEPT !.cbs = TRUE, !.subs = TRUE]

(* The table is built, the callbacks are registered, the peers' list head   *)
(* made and the services added.                                             *)
SleSsapMgtInit(s) ==
  IotcSleSsapsStartServiceExt(
    [SleSsapServiceEventInit(SleSsapProfileSvcInit(s)) EXCEPT !.peers = TRUE])

-----------------------------------------------------------------------------
(* Start and stop of the service. *)

(* Neither the announcement nor its timer, the callbacks, the links or      *)
(* their count are touched.                                                 *)
SleServiceStopInner(s) == [SleSsapMgtDestroy(s) EXCEPT !.on = FALSE]

StartFailed(s) == Gap(SleServiceStopInner(s), "startfail")

(* Announcing starts and the current connection is followed from here on.   *)
SleSsapServiceSvcInit(s, ms) ==
  UNION {IF t.held # s.held THEN {StartFailed(t)}
         ELSE {IF u.adv /\ u.dur = ms /\ u.faults = t.faults
               THEN [u EXCEPT !.on = TRUE, !.follow = TRUE] ELSE StartFailed(u) :
                 u \in SleAdvCtrlStart(t, ms)} :
           t \in SleRegAdvAdvInfoCallback(s)}

(* The standard adapter waits for IOTC_SLE_ENABLE, which nothing sets, and  *)
(* gives up after three polls; its callbacks stay registered.               *)
StandardStart(s) ==
  StartFailed([s EXCEPT !.cbs = TRUE])

(* The data service is added to the profile's list and the table begun.     *)
SleServiceStart(s, ms) ==
  IF s.on THEN {s}
  ELSE LET t == [s EXCEPT !.starts = @ + 1]
       IN IF s.build = "standard" THEN {StandardStart(t)}
          ELSE {SleSsapProfileSvcCount(SleAddSsapSvc(t, DataSvc), ms)}

SleServiceInit ==
  /\ ss.init # Idle
  /\ \E s \in SleSsapServiceSvcInit(SleSsapMgtInit(ss), ss.init[2]) : ss' = s

SleServiceStop(s) == IF s.on THEN {SleServiceStopInner(s)} ELSE {s}

-----------------------------------------------------------------------------
(* Handlers of the events, on the loop. *)

(* Faulty: the count is not bounded by the number of connections. *)
DisconnectUncounted(s, e) ==
  IF e.state = "up" THEN [s EXCEPT !.connNum = IF @ >= MaxConn THEN @ ELSE @ + 1] ELSE s

CountConnection(s, e) ==
  CASE e.state = "up"   -> IF s.connNum >= MaxConn THEN Gap(s, "refused")
                           ELSE [s EXCEPT !.connNum = @ + 1]
    [] e.state = "down" -> [s EXCEPT !.connNum = IF @ > 0 THEN @ - 1 ELSE 0]

(* The event is then published: the server notes the number of whatever     *)
(* connection it is about, and a disconnection resumes the announcement.    *)
SleEventConnectStateChangeHandler(s, e) ==
  LET t == CountConnection(s, e)
      u == IF s.follow THEN [t EXCEPT !.cur = e.id] ELSE t
  IN IF s.subs /\ e.state = "down" THEN SleAdvCtrlResume(u) ELSE {u}

(* A write is for a characteristic of the table, found by its handle; the   *)
(* data service hands it to the link layer.                                 *)
SleSsapReqWrite(s) ==
  IF s.connNum = 0 \/ s.svc = <<>> THEN s ELSE IF s.on THEN s ELSE Gap(s, "fedoff")

SleSsapReqRead(s) == s

Called(s, e) ==
  CASE e.op = "start"  -> SleServiceStart(s, e.ms)
    [] e.op = "stop"   -> SleServiceStop(s)
    [] e.op = "adv"    -> SleAdvCtrlStart(s, e.ms)
    [] e.op = "advoff" -> SleAdvCtrlStop(s)
    [] e.op = "update" -> SleAdvCtrlUpdate(s)

Handled(s, e) ==
  CASE e.ev = "state" -> SleEventConnectStateChangeHandler(s, e)
    [] e.ev = "write" -> {SleSsapReqWrite(s)}
    [] e.ev = "read"  -> {SleSsapReqRead(s)}
    [] e.ev = "call"  -> Called(s, e)

SleSchedEventSourceMsgHandler ==
  /\ ss.main /\ ss.init = Idle /\ ss.q # <<>>
  /\ \E s \in Handled([ss EXCEPT !.q = Tail(@)], Head(ss.q)) : ss' = s

AdvCtrlTimerCb ==
  /\ ss.init = Idle /\ ss.timer /\ ss.age >= ss.dur
  /\ \E s \in SleAdvCtrlStop(ss) : ss' = s

-----------------------------------------------------------------------------
(* Callbacks, on the thread of the SLE host. *)

(* A connection may end the announcement in the host.                       *)
ConnectCb(c, ends) ==
  /\ ss.build = "lite" /\ ss.cbs /\ ss.adv /\ c \notin ss.links /\ ss.made < MaxLinks
  /\ ss' = SleConnectionEventHandler(
             [ss EXCEPT !.links = @ \cup {c}, !.made = @ + 1, !.adv = ~ends,
                        !.gaps = IF ss.links = {} THEN @ ELSE @ \cup {"multi"}],
             [ev |-> "state", state |-> "up", id |-> c])

DisconnectCb(c) ==
  /\ c \in ss.links
  /\ ss' = SleConnectionEventHandler([ss EXCEPT !.links = @ \ {c}],
                                     [ev |-> "state", state |-> "down", id |-> c])

RequestCb(ev) ==
  /\ ss.links # {} /\ ss.q = <<>>
  /\ ss' = SleSsapEventHandler(ss, [ev |-> ev])

-----------------------------------------------------------------------------

Calls == {[ev |-> "call", op |-> o, ms |-> 0] : o \in {"stop", "advoff", "update"}}
         \cup [ev : {"call"}, op : {"start", "adv"}, ms : Durs \cup {Always}]

Call(c) ==
  /\ ss.main /\ ~\E i \in 1..Len(ss.q) : ss.q[i].ev = "call"
  /\ ss.calls < MaxCalls /\ Len(ss.q) < QCap
  /\ ss' = [ss EXCEPT !.q = Append(@, c), !.calls = @ + 1]

(* The application lists a service of its own.  That the main task is not   *)
(* running is looked at once, at first; the main task may start before the  *)
(* service is in the list, which needs the global mutex.                    *)
IotcOhSetOption(x) ==
  /\ ~ss.main /\ ss.opt = Idle /\ ss.calls < MaxCalls
  /\ ss' = Gap([ss EXCEPT !.opt = x, !.calls = @ + 1], "own")

OptionSetSleSsapProfileSvcList ==
  /\ ss.opt # Idle /\ ~ss.held
  /\ ss' = [SleAddSsapSvc(ss, ss.opt) EXCEPT !.opt = Idle]

MainStart == ~ss.main /\ ss' = [ss EXCEPT !.main = TRUE]

(* Time passes whether or not there is a timer.                             *)
Tick == ss.dur # Always /\ ss.age < ss.dur /\ ss' = [ss EXCEPT !.age = @ + 1]

(* Nothing is said of what follows an overrun.                              *)
SsNext == "overrun" \notin ss.gaps /\ (
  \/ SleSchedEventSourceMsgHandler
  \/ SleServiceInit
  \/ AdvCtrlTimerCb
  \/ \E c \in ConnIds, ends \in BOOLEAN : ConnectCb(c, ends)
  \/ \E c \in ConnIds : DisconnectCb(c)
  \/ \E ev \in {"read", "write"} : RequestCb(ev)
  \/ \E c \in Calls : Call(c)
  \/ \E x \in AppSvcs : IotcOhSetOption(x)
  \/ OptionSetSleSsapProfileSvcList
  \/ MainStart
  \/ Tick)

SsSpec == SsInit /\ [][SsNext]_ss

-----------------------------------------------------------------------------
(* Properties. *)

Drained == ~\E i \in 1..Len(ss.q) : ss.q[i].ev = "state"

(* The bookkeeping of the SLE service follows the host, whatever the order  *)
(* of callbacks, calls and the timer, as long as no table was overrun.      *)
(* Unless an event found the queue full or a connection was refused,        *)
(* connNum is the number of connections once their events are served,       *)
(* through stops and starts of the service.  As long as no start failed and *)
(* there was one connection at a time, what is sent goes to the connection  *)
(* there is.  A limited announcement has its timer unless the host refused  *)
(* to start or stop one.  A stopped service feeds no data to the link       *)
(* layer, and a running one has the data service in its table.              *)
Bookkeeping ==
  /\ Drained /\ ss.gaps \cap {"lost", "refused"} = {} => ss.connNum = Cardinality(ss.links)
  /\ Drained /\ ss.gaps \cap {"lost", "multi", "startfail"} = {}
       => \A c \in ss.links : ss.cur = c
  /\ ss.adv /\ ss.dur # Always /\ "advfail" \notin ss.gaps => ss.timer
  /\ "fedoff" \notin ss.gaps
  /\ ss.on => ss.peers /\ \E i \in DOMAIN ss.svc : ss.svc[i] = DataSvc

(* A table is overrun only with services of the application or by a third   *)
(* start: the code compares nothing with the size of its tables, and the    *)
(* data service alone fits into them twice.  Without an overrun the         *)
(* bookkeeping holds, and the standard build never has the service running. *)
SleSound ==
  /\ "overrun" \in ss.gaps => "own" \in ss.gaps \/ ss.starts > 2
  /\ "overrun" \notin ss.gaps => Bookkeeping
  /\ ss.build = "standard" => ~ss.on /\ ss.links = {}

=============================================================================
