---------------------------- MODULE DeviceControl ----------------------------
(***************************************************************************)
(* Control and report of the device's services: the product's callbacks    *)
(* (src/core/infrastructure/product/product_adapter.c), the device service *)
(* (src/core/device/), its proxies (iotc_svc_dev.c), the API of reports    *)
(* (src/sdk/oh_connect/api/iotc_oh_device.c), and the cloud's side of it:  *)
(* control requests, reports and delayed answers                           *)
(* (src/core/wifi/application/cloud/biz/m2m_cloud_{ctl,report,response}.c).*)
(*                                                                         *)
(* One service with one value stands for the profile: the product holds    *)
(* it, a control request writes it, the application changes it by itself   *)
(* on its own thread, and every channel has the value it was told last.    *)
(* Requests and the queue of asynchronous calls belong to the loop's       *)
(* thread.  `gap` marks a channel that missed a change for a reason the    *)
(* code lets happen; a full report closes the gap.                         *)
(***************************************************************************)
EXTENDS Integers, Sequences, FiniteSets

CONSTANTS CtlBuilds,      \* IOTC_CONF_DEV_TYPE: subset of {"plain", "bridge"}
          Values,      \* values of the service, positive
          QCap,        \* room of the loop's queue for asynchronous calls
          MaxReqs,     \* control requests
          MaxChanges,  \* changes by the application
          MaxLinks,    \* links of the cloud
          MaxCtlFaults    \* refusals, failures and malformed data of the product

VARIABLE dc

Chans == {"cloud", "lan"}
Hooks == {"put", "get", "free", "all"}
Kinds == {"good", "empty", "many", "nosid", "nodata"}
NoStep == [op |-> "none", ok |-> FALSE, v |-> 0, answered |-> FALSE]

DcInit ==
  \E b \in CtlBuilds, v \in Values :
    dc = [build |-> b, opts |-> FALSE, hooks |-> {}, fwk |-> FALSE, on |-> FALSE, uplinks |-> 0,
          val |-> v, told |-> [c \in Chans |-> 0], chans |-> {},
          gap |-> [c \in Chans |-> FALSE], q |-> <<>>, app |-> 0, over |-> FALSE,
          link |-> FALSE, ep |-> 0, nodes |-> <<>>, live |-> 0, late |-> {}, broken |-> FALSE,
          reqs |-> 0, changes |-> 0, faults |-> 0, last |-> NoStep]

Untold(s) == [s EXCEPT !.last = NoStep]

-----------------------------------------------------------------------------
(* The product's callbacks.  A callback is looked up under the lock and    *)
(* called outside it; a missing one is an error of its own.                *)

ProductRegisterHooks(s, hooks, coverAll) ==
  [s EXCEPT !.hooks = IF coverAll THEN hooks ELSE @ \cup hooks]

(* An option sets one callback and keeps the others.                       *)
OptionSetCallback ==
  /\ dc.opts
  /\ \E h \in Hooks \ dc.hooks : dc' = Untold(ProductRegisterHooks(dc, {h}, FALSE))

(* What a call can come to: 1 for success; a fault is counted.             *)
ProductCall(s, hook) ==
  IF hook \notin s.hooks THEN {"missing"}
  ELSE {"ok"} \cup (IF s.faults < MaxCtlFaults THEN {"failed"} ELSE {})

Faulted(s, r) == IF r \in {"ok", "missing"} THEN s ELSE [s EXCEPT !.faults = @ + 1]

(* The product allocates what it hands out; a reader may get nothing, or   *)
(* text that is no JSON, without an error.                                 *)
ProductProfGetCharState(s) ==
  IF "get" \notin s.hooks THEN {"missing"}
  ELSE {"ok"} \cup (IF s.faults < MaxCtlFaults
                    THEN {"failed", "failed_late", "nothing", "nojson"} ELSE {})

Allocated(r) == IF r \in {"ok", "failed_late", "nojson"} THEN 1 ELSE 0

(* A product without the callback keeps its buffers itself.                *)
ProductCharStateFree(s, r) ==
  [s EXCEPT !.live = @ - (IF "free" \in s.hooks THEN Allocated(r) ELSE 0)]

-----------------------------------------------------------------------------
(* The model of states: a request names between one and the greatest       *)
(* number of services, each with an identifier and, to write, with data.   *)

MdlJsonArrayToCharStates(kind, needData) ==
  kind = "good" \/ (kind = "nodata" /\ ~needData)

MdlUpdateCharStates(r) == r \in {"ok", "nojson"}

MdlCharStatesToJson(r) == r = "ok"

Handed(s, r) ==
  [Faulted(s, r) EXCEPT !.live = @ + (IF "free" \in s.hooks THEN Allocated(r) ELSE 0)]

(* Faulty: an error returns before the buffers are given back. *)
FreeOnSuccess(s, r) == IF r = "ok" THEN ProductCharStateFree(Handed(s, r), r) ELSE Handed(s, r)

(* Reads the values back; the buffers are returned whatever happened.      *)
UpdateCharStateByGetChar(s, r) == ProductCharStateFree(Handed(s, r), r)

Read(s) ==
  {[s |-> UpdateCharStateByGetChar(s, r), ok |-> MdlUpdateCharStates(r) /\ MdlCharStatesToJson(r)] :
     r \in ProductProfGetCharState(s)}

Missed(s) == [s EXCEPT !.gap = [c \in Chans |-> @[c] \/ c \in s.chans]]

SchedAsyncExecutor(s, item) ==
  IF Len(s.q) < QCap THEN [s |-> [s EXCEPT !.q = Append(@, item)], ok |-> TRUE]
  ELSE [s |-> s, ok |-> FALSE]

(* The proxies reach the service only while it runs.                       *)
DevSvcProxy(s) == s.on

DeviceControlGetCharStates(s, kind) ==
  IF ~DevSvcProxy(s) \/ ~MdlJsonArrayToCharStates(kind, FALSE) THEN {[s |-> s, ok |-> FALSE]}
  ELSE Read(s)

(* The product takes the values, they are read back, and the change goes   *)
(* to all channels from the queue.  A failure after the product has taken  *)
(* them is an error to the caller and no report.                           *)
DeviceControlPutCharStates(s, kind, v, msg) ==
  IF ~DevSvcProxy(s) \/ ~MdlJsonArrayToCharStates(kind, TRUE) THEN {[s |-> s, ok |-> FALSE]}
  ELSE UNION {
    IF r # "ok" THEN {[s |-> Faulted(s, r), ok |-> FALSE]}
    ELSE LET put == [s EXCEPT !.val = v, !.over = s.app # 0]
         IN {LET post == SchedAsyncExecutor(g.s, [op |-> "change", v |-> g.s.val, msg |-> msg])
             IN IF g.ok /\ post.ok THEN post ELSE [s |-> Missed(g.s), ok |-> FALSE]
             : g \in Read(put)}
    : r \in ProductCall(s, "put")}

(* Synchronous use is not made of it; an asynchronous call runs later.     *)
DeviceControlReportAll(s) ==
  IF ~DevSvcProxy(s) THEN s ELSE SchedAsyncExecutor(s, [op |-> "all", v |-> 0, msg |-> 0]).s

-----------------------------------------------------------------------------
(* The channels.                                                           *)

(* The present value closes a gap unless an older one is still queued.     *)
Told(s, c, v) ==
  LET stale == \E i \in 1 .. Len(s.q) : s.q[i].op = "change" /\ s.q[i].v # s.val
  IN [s EXCEPT !.told[c] = v, !.gap[c] = @ /\ (v # s.val \/ stale)]

(* A report of the cloud is a confirmable request on the present link; it  *)
(* is lost without one.                                                    *)
M2mCloudReportMessage(s, v) ==
  IF s.link THEN {Told(s, "cloud", v)} ELSE {[s EXCEPT !.gap["cloud"] = TRUE]}

M2mCloudFindNodeByMsgId(s, msg) ==
  {i \in 1 .. Len(s.nodes) : s.nodes[i].msg = msg}

M2mCloudRemoveNode(s, i) ==
  [s EXCEPT !.nodes = SubSeq(@, 1, i - 1) \o SubSeq(@, i + 1, Len(@))]

(* The bridge answers with the options of the request it copied, which     *)
(* point into a receive buffer that may hold another message by now, and   *)
(* over the request's endpoint, which may be gone; the answer is released  *)
(* twice, so the program may end here (`broken`).                          *)
M2mCloudResponseMessage(s, v, msg) ==
  LET found == M2mCloudFindNodeByMsgId(s, msg)
      i == CHOOSE j \in found : \A k \in found : j <= k
      lost == [s EXCEPT !.gap["cloud"] = TRUE]
      sent == IF s.nodes[i].ep = s.ep /\ s.link THEN {Told(s, "cloud", v), lost} ELSE {lost}
  IN IF found = {} THEN {lost}
     ELSE {M2mCloudRemoveNode([t EXCEPT !.late = @ \cup {msg}, !.broken = b], i) :
             t \in sent, b \in BOOLEAN}

M2mCloudDeviceReportMessageHandler(s, v, msg) ==
  IF s.build = "bridge" /\ msg # 0 THEN M2mCloudResponseMessage(s, v, msg)
  ELSE M2mCloudReportMessage(s, v)

(* The message of the service to every channel that subscribed.            *)
ReportChangeServiceCallback(s, v, msg) ==
  LET lan == IF "lan" \in s.chans THEN Told(s, "lan", v) ELSE s
  IN IF "cloud" \in s.chans THEN M2mCloudDeviceReportMessageHandler(lan, v, msg) ELSE {lan}

DeviceReportCallback(s, v) == ReportChangeServiceCallback(s, v, 0)

(* One call for each uplink that was registered; none is an error.         *)
ProfileReportCharState(s, v) ==
  IF s.uplinks = 0 THEN {s} ELSE DeviceReportCallback(s, v)

-----------------------------------------------------------------------------
(* The start and the end of the service.                                   *)

(* The application sets its options once the SDK knows them.               *)
IotcOhDevInit == ~dc.opts /\ dc' = Untold([dc EXCEPT !.opts = TRUE])

ProfileReportRegUplink(s) == [s EXCEPT !.uplinks = @ + 1]
ProfileReportUnregUplink(s) == [s EXCEPT !.uplinks = IF @ = 0 THEN 0 ELSE @ - 1]

(* Faulty: the list of uplinks survives the framework. *)
DeinitKeepsUplinks(s) == s

ProfileReportDeinit(s) == [s EXCEPT !.uplinks = 0]

(* Configuration that cannot be read stops the start after the uplink is   *)
(* registered.                                                             *)
DeviceServiceStart ==
  /\ dc.opts /\ ~dc.fwk
  /\ \E good \in IF dc.faults < MaxCtlFaults THEN BOOLEAN ELSE {TRUE} :
       dc' = Untold([ProfileReportRegUplink(dc) EXCEPT !.fwk = TRUE, !.on = good,
                      !.faults = IF good THEN @ ELSE @ + 1])

DeviceServiceStop(s) ==
  IF s.on THEN [ProfileReportUnregUplink(s) EXCEPT !.on = FALSE] ELSE s

(* The framework goes down: the queue with it, the channels stop.          *)
DeviceServiceDeinit ==
  /\ dc.fwk /\ dc.app = 0
  /\ dc' = Untold([ProfileReportDeinit(DeviceServiceStop(dc)) EXCEPT
                    !.fwk = FALSE, !.q = <<>>, !.chans = {}, !.link = FALSE,
                    !.gap = [c \in Chans |-> FALSE], !.told = [c \in Chans |-> 0]])

(* A channel that starts knows nothing yet.                                *)
Subscribe ==
  /\ dc.on
  /\ \E c \in Chans \ dc.chans :
       dc' = Untold([dc EXCEPT !.chans = @ \cup {c}, !.gap[c] = TRUE])

-----------------------------------------------------------------------------
(* The cloud.                                                              *)

(* A new link has a new endpoint; once the device information is accepted, *)
(* everything is reported.                                                 *)
DevInfoSynced ==
  /\ "cloud" \in dc.chans /\ ~dc.link /\ dc.ep < MaxLinks
  /\ dc' = Untold(DeviceControlReportAll([dc EXCEPT !.link = TRUE, !.ep = @ + 1,
                                                   !.gap["cloud"] = TRUE]))

LinkLost == dc.link /\ dc' = Untold([dc EXCEPT !.link = FALSE])

ParseCloudCtlMsg(kind) == kind \in {"good", "nodata"}

M2mCloudCreateCoapNode(s, msg) ==
  [s EXCEPT !.nodes = Append(@, [msg |-> msg, ep |-> s.ep])]

(* A read that fails in the service leaves no payload, and without a       *)
(* payload there is no answer.                                             *)
BuildCloudCtlRespMsg(r, get) == [r.s EXCEPT !.last.answered = r.ok \/ ~get \/ ~DevSvcProxy(r.s)]

SendCloudCtlMsgResp(s, get, kind, v, msg) ==
  IF ~ParseCloudCtlMsg(kind) \/ (kind = "nodata" /\ ~get) THEN {s}
  ELSE LET known == M2mCloudCreateCoapNode(s, msg)
       IN {BuildCloudCtlRespMsg(
             [r EXCEPT !.s.last = [op |-> IF get THEN "get" ELSE "put", ok |-> r.ok, v |-> v,
                                   answered |-> FALSE]], get) :
             r \in IF get THEN DeviceControlGetCharStates(known, kind)
                   ELSE DeviceControlPutCharStates(known, kind, v, msg)}

NewReq(s) == [s EXCEPT !.reqs = @ + 1, !.last = NoStep]

M2mCloudCoapControlHandler ==
  /\ dc.link /\ dc.reqs < MaxReqs
  /\ \E get \in BOOLEAN, kind \in {"good", "nosid", "nodata"}, v \in Values :
       /\ get => v = dc.val
       /\ \E s \in SendCloudCtlMsgResp(NewReq(dc), get, kind, v, dc.reqs + 1) : dc' = s

(* A phone of the house: the same calls, answered by the local service.    *)
LanControl ==
  /\ "lan" \in dc.chans /\ dc.reqs < MaxReqs
  /\ \E kind \in Kinds, v \in Values :
       \E r \in DeviceControlPutCharStates(NewReq(dc), kind, v, 0) :
         dc' = [r.s EXCEPT !.last = [op |-> "put", ok |-> r.ok, v |-> v, answered |-> TRUE]]

LanAll ==
  /\ "lan" \in dc.chans /\ dc.reqs < MaxReqs
  /\ dc' = DeviceControlReportAll(NewReq(dc))

-----------------------------------------------------------------------------
(* The application's thread: it changes the value, then reports it.  The   *)
(* call waits for the loop; `over` tells that a request wrote in between.  *)

AppChange ==
  /\ dc.app = 0 /\ dc.changes < MaxChanges
  /\ \E v \in Values \ {dc.val} :
       dc' = Untold([dc EXCEPT !.val = v, !.app = v, !.over = FALSE, !.changes = @ + 1])

IotcOhDevReportCharState ==
  /\ dc.app # 0 /\ ~\E i \in 1 .. Len(dc.q) : dc.q[i].op = "api"
  /\ LET post == SchedAsyncExecutor(dc, [op |-> "api", v |-> dc.app, msg |-> 0])
     IN dc' = Untold(IF post.ok THEN post.s
                    ELSE [Missed(dc) EXCEPT !.app = 0, !.over = FALSE])

ReportExecutorWaitCallback(s, v) ==
  {[(IF s.over THEN Missed(t) ELSE t) EXCEPT !.app = 0, !.over = FALSE] :
     t \in IF DevSvcProxy(s) THEN ProfileReportCharState(s, v) ELSE {Missed(s)}}

(* The product reports its present values by the same API, on the loop.    *)
ReportAllServiceExecutorCallback(s) ==
  UNION {IF r = "ok" /\ DevSvcProxy(s) THEN ProfileReportCharState(s, s.val) ELSE {Faulted(s, r)} :
           r \in ProductCall(s, "all")}

Loop ==
  /\ dc.q # <<>>
  /\ LET item == Head(dc.q)
         s == Untold([dc EXCEPT !.q = Tail(@)])
     IN \/ item.op = "change" /\ dc' \in ReportChangeServiceCallback(s, item.v, item.msg)
        \/ item.op = "api" /\ dc' \in ReportExecutorWaitCallback(s, item.v)
        \/ item.op = "all" /\ dc' \in ReportAllServiceExecutorCallback(s)

DcStep ==
  \/ IotcOhDevInit \/ OptionSetCallback \/ DeviceServiceStart \/ DeviceServiceDeinit
  \/ Subscribe \/ DevInfoSynced \/ LinkLost \/ M2mCloudCoapControlHandler \/ LanControl
  \/ LanAll \/ AppChange \/ IotcOhDevReportCharState \/ Loop

DcNext == ~dc.broken /\ DcStep

DcSpec == DcInit /\ [][DcNext]_dc

-----------------------------------------------------------------------------
(* When nothing is under way, every channel was told what the product      *)
(* holds, unless it has a gap (a report lost with the link or at a full    *)
(* queue, a read that failed after the product took a value, a report of   *)
(* the application that a request overtook).  A success that a requester   *)
(* is told of means that the product took the value and that its report is *)
(* under way.  Every buffer of the product is returned exactly once if it  *)
(* registered the callback for it.  There is one uplink for each running   *)
(* service, and at most one at any time.  Only the bridge answers late, at *)
(* most once for each node it keeps.                                       *)
DeviceSound ==
  /\ dc.q = <<>> /\ dc.app = 0 =>
       \A c \in dc.chans : dc.told[c] = dc.val \/ dc.gap[c]
  /\ dc.last.op = "put" /\ dc.last.ok =>
       /\ dc.val = dc.last.v
       /\ dc.q # <<>> /\ dc.q[Len(dc.q)].v = dc.val
  /\ dc.last.op = "put" => dc.last.answered
  /\ dc.live = 0
  /\ dc.uplinks <= 1 /\ (dc.on => dc.uplinks = 1)
  /\ dc.late # {} => dc.build = "bridge"
  /\ \A i, j \in 1 .. Len(dc.nodes) : dc.nodes[i].msg = dc.nodes[j].msg => i = j
  /\ \A i \in 1 .. Len(dc.nodes) : dc.nodes[i].msg \notin dc.late
=============================================================================
