----------------------------- MODULE WifiConnect -----------------------------
(***************************************************************************)
(* The Wi-Fi connection service (connect/): taking over a network          *)
(* configuration, connecting, verifying it within 60 s and reconnecting;   *)
(* the flag it keeps in the store (svc_conn_conf.c); the start of the      *)
(* Wi-Fi services by the SDK (iotc_oh_wifi.c); and the adapter to the      *)
(* station of the host (adapter/wifi/oh_standard).                         *)
(*                                                                         *)
(* The service runs on the scheduler's loop.  The host keeps the list of   *)
(* networks and brings the link up and down on its own.  Failures that the *)
(* code only logs are recorded in gaps.                                    *)
(***************************************************************************)
EXTENDS Integers, Sequences, FiniteSets

CONSTANTS
  Nets,         \* networks the user may configure
  Reachable,    \* those the device can really join
  MaxCfgs,      \* bound: configurations received
  MaxBoots,     \* bound: power cuts
  MaxDrops,     \* bound: links that break
  MaxFaults     \* bound: requests to host, store, timer list or event bus that fail

VARIABLE wc

Nil == 0
Timers == {"check", "verify", "reconnect", "delay"}

Gap(s, g) == [s EXCEPT !.gaps = @ \cup {g}]

Failed(s) == IF s.faults < MaxFaults THEN {[s EXCEPT !.faults = @ + 1]} ELSE {}
SchedTimerAdd(s, t) == [ok |-> {[s EXCEPT !.timers = @ \cup {t}]}, err |-> Failed(s)]

-----------------------------------------------------------------------------
(* The adapter.  cfgs is the host's list of networks, target the one it was *)
(* last told to join, link the one it is on.                                *)

(* GetWifiConfigFromOhos: the first entry counts.                           *)
GetWifiConfigFromOhos(s) == IF s.cfgs = <<>> THEN Nil ELSE s.cfgs[1]

(* ClearWifiConfig removes that entry; a failure is only logged.            *)
ClearWifiConfig(s) ==
  IF s.cfgs = <<>> THEN {s}
  ELSE {[s EXCEPT !.cfgs = Tail(@)]} \cup {Gap(t, "stale") : t \in Failed(s)}

IotcSetWifiInfo(s, net) ==
  LET c == ClearWifiConfig(s)
  IN  [ok  |-> {[t EXCEPT !.cfgs = Append(@, net)] : t \in c},
       err |-> {Gap(u, "lost") : u \in UNION {Failed(t) : t \in c}}]

IotcDeleteWifiInfo(s) == ClearWifiConfig(s)

IotcDisconnectWifi(s) ==
  {[s EXCEPT !.link = Nil, !.target = Nil]} \cup {Gap(t, "kept") : t \in Failed(s)}

IotcGetWifiMode(s) == IF s.hotspot THEN "softap" ELSE IF s.active THEN "station" ELSE "none"

(* IsNetworkConnected with IotcGetNetworkState and IotcGetLocalIp.          *)
IsNetworkConnected(s) == s.link # Nil /\ IotcGetWifiMode(s) = "station"

IsWifiNetInfoExist(s) == GetWifiConfigFromOhos(s) # Nil

(* SetSecurityTypeByScanInfo replaces the entry when the scan shows another *)
(* security type: removed, then added again, and a failed addition loses it.*)
SetSecurityTypeByScanInfo(s) ==
  {s, [s EXCEPT !.cfgs = Append(Tail(@), Head(@))]}
  \cup {Gap([t EXCEPT !.cfgs = Tail(@)], "lost") : t \in Failed(s)}

(* AdvanceScanWifiByOhos and GetScanWifiResultFromOhos, up to four times: a  *)
(* network that is not found is tried all the same.                         *)
ScanWifi(s) == [ok |-> {s} \cup SetSecurityTypeByScanInfo(s), err |-> Failed(s)]

(* IotcConnectWifi: station mode on, the scans, then the host is told to     *)
(* join the entry that was read at the beginning.                           *)
IotcConnectWifi(s) ==
  LET on  == [s EXCEPT !.active = TRUE]
      net == GetWifiConfigFromOhos(s)
  IN  IF net = Nil THEN [ok |-> {}, err |-> {on}]
      ELSE [ok  |-> {[t EXCEPT !.target = net, !.link = IF @ = net THEN @ ELSE Nil] :
                       t \in ScanWifi(on).ok},
            err |-> Failed(s) \cup ScanWifi(on).err]

-----------------------------------------------------------------------------
(* The flag: "no", "need" (NEED_VERIFY) or "checked".                       *)

(* ConfigSetNetInfoFlag changes the copy in memory even if saving fails.    *)
ConfigSetNetInfoFlag(s, f) ==
  {[s EXCEPT !.flag = f, !.kv = f]}
  \cup {Gap([t EXCEPT !.flag = f], "unsaved") : t \in Failed(s)}

ConnectConfigInfoInit(s) == [s EXCEPT !.flag = s.kv]

(* WifiVerifyFailedProcess, and RevokeEventWifiInfoCallback on a restore:   *)
(* off the network, the network forgotten, and the framework restarted.     *)
WifiVerifyFailedProcess(s) ==
  {[w EXCEPT !.reset = TRUE] :
     w \in UNION {ConfigSetNetInfoFlag(v, "no") :
       v \in UNION {IotcDeleteWifiInfo(u) : u \in IotcDisconnectWifi(s)}}}

ConnectNoTimer(s) ==
  LET r == IotcConnectWifi(s)
  IN  IF s.flag # "need" THEN r
      ELSE [r EXCEPT !.err = UNION {WifiVerifyFailedProcess(t) : t \in r.err}]

(* ConnSvcActionConnectWifi: a network that needs verifying gets the 60 s   *)
(* timer, or is given up when the connection fails at once; without the     *)
(* timer nobody watches over it.                                            *)
ConnSvcActionConnectWifi(s) ==
  LET r == IotcConnectWifi([s EXCEPT !.timers = @ \ {"verify"}])
  IN  IF s.flag # "need" THEN r
      ELSE [ok  |-> UNION {SchedTimerAdd(t, "verify").ok : t \in r.ok},
            err |-> UNION {WifiVerifyFailedProcess(t) : t \in r.err}
                    \cup {Gap(u, "unwatched") : u \in UNION {SchedTimerAdd(t, "verify").err : t \in r.ok}}]

Either(r) == r.ok \cup r.err

-----------------------------------------------------------------------------
(* The timers. *)

(* Still not connected after 60 s: the configuration is given up.           *)
WifiVerifyConnectTimeoutTimerCallback(s) ==
  LET t == [s EXCEPT !.timers = @ \ {"verify"}]
  IN  IF IsNetworkConnected(s)
      THEN {IF s.conn THEN t ELSE [t EXCEPT !.late = TRUE]}
      ELSE WifiVerifyFailedProcess(t)

WifiReconnectTimerCallback(s) == Either(IotcConnectWifi(s))

DelayConnetWifiCb(s) == Either(ConnSvcActionConnectWifi([s EXCEPT !.timers = @ \ {"delay"}]))

CheckKeepsReconnect(s) ==
  IF s.conn = IsNetworkConnected(s) THEN {s}
  ELSE IF s.conn
  THEN {[s EXCEPT !.conn = FALSE,
                  !.timers = IF s.flag = "checked" THEN @ \cup {"reconnect"} ELSE @]}
  ELSE ConfigSetNetInfoFlag([s EXCEPT !.conn = TRUE, !.timers = @ \ {"verify"}], "checked")

(* Every second, on a change only.  Down: a checked network is tried again  *)
(* every 20 s.  Up: reconnecting and verifying end, and the configuration   *)
(* counts as checked, whichever network the link is on.                     *)
WifiStatusCheckTimerCallback(s) ==
  IF s.conn = IsNetworkConnected(s) THEN {s}
  ELSE IF s.conn
  THEN {[s EXCEPT !.conn = FALSE,
                  !.timers = IF s.flag = "checked" THEN @ \cup {"reconnect"} ELSE @]}
       \cup IF s.flag # "checked" THEN {}
            ELSE SchedTimerAdd([s EXCEPT !.conn = FALSE], "reconnect").err
  ELSE LET up == [s EXCEPT !.conn = TRUE, !.timers = @ \ {"reconnect"}]
           done == [up EXCEPT !.timers = @ \ {"verify"}, !.late = FALSE]
           ends == IF s.link = GetWifiConfigFromOhos(s) THEN done ELSE Gap(done, "early")
       IN  IF s.flag = "checked" THEN {up} ELSE ConfigSetNetInfoFlag(ends, "checked")

TimerCallback(s, t) ==
  CASE t = "check"     -> WifiStatusCheckTimerCallback(s)
    [] t = "verify"    -> WifiVerifyConnectTimeoutTimerCallback(s)
    [] t = "reconnect" -> WifiReconnectTimerCallback(s)
    [] t = "delay"     -> DelayConnetWifiCb(s)

-----------------------------------------------------------------------------
(* The service. *)

(* SvcConnSetNetInfo: save, mark, and connect once the hotspot is gone, or  *)
(* in 10 ms when there is none.  If the timer or the subscription fails,    *)
(* the network stays saved and marked.                                      *)
SvcConnSetNetInfo(s, net) ==
  LET saved == UNION {ConfigSetNetInfoFlag(t, "need") : t \in IotcSetWifiInfo(s, net).ok}
      mark(t) == IF t.conn THEN Gap(t, "again") ELSE t
      waits(t) == IF IotcGetWifiMode(t) # "softap" THEN SchedTimerAdd(t, "delay")
                  ELSE [ok |-> {[t EXCEPT !.subStop = TRUE]}, err |-> Failed(t)]
  IN  IotcSetWifiInfo(s, net).err
      \cup UNION {waits(mark(t)).ok \cup {Gap(u, "unwatched") : u \in waits(mark(t)).err} :
                    t \in saved}

(* StartWifiConnectService: a stored network is joined first, and if that   *)
(* fails the start ends there, without the check and the restore handler.   *)
StartWifiConnectService(s) ==
  LET i == ConnectConfigInfoInit(s)
      r == IF i.flag = "no" THEN [ok |-> {i}, err |-> {}] ELSE ConnSvcActionConnectWifi(i)
      check(t) == SchedTimerAdd([t EXCEPT !.subRevoke = TRUE], "check")
  IN  [ok |-> {[u EXCEPT !.svc = TRUE] : u \in UNION {check(t).ok : t \in r.ok}},
       err |-> {Gap(t, "nostart") :
                  t \in r.err \cup UNION {Failed(t) \cup check(t).err : t \in r.ok}}]

(* StartWifiSoftapSvc: only for a device that has no network, and that is   *)
(* neither bound nor set to another way of configuring.                     *)
StartWifiSoftapSvc(s) ==
  IF IsNetworkConnected(s) \/ IsWifiNetInfoExist(s) THEN [ok |-> {s}, err |-> {}]
  ELSE [ok  |-> {s, [s EXCEPT !.hotspot = TRUE, !.active = FALSE, !.link = Nil]},
        err |-> {Gap(t, "nosoftap") : t \in Failed(s)}]

(* EventBusStartWifiSvcCallback: connection, hotspot, cloud, in this order  *)
(* and only as long as each succeeds.                                       *)
EventBusStartWifiSvcCallback(s) ==
  LET r == StartWifiConnectService(s)
      a == {StartWifiSoftapSvc(t) : t \in r.ok}
  IN  {[u EXCEPT !.cloud = TRUE] : u \in UNION {x.ok : x \in a}}
      \cup UNION {x.err : x \in a} \cup r.err

(* StopWifiConnectService, IotcOhWifiMainDeinit and WifiServiceConnectInit: *)
(* a restart of the framework keeps only what the host and the store hold.  *)
Deinit(s) ==
  [s EXCEPT !.svc = FALSE, !.cloud = FALSE, !.subRevoke = FALSE, !.subStop = FALSE,
            !.stopEv = FALSE, !.timers = {}, !.conn = FALSE, !.hotspot = FALSE,
            !.flag = "no", !.reset = FALSE, !.late = FALSE,
            !.gaps = @ \cap {"stale", "lost", "unsaved", "early"}]

-----------------------------------------------------------------------------
Fresh ==
  [svc |-> FALSE, cloud |-> FALSE, flag |-> "no", kv |-> "no", conn |-> FALSE, timers |-> {},
   subStop |-> FALSE, subRevoke |-> FALSE, stopEv |-> FALSE, reset |-> FALSE, late |-> FALSE,
   hotspot |-> FALSE, active |-> FALSE, cfgs |-> <<>>, target |-> Nil, link |-> Nil,
   gaps |-> {}, got |-> 0, boots |-> 0, drops |-> 0, faults |-> 0]

WcInit == wc \in EventBusStartWifiSvcCallback(Fresh)

(* A configuration over the hotspot, or over BLE or SLE.                    *)
NetCfg ==
  /\ wc.svc /\ wc.got < MaxCfgs
  /\ \E net \in Nets : \E s \in SvcConnSetNetInfo([wc EXCEPT !.got = @ + 1], net) : wc' = s

(* The soft-AP service ends: on its own time-out or after the set-up.  Its  *)
(* event is posted to the loop.                                             *)
SoftapEnds ==
  /\ wc.hotspot
  /\ \/ wc' = [wc EXCEPT !.hotspot = FALSE, !.stopEv = TRUE]
     \/ \E s \in Failed(wc) : wc' = Gap([s EXCEPT !.hotspot = FALSE], "noevent")

SoftapStopEventCallback ==
  /\ wc.stopEv
  /\ LET t == [wc EXCEPT !.stopEv = FALSE]
     IN  IF wc.subStop THEN \E s \in Either(ConnSvcActionConnectWifi(t)) : wc' = s
         ELSE wc' = t

Timer == \E t \in wc.timers : \E s \in TimerCallback(wc, t) : wc' = s

(* MAIN_RESTORE: nothing to do for a device without a network.              *)
RevokeEventWifiInfoCallback ==
  /\ wc.subRevoke /\ wc.flag # "no"
  /\ \E s \in WifiVerifyFailedProcess(wc) : wc' = s

Reset == wc.reset /\ \E s \in EventBusStartWifiSvcCallback(Deinit(wc)) : wc' = s

PowerCut ==
  /\ wc.boots < MaxBoots
  /\ \E s \in EventBusStartWifiSvcCallback(
                [Deinit(wc) EXCEPT !.boots = @ + 1, !.active = FALSE, !.target = Nil,
                                   !.link = Nil]) : wc' = s

LinkUp ==
  /\ wc.active /\ wc.target \in Reachable /\ wc.link # wc.target
  /\ wc' = [wc EXCEPT !.link = wc.target]

LinkDown ==
  /\ wc.link # Nil /\ wc.drops < MaxDrops
  /\ wc' = [wc EXCEPT !.link = Nil, !.drops = @ + 1]

WcNext ==
  \/ NetCfg \/ SoftapEnds \/ SoftapStopEventCallback \/ Timer
  \/ RevokeEventWifiInfoCallback \/ Reset \/ PowerCut \/ LinkUp \/ LinkDown

(* The loop fires due timers and handles posted events, the hotspot has its *)
(* time-out.  That a requested restart happens is not needed.               *)
WcFair ==
  /\ \A t \in Timers : WF_wc(t \in wc.timers /\ \E s \in TimerCallback(wc, t) : wc' = s)
  /\ WF_wc(SoftapEnds)
  /\ WF_wc(SoftapStopEventCallback)

WcSpec == WcInit /\ [][WcNext]_wc /\ WcFair

-----------------------------------------------------------------------------
(* The gaps after which nobody may be at work on a network to be verified.  *)
Unwatched == {"again", "noevent", "nostart", "unwatched"}

(* Connection soundness, while no restart is due.                           *)
(* - A network that is to be verified has someone at work on it: the 60 s   *)
(*   timer, the 10 ms timer, or the end of the hotspot it waits for; except *)
(*   after a configuration received while connected, a link that came just  *)
(*   as the 60 s ended, an event that was not posted, or a timer or a       *)
(*   subscription that could not be had.                                    *)
(* - "checked" is never said of a network the device was not on, unless the *)
(*   link to the former network came up first.                              *)
(* - Reconnecting goes on only for a connection that is seen as lost.       *)
(* - No flag means no stored network: a device given up can be configured   *)
(*   again.  Exceptions are removals and saves that failed.                 *)
(* - The service is watched: unless its start failed, the check runs, and   *)
(*   hotspot and station are not used together.                             *)
ConnectSound ==
  ~wc.reset =>
    /\ wc.flag = "need" /\ wc.gaps \cap Unwatched = {} /\ ~wc.late =>
         \/ wc.timers \cap {"verify", "delay"} # {}
         \/ wc.subStop /\ (wc.hotspot \/ wc.stopEv)
    /\ wc.flag = "checked" /\ wc.gaps = {} =>
         wc.cfgs # <<>> /\ wc.cfgs[1] \in Reachable
    /\ "reconnect" \in wc.timers => ~wc.conn
    /\ wc.flag = "no" /\ wc.gaps = {} => wc.cfgs = <<>>
    /\ wc.svc => "check" \in wc.timers /\ wc.subRevoke
    /\ wc.cloud \/ wc.gaps \cap {"nostart", "nosoftap"} # {}
    /\ ~wc.svc => "nostart" \in wc.gaps
    /\ wc.hotspot => ~wc.active

(* Every configuration is decided: it ends checked or forgotten, under the  *)
(* fairness of the loop and of the host, unless one of the gaps above       *)
(* opened (svc_conn_action.c).                                              *)
VerifySettles ==
  wc.flag = "need" ~> (wc.flag # "need" \/ wc.late
                       \/ wc.gaps \cap Unwatched # {})
=============================================================================
