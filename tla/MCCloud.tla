------------------------------ MODULE MCCloud ------------------------------
(***************************************************************************)
(* The two state machines that bring a device online, each on its own      *)
(* instance: a behaviour belongs to the one that Init chooses, and the     *)
(* other stays where it begins.                                            *)
(*                                                                         *)
(* Cloud service: a device bound or not, without SLE devices and with two  *)
(* bindings and three disturbances, or with one SLE device, one binding,   *)
(* two disturbances and expiries that coincide.                            *)
(*                                                                         *)
(* Connection: a network that can be joined and one that cannot, two       *)
(* configurations, one power cut, one broken link and one failed request.  *)
(***************************************************************************)
EXTENDS CloudFsm

VARIABLES which, wc

WC == INSTANCE WifiConnect
        WITH Nets <- {1, 2}, Reachable <- {1}, MaxCfgs <- 2, MaxBoots <- 1, MaxDrops <- 1, MaxFaults <- 1

CalmAndRough == {Calm, Rough}

MCInit ==
  /\ which \in {"cloud", "connect"}
  /\ Init /\ WC!WcInit
  /\ which # "cloud" => use = Calm /\ bound = 0
  /\ which # "connect" => wc.hotspot

MCNext ==
  /\ UNCHANGED which
  /\ \/ which = "cloud" /\ Next /\ UNCHANGED wc
     \/ which = "connect" /\ WC!WcNext /\ UNCHANGED vars

(* The fairness each machine states for itself; for the cloud service only *)
(* in the calm use, which is the one its liveness is stated for.           *)
CalmCloud == which = "cloud" /\ use = Calm
MCSpec ==
  /\ MCInit /\ [][MCNext]_<<which, vars, wc>>
  /\ WF_vars(CalmCloud /\ M2mFsmTimerCallback) /\ WF_vars(CalmCloud /\ CoapEndpointCheck)
  /\ \A k \in Asking \cup {"HEARTBEAT", "TOKEN"} : WF_vars(CalmCloud /\ Answered(k))
  /\ WF_vars(CalmCloud /\ M2mCloudServiceStart) /\ WF_vars(CalmCloud /\ Reboot)
  /\ \A t \in WC!Timers :
       WF_wc(which = "connect" /\ t \in wc.timers /\ \E s \in WC!TimerCallback(wc, t) : wc' = s)
  /\ WF_wc(which = "connect" /\ WC!SoftapEnds)
  /\ WF_wc(which = "connect" /\ WC!SoftapStopEventCallback)

-----------------------------------------------------------------------------
(* ConnectSound: what is kept about the network says who works on it, over *)
(* configurations, timers, links and power cuts (svc_conn_action.c).       *)
ConnectSound == WC!ConnectSound

(* VerifySettles: every configuration ends checked or forgotten            *)
(* (svc_conn_action.c).                                                    *)
VerifySettles == WC!VerifySettles
=============================================================================
