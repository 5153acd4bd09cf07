------------------------------ MODULE MCLinks ------------------------------
(***************************************************************************)
(* The two sides a peer talks to, each on its own instance: a behaviour    *)
(* belongs to the one that Init chooses, and the other stays where it      *)
(* begins.                                                                 *)
(*                                                                         *)
(* CoAP endpoint: two peers, one of which answers the device, two requests *)
(* of the device over a list of one or of two, requests of the peers that  *)
(* are handled, not answered or not known, two retransmissions, a buffer   *)
(* that fills and one restart of the stack.                                *)
(*                                                                         *)
(* BLE stack: two connections with a number other than the one an empty    *)
(* table shows, three calls of the application, a queue of two events, so  *)
(* that one is lost, and one request to the host that fails or is answered *)
(* late.                                                                   *)
(***************************************************************************)
EXTENDS CoapEndpoint, BleStack

VARIABLE which

MCInit ==
  /\ which \in {"endpoint", "ble"} /\ EpInit /\ BsInit
  /\ which = "ble" => ep.max = 2

MCNext ==
  /\ UNCHANGED which
  /\ \/ which = "endpoint" /\ EpNext /\ UNCHANGED bs
     \/ which = "ble" /\ BsNext /\ UNCHANGED ep

(* The fairness each side states for itself.                               *)
MCSpec ==
  /\ MCInit /\ [][MCNext]_<<which, ep, bs>>
  /\ WF_ep(which = "endpoint" /\ Source)
  /\ WF_ep(which = "endpoint" /\ Tick)
  /\ WF_bs(which = "ble" /\ LoopStep) /\ WF_bs(which = "ble" /\ AdvCtrlTimerCb)
  /\ WF_bs(which = "ble" /\ HostStep) /\ WF_bs(which = "ble" /\ AdvTick)
=============================================================================
