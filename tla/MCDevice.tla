----------------------------- MODULE MCDevice ------------------------------
(***************************************************************************)
(* What the device keeps and does, each component on its own instance: a   *)
(* behaviour belongs to the component that Init chooses, and the others    *)
(* are off.                                                                *)
(*                                                                         *)
(* Clock and calendar: a counter of 16 values, two zones, every day of 150 *)
(* years from 1970.                                                        *)
(*                                                                         *)
(* Store: both stores, two files, one account, two saves and one fault.    *)
(*                                                                         *)
(* LAN search: three peers for two slots, two starts.                      *)
(*                                                                         *)
(* Local control: three phones for two sessions, with two addresses, and   *)
(* three control messages: two taken in order and one that comes again.    *)
(***************************************************************************)
EXTENDS DeviceStore, LocalControl

VARIABLES which, tm, cal, ls

TM == INSTANCE UtilsTime
        WITH Builds <- {"posix", "cmsis2"}, Word <- 16, MsPerSec <- 4, TickFreq <- 4, MaxNow <- 40,
             Epoch <- 1000, Zones <- {[hour |-> 1, min |-> 0], [hour |-> -2, min |-> 1],
                                        [hour |-> 0, min |-> 0], [hour |-> 0, min |-> 1],
                                        [hour |-> 1, min |-> -1]},
             Hour <- 2, Minute <- 1, Years <- 1970..2119, Seconds <- {0, 59, 3599, 3600, 86399}
LS == INSTANCE LanSearch
        WITH Addrs <- {1, 2, 3}, MaxPeerNum <- 2, SpekeTime <- 2, PeerTime <- 4, Period <- 2,
             MaxStarts <- 2, MaxFaults <- 1

Nothing == "off"

MCInit ==
  /\ which \in {"time", "store", "lan", "local"}
  /\ IF which = "time" THEN TM!TmInit ELSE tm = Nothing /\ cal = Nothing
  /\ IF which = "store" THEN DsInit ELSE ds = Nothing
  /\ IF which = "lan" THEN LS!LsInit ELSE ls = Nothing
  /\ IF which = "local" THEN LcInit ELSE lc = Nothing

MCNext ==
  /\ UNCHANGED which
  /\ IF which = "time" THEN TRUE ELSE UNCHANGED <<tm, cal>>
  /\ IF which = "store" THEN TRUE ELSE UNCHANGED ds
  /\ IF which = "lan" THEN TRUE ELSE UNCHANGED ls
  /\ IF which = "local" THEN TRUE ELSE UNCHANGED lc
  /\ \/ which = "time" /\ TM!TmNext
     \/ which = "store" /\ DsNext
     \/ which = "lan" /\ LS!LsNext
     \/ which = "local" /\ LcNext

MCSpec == MCInit /\ [][MCNext]_<<which, tm, cal, ds, ls, lc>>

-----------------------------------------------------------------------------
(* TimeSound: the clock follows the true time over turns of the counter,   *)
(* and the calendar computed from a stamp is the calendar (utils_time.c).  *)
TimeSound == which = "time" => TM!TimeSound

(* KeptSound: what the device keeps is what was last saved well, over      *)
(* failed and cut saves (security_store.c, dev_svc_auth_setup.c).          *)
KeptSound == which = "store" => StoreSound

(* LanSound: sessions of phones in the LAN are bounded, end in time, and   *)
(* take a numbered message once (local_ctl_cli_mngr.c); the peers that are *)
(* looking for the device bind it only under a key agreed with them and    *)
(* end in time while the check runs (lan_search_peer_mngr.c).              *)
LanSound ==
  /\ which = "lan" => LS!LanSound
  /\ which = "local" => LocalSound
=============================================================================
