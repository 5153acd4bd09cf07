----------------------------- MODULE MCFwkMain -----------------------------
(* One application thread that starts the component and stops it twice; a   *)
(* wait of 30 seconds may run out.                                          *)
EXTENDS FwkMain
MCUses == {[by |-> {App}, calls |-> 3, upsets |-> 0, rough |-> TRUE]}
=============================================================================
