---------------------------- MODULE MCTapServices ----------------------------
(* Constants for the run of TapServices: one service of each kind.          *)
EXTENDS TapServices, TLC

CONSTANTS cln_pack_clnt, LogOnToTap, LogOffFromTap

AllServices == {cln_pack_clnt, LogOnToTap, LogOffFromTap}
KindOf == cln_pack_clnt :> "order" @@ LogOnToTap :> "log_on" @@ LogOffFromTap :> "log_off"
================================================================================
