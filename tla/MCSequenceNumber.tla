--------------------------- MODULE MCSequenceNumber ---------------------------
(* Constants for the run of SequenceNumber: packing, log on and log off.    *)
EXTENDS SequenceNumber

CONSTANTS cln_pack_clnt, LogOnToTap, LogOffFromTap

AllCallers == {cln_pack_clnt, LogOnToTap, LogOffFromTap}
===============================================================================
