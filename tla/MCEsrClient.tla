------------------------------ MODULE MCEsrClient ------------------------------
(* Constants for the run of EsrClient: one frame shorter than the header,   *)
(* one of unknown length and one that rcv_thrd decodes.                     *)
EXTENDS EsrClient

ShortUnknownKnown == {1, 3, 4}
OnlyKnown         == {4}
================================================================================
