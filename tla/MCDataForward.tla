---------------------------- MODULE MCDataForward ----------------------------
(* Constants for the run of DataForward: orders that are packed, orders the *)
(* service steps over and orders the packing library refuses; one short     *)
(* frame, which ends rcv_thrd.                                              *)
EXTENDS DataForward

CONSTANTS r1, r2

TwoRefs    == {r1, r2}
ThreeKinds == {"clean", "processed", "unpackable"}
ShortOnly  == {1}
OnlyKnown  == {2}
================================================================================
