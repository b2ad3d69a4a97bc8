------------------------------- MODULE MCPacking -------------------------------
(* Constants for the runs of Packing: orders that are packed, of each       *)
(* product and validity, and for each test that fails an order failing it.  *)
EXTENDS Packing

Good == [prd |-> "F", indstk |-> "I", expiry |-> "RFC3339", req |-> "N",
         slm |-> "M", flw |-> "B", typ |-> "T", prgm |-> "T"]

Accepted == {[Good EXCEPT !.prd = p, !.typ = t] : p \in {"F", "O"}, t \in {"T", "I", "D"}}

Unpackable ==
  {[Good EXCEPT !.prd = "other"], [Good EXCEPT !.indstk = "other"],
   [Good EXCEPT !.expiry = "other"],
   [Good EXCEPT !.req = "other"], [Good EXCEPT !.req = "acked"],
   [Good EXCEPT !.slm = "other"], [Good EXCEPT !.flw = "other"],
   [Good EXCEPT !.typ = "other"], [Good EXCEPT !.prgm = "other", !.typ = "I"]}

SomeOrders == Accepted \cup Unpackable
================================================================================
