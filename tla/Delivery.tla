-------------------------------- MODULE Delivery --------------------------------
(***************************************************************************)
(* What the forwarder promises an order: it is requested, taken in hand,    *)
(* and then forwarded or lost.  No order is taken twice, orders are taken   *)
(* and forwarded by their sequence number, no lost order is forwarded, and  *)
(* the status of an order, once forwarded, is final.  Nothing here says     *)
(* how: module DataForward is checked and proved to implement this one.     *)
(* Here an order is forwarded when the socket first accepts all of it; a    *)
(* copy of the same packet sent after it is no step of this module, and     *)
(* CopiesFollowTheirOrder of DataForward is about those.                    *)
(***************************************************************************)
EXTENDS Naturals

CONSTANT MaxSeq   (* the orders are numbered 1 .. MaxSeq *)

VARIABLES
  status,  (* of each order: "none", "requested", "in_flight", "forwarded", *)
           (* "lost"                                                        *)
  last     (* the last order forwarded, 0 before                            *)

Orders == 1 .. MaxSeq

Init ==
  /\ status = [o \in Orders |-> "none"]
  /\ last = 0

(* Orders are numbered in the sequence of the requests.                     *)
Request(o) ==
  /\ status[o] = "none"
  /\ \A p \in Orders : p < o => status[p] # "none"
  /\ status' = [status EXCEPT ![o] = "requested"]
  /\ UNCHANGED last

(* The oldest requested order is the next.                                  *)
Take(o) ==
  /\ status[o] = "requested"
  /\ \A p \in Orders : p < o => status[p] # "requested"
  /\ status' = [status EXCEPT ![o] = "in_flight"]
  /\ UNCHANGED last

(* An order overtakes no other.                                             *)
Forward(o) ==
  /\ status[o] = "in_flight"
  /\ o > last
  /\ status' = [status EXCEPT ![o] = "forwarded"]
  /\ last' = o

(* Orders in flight may be lost, several at once when the process ends.     *)
Lose(S) ==
  /\ \A o \in S : status[o] = "in_flight"
  /\ status' = [o \in Orders |-> IF o \in S THEN "lost" ELSE status[o]]
  /\ UNCHANGED last

Next ==
  \/ \E o \in Orders : Request(o) \/ Take(o) \/ Forward(o)
  \/ \E S \in SUBSET Orders : Lose(S)

Spec == Init /\ [][Next]_<<status, last>>
================================================================================
