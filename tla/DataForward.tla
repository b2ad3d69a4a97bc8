------------------------------ MODULE DataForward ------------------------------
(***************************************************************************)
(* The program main.go starts: the packing service (PackClient) and the     *)
(* exchange client (EsrClient) as two goroutines of one process, joined by  *)
(* the System V queue, *GlobalQId and the end of the process, with the OMS  *)
(* at one end and the exchange at the other.                                *)
(*                                                                          *)
(* The queue holds the orders PackClient wrote; EsrClient sees each as an   *)
(* order message.  Log on and log off are in module TapServices: main does  *)
(* not start them, so orders are all the queue holds.                       *)
(***************************************************************************)
EXTENDS Naturals, Sequences, FiniteSets, Functions

CONSTANTS
  Refs, OmsKinds, MaxSeq, QLimit, MayModify, MayFail, MayCrash, PipeIsNFO,
  MsgLen, HeaderLen, FrameLens, KnownLens, MaxFrames, MaxRestarts

VARIABLES
  fxb, nRows, fod, pc, tranType, txOpen, rec, pkt, fresh, packs, writes,
  lastRead, packFails,        (* of PackClient                             *)
  epc, peer, spc, cur, off, wire, rpc, inbox, have, flen, nFrames, taken,
  sent, drained,              (* of EsrClient                              *)
  queue, qOpen, deaths        (* of both                                   *)

packVars   == <<fxb, nRows, fod, pc, tranType, txOpen, rec, pkt, fresh, packs,
                writes, lastRead, packFails>>
clientVars == <<epc, peer, spc, cur, off, wire, rpc, inbox, have, flen, nFrames,
                taken, sent, drained>>
sharedVars == <<queue, qOpen, deaths>>
vars       == <<packVars, clientVars, sharedVars>>

Pack == INSTANCE PackClient

Client == INSTANCE EsrClient WITH
  MaxMsg <- MaxSeq,
  nMsg   <- 0,
  queue  <- [k \in 1 .. Len(queue) |-> [id |-> queue[k], type |-> "order"]]

ASSUME ConstantsAssumption ==
  Pack!ConstantsAssumption /\ Client!ConstantsAssumption

Init == Pack!Init /\ Client!Init

(***************************************************************************)
(* The two goroutines.  Whatever ends one of them ends the process, and     *)
(* with it the other: main calls Fatalf.                                    *)
(***************************************************************************)
PackingService ==
  /\ Pack!Service
  /\ IF pc' = "down" THEN Client!Die ELSE UNCHANGED clientVars

Dial ==
  \/ UNCHANGED <<packVars, sharedVars>> /\ Client!Dial
  \/ Pack!Die /\ Client!Dial

(* msgrcv takes the order off the queue, for send_thrd.                     *)
TakeOrder == Pack!Receive /\ Client!TakeOrder

SendThrd ==
  \/ TakeOrder
  \/ /\ UNCHANGED <<packVars, sharedVars>>
     /\ \/ Client!ReadGlobalQId \/ Client!WriteFails
        \/ \E n \in 1 .. MsgLen : Client!WriteSome(n) \/ Client!WriteTimesOut(n)

RcvThrd == UNCHANGED <<packVars, sharedVars>> /\ Client!RcvThrd

ClnEsrClnt == UNCHANGED <<packVars, sharedVars>> /\ Client!ClnEsrClnt

(***************************************************************************)
(* The environment: the OMS, the exchange, a kill and an operator.          *)
(***************************************************************************)
Oms == Pack!Oms /\ UNCHANGED clientVars

Exchange ==
  /\ UNCHANGED <<packVars, sharedVars>>
  /\ Client!PeerCloses \/ \E l \in FrameLens : Client!FrameArrives(l)

Crash == Pack!Crash /\ Client!ProcessEnds

Restart == Pack!Restart /\ Client!Restart

(***************************************************************************)
(* Specification.                                                           *)
(***************************************************************************)
Next ==
  \/ PackingService \/ Dial \/ SendThrd \/ RcvThrd \/ ClnEsrClnt
  \/ Oms \/ Exchange \/ Crash \/ Restart

Spec == Init /\ [][Next]_vars

(* The goroutines run as long as the process does, and an exchange that is  *)
(* up reads its socket, as in PackClient and EsrClient.  That the queue is  *)
(* read is no assumption here: it is the fairness of SendThrd.              *)
FairSpec ==
  Spec /\ WF_vars(PackingService) /\ WF_vars(SendThrd)
       /\ WF_vars(RcvThrd) /\ WF_vars(ClnEsrClnt)

(***************************************************************************)
(* Properties.                                                              *)
(***************************************************************************)

(* What has become of an order, from the books, the queue, the structures   *)
(* of the two services and the socket.                                      *)
Status(s) ==
  IF s \in sent THEN "forwarded"
  ELSE IF s = cur \/ s \in Range(queue) THEN "in_flight"
  ELSE IF fxb[s].stts = "none" THEN "none"
  ELSE IF fxb[s].stts = "R" THEN "requested"
  ELSE IF s \in {rec, pkt} THEN "in_flight"
  ELSE "lost"

Statuses      == [s \in 1 .. MaxSeq |-> Status(s)]
LastForwarded == IF sent = {} THEN 0 ELSE CHOOSE s \in sent : \A t \in sent : t <= s

Promise == INSTANCE Delivery WITH status <- Statuses, last <- LastForwarded

(* The program implements Delivery: an order once lost is never forwarded,  *)
(* a forwarded one never taken from the exchange book again, nothing is     *)
(* forwarded that was not taken from it, and no order overtakes another,    *)
(* through every failure, crash and restart of both services.               *)
KeepsItsPromise == Promise!Spec

(* One end of the process costs at most two orders, the one between its     *)
(* mark and its packet and the one in fn_writen; any other lost order was   *)
(* refused by the packing library or was the one in the write that ended    *)
(* send_thrd.                                                               *)
OneEndCostsTwoOrders ==
  Cardinality({s \in 1 .. MaxSeq : Status(s) = "lost"})
    <= 2 * deaths + packFails + (IF spc = "ended" THEN 1 ELSE 0)

(* What the exchange reads of a connection: whole orders, unit after unit,  *)
(* whatever the packing service writes to the queue meanwhile.  Framing of  *)
(* EsrClient promises more, that every order is new; here Q_packet may be   *)
(* queued again, and the copies of an order follow each other, with no      *)
(* other order between them and none older after them.                      *)
CopiesFollowTheirOrder ==
  \A k \in 1 .. Len(wire) - 1 :
    IF wire[k][2] = MsgLen
    THEN wire[k + 1][2] = 1 /\ wire[k + 1][1] >= wire[k][1]
    ELSE wire[k + 1] = <<wire[k][1], wire[k][2] + 1>>

(* A requested order is forwarded or lost, unless a goroutine it needs is   *)
(* gone, there is no queue, or it waits behind a row the service steps over.*)
Running == pc # "down" /\ qOpen /\ epc = "wait" /\ spc # "ended"

RequestedIsSettled ==
  \A s \in 1 .. MaxSeq :
    (Running /\ Status(s) = "requested")
      ~> (Status(s) \in {"forwarded", "lost"} \/ ~Running \/ Pack!Blocked(s))

(* Once ClnEsrClnt has returned, the packing service comes to a halt: it    *)
(* ends the process, or waits for room in a queue nobody reads.  main       *)
(* goes on waiting for it, and the log is the only sign.                    *)
HaltsWithoutClient ==
  (epc = "returned")
    ~> (pc = "down" \/ ~qOpen \/ (pc = "can_write" /\ Len(queue) >= QLimit))
================================================================================
