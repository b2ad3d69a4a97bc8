------------------------------- MODULE EsrClient -------------------------------
(***************************************************************************)
(* The exchange client ("cln_esr_clnt"): ClnEsrClnt dials the exchange      *)
(* gateway (TAP), starts send_thrd and rcv_thrd on the connection and waits *)
(* for rcv_thrd alone; send_thrd takes messages off the System V queue and  *)
(* writes the orders to the socket, rcv_thrd reads the exchange's frames    *)
(* (internal/app/exchange_service/cln_esr_clnt.go).                         *)
(*                                                                          *)
(* The socket is a byte stream in each direction: a write may accept a part *)
(* of a message, a read may return a part of a frame.  Lengths are counted  *)
(* in units of a few bytes.                                                 *)
(*                                                                          *)
(* Environment actions: other services create the queue and put messages in *)
(* it, the exchange sends frames or goes away, the process ends (the        *)
(* packing service calls Fatalf) and is started again.                      *)
(***************************************************************************)
EXTENDS Naturals, Sequences, FiniteSets

(* An operator named X_Bug is X with a planted bug: the README says which   *)
(* property each of them breaks.  None of them is part of Next.             *)

CONSTANTS
  MaxMsg,       (* bound on the messages put in the queue                          *)
  MsgLen,       (* units of an order on the wire (338 bytes)                       *)
  HeaderLen,    (* units of the header the receiver reads first (24 bytes)         *)
  FrameLens,    (* the lengths the exchange's frames announce and have             *)
  KnownLens,    (* the frame lengths rcv_thrd decodes (338 bytes)                  *)
  MaxFrames,    (* bound on the frames of a connection                             *)
  MaxRestarts   (* bound on the number of restarts                                 *)

ASSUME ConstantsAssumption ==
  /\ MaxMsg \in Nat
  /\ MsgLen \in Nat \ {0}
  /\ HeaderLen \in Nat \ {0}
  /\ FrameLens \subseteq Nat \ {0}
  /\ \A l \in KnownLens : l \in Nat /\ l > HeaderLen
  /\ MaxFrames \in Nat
  /\ MaxRestarts \in Nat

(* What ReadFromQueue and send_thrd tell apart: BOARD_LOT_IN orders,        *)
(* LOGIN_WITHOUT_OPEN_ORDR_DTLS and SIGN_OFF_REQUEST_IN messages, and       *)
(* every other message type.                                                *)
Types == {"order", "login", "logoff", "unknown"}

VARIABLES
  queue,    (* the System V queue                                          *)
  nMsg,     (* messages put in it so far; they carry the numbers 1..nMsg   *)
  qOpen,    (* *GlobalQId holds the id of the queue                        *)
  epc,      (* ClnEsrClnt: "dial", "wait" (wg.Wait), "returned"; "down"    *)
  peer,     (* the other end of the connection: "up" or "gone"             *)
  spc,      (* send_thrd: "none", "no_id" (its reads of *GlobalQId do not  *)
            (* give the id yet), "read", "write" or "ended"                *)
  cur,      (* the order in fn_writen, 0 for none                          *)
  off,      (* totalWritten of fn_writen                                   *)
  wire,     (* the last units that reached the exchange on this connection, *)
            (* <<order, unit>>, after the mark that starts it               *)
  rpc,      (* rcv_thrd: "none", "header", "body" or "ended"               *)
  inbox,    (* units the exchange sent and rcv_thrd has not read: the first*)
            (* of a frame is the frame's length, the others are 0          *)
  have,     (* read of readNBytes: units of the current header or body     *)
  flen,     (* the length field of the frame being read                    *)
  nFrames,  (* frames of this connection                                   *)
  taken,    (* history: the orders send_thrd took off the queue            *)
  sent,     (* history: the orders for which fn_writen returned nil        *)
  drained,  (* history: orders taken since ClnEsrClnt returned             *)
  deaths    (* history: times the process ended                            *)

qvars == <<queue, nMsg>>
svars == <<spc, cur, off, taken, sent, drained>>
rvars == <<rpc, have, flen>>
vars  == <<queue, nMsg, qOpen, epc, peer, spc, cur, off, wire, rpc, inbox, have,
           flen, nFrames, taken, sent, drained, deaths>>

(* The start of a connection reads like the end of an order 0.              *)
ConnectionStart == <<<<0, MsgLen>>>>

Init ==
  /\ queue = <<>> /\ nMsg = 0 /\ qOpen = FALSE
  /\ epc = "dial" /\ peer = "gone"
  /\ spc = "none" /\ cur = 0 /\ off = 0 /\ wire = ConnectionStart
  /\ rpc = "none" /\ inbox = <<>> /\ have = 0 /\ flen = 0 /\ nFrames = 0
  /\ taken = {} /\ sent = {} /\ drained = 0 /\ deaths = 0

(* The goroutines, the connection and *GlobalQId go with the process.       *)
Die ==
  /\ qOpen' = FALSE
  /\ epc' = "down" /\ peer' = "gone"
  /\ spc' = "none" /\ cur' = 0 /\ off' = 0 /\ wire' = ConnectionStart
  /\ rpc' = "none" /\ inbox' = <<>> /\ have' = 0 /\ flen' = 0 /\ nFrames' = 0
  /\ drained' = 0
  /\ deaths' = deaths + 1
  /\ UNCHANGED <<qvars, taken, sent>>

(***************************************************************************)
(* ClnEsrClnt.                                                              *)
(***************************************************************************)

(* crt_tap_con: AutoReconnect is always false, so a failed dial is fatal.   *)
Dial ==
  /\ epc = "dial"
  /\ \/ /\ epc' = "wait"
        /\ peer' = "up"
        /\ spc' = "no_id"
        /\ rpc' = "header"
        /\ UNCHANGED <<qvars, qOpen, cur, off, wire, inbox, have, flen, nFrames,
                       taken, sent, drained, deaths>>
     \/ Die

ClnEsrClnt_WaitsForBoth ==
  /\ epc = "wait" /\ rpc = "ended" /\ spc = "ended"
  /\ epc' = "returned"
  /\ peer' = "gone"
  /\ inbox' = <<>>
  /\ UNCHANGED <<qvars, qOpen, svars, wire, rvars, nFrames, deaths>>

(* wg counts rcv_thrd only: ClnEsrClnt closes the connection and returns 0  *)
(* when it ends.  send_thrd is not told, and the process goes on.           *)
ClnEsrClnt ==
  /\ epc = "wait"
  /\ rpc = "ended"
  /\ epc' = "returned"
  /\ peer' = "gone"
  /\ inbox' = <<>>
  /\ UNCHANGED <<qvars, qOpen, svars, wire, rvars, nFrames, deaths>>

(***************************************************************************)
(* send_thrd.  While *GlobalQId is 0 msgrcv fails and the loop spins, with  *)
(* an empty queue it blocks: both are stuttering here.                      *)
(***************************************************************************)
ReadGlobalQId_CopiedAtStart ==
  /\ spc = "no_id" /\ qOpen /\ epc = "dial"
  /\ spc' = "read"
  /\ UNCHANGED <<qvars, qOpen, epc, peer, cur, off, wire, rvars, inbox, nFrames,
                 taken, sent, drained, deaths>>

(* Nothing orders these reads after the write of the other goroutine: any   *)
(* number of them may give the old 0 before one gives the id, and the later *)
(* ones give it too.  Every iteration reads the variable anew.              *)
ReadGlobalQId ==
  /\ spc = "no_id"
  /\ qOpen
  /\ spc' = "read"
  /\ UNCHANGED <<qvars, qOpen, epc, peer, cur, off, wire, rvars, inbox, nFrames,
                 taken, sent, drained, deaths>>

ReadFromQueue ==
  /\ spc = "read"
  /\ qOpen
  /\ queue # <<>>
  /\ queue' = Tail(queue)

TakeOrder ==
  /\ ReadFromQueue
  /\ Head(queue).type = "order"
  /\ spc' = "write"
  /\ cur' = Head(queue).id
  /\ off' = 0
  /\ taken' = taken \cup {Head(queue).id}
  /\ drained' = IF epc = "returned" THEN drained + 1 ELSE drained
  /\ UNCHANGED <<nMsg, qOpen, epc, peer, wire, rvars, inbox, nFrames, sent, deaths>>

(* A login is logged, a logoff is skipped and a message of unknown type is  *)
(* an error of ReadFromQueue; in each case it has left the queue.           *)
DropMessage ==
  /\ ReadFromQueue
  /\ Head(queue).type # "order"
  /\ UNCHANGED <<nMsg, qOpen, epc, peer, svars, wire, rvars, inbox, nFrames, deaths>>

FinishOrder_OffsetKept(n) ==
  IF off + n = MsgLen
  THEN /\ spc' = "read" /\ cur' = 0 /\ off' = off + n /\ sent' = sent \cup {cur}
  ELSE /\ spc' = spc /\ cur' = cur /\ off' = off + n /\ sent' = sent

FinishOrder_StartsOver(n) ==
  IF off + n = MsgLen
  THEN /\ spc' = "read" /\ cur' = 0 /\ off' = 0 /\ sent' = sent \cup {cur}
  ELSE /\ spc' = spc /\ cur' = cur /\ off' = 0 /\ sent' = sent

(***************************************************************************)
(* fn_writen: each conn.Write accepts n more units of the order, and they   *)
(* arrive if the exchange is still there.  After the last one fn_writen     *)
(* returns nil and send_thrd reads the queue again.  A write on a closed or *)
(* broken connection is an error: send_thrd ends, the order with it.        *)
(***************************************************************************)
Units(i, a, b) == [k \in 1 .. b - a |-> <<i, a + k>>]

(* Two orders of units are all the history that is kept of the stream.      *)
Recent(w) ==
  IF Len(w) <= 2 * MsgLen THEN w ELSE SubSeq(w, Len(w) - 2 * MsgLen + 1, Len(w))

FinishOrder(n) ==
  IF off + n = MsgLen
  THEN /\ spc' = "read" /\ cur' = 0 /\ off' = 0 /\ sent' = sent \cup {cur}
  ELSE /\ spc' = spc /\ cur' = cur /\ off' = off + n /\ sent' = sent

WriteSome_NotClosed(n) ==
  /\ spc = "write"
  /\ off + n <= MsgLen
  /\ wire' = IF peer = "up" THEN Recent(wire \o Units(cur, off, off + n)) ELSE wire
  /\ FinishOrder(n)
  /\ UNCHANGED <<qvars, qOpen, epc, peer, rvars, inbox, nFrames, taken, drained, deaths>>

WriteSome(n) ==
  /\ spc = "write"
  /\ epc = "wait"
  /\ off + n <= MsgLen
  /\ wire' = IF peer = "up" THEN Recent(wire \o Units(cur, off, off + n)) ELSE wire
  /\ FinishOrder(n)
  /\ UNCHANGED <<qvars, qOpen, epc, peer, rvars, inbox, nFrames, taken, drained, deaths>>

(* The one temporary error of a write to a socket is the time-out of the    *)
(* connection.  Units accepted with it may have arrived, fn_writen does not *)
(* count them and would write them again; but the connection is gone.       *)
WriteTimesOut(n) ==
  /\ spc = "write"
  /\ epc = "wait"
  /\ peer = "up" /\ peer' = "gone"
  /\ off + n <= MsgLen
  /\ wire' = Recent(wire \o Units(cur, off, off + n))
  /\ UNCHANGED <<qvars, qOpen, epc, svars, rvars, inbox, nFrames, deaths>>

WriteFails_GoesOn ==
  /\ spc = "write"
  /\ peer = "gone"
  /\ spc' = "read" /\ cur' = 0 /\ off' = 0
  /\ UNCHANGED <<qvars, qOpen, epc, peer, wire, rvars, inbox, nFrames, taken,
                 sent, drained, deaths>>

WriteFails_PutsBack ==
  /\ spc = "write"
  /\ peer = "gone"
  /\ spc' = "ended" /\ cur' = 0 /\ off' = 0
  /\ queue' = Append(queue, [id |-> cur, type |-> "order"])
  /\ UNCHANGED <<nMsg, qOpen, epc, peer, wire, rvars, inbox, nFrames, taken,
                 sent, drained, deaths>>

WriteFails ==
  /\ spc = "write"
  /\ peer = "gone"
  /\ spc' = "ended" /\ cur' = 0 /\ off' = 0
  /\ UNCHANGED <<qvars, qOpen, epc, peer, wire, rvars, inbox, nFrames, taken,
                 sent, drained, deaths>>

Need_HeaderTwice == IF rpc = "header" THEN HeaderLen ELSE flen

(***************************************************************************)
(* rcv_thrd.  readNBytes collects n more units of the header, or of the     *)
(* body; the length field is in the first unit of the header.  A complete   *)
(* frame of a known length is decoded and logged, and the next header       *)
(* follows; any other length ends the thread.  A frame that announces no    *)
(* more than the header has no body and so an unknown length.  A sign-on    *)
(* response, of 300 bytes, has a case of its own in the code but ends the   *)
(* thread as well: binary.Read wants the 308 bytes of its structure.        *)
(* (exitcount is never 1: send_thrd returns without counting.)              *)
(***************************************************************************)
Need == IF rpc = "header" THEN HeaderLen ELSE flen - HeaderLen

LengthField == IF rpc = "header" /\ have = 0 THEN Head(inbox) ELSE flen

Decoded(l) == IF l \in KnownLens THEN "header" ELSE "ended"

readNBytes(n) ==
  /\ rpc \in {"header", "body"}
  /\ n <= Len(inbox)
  /\ have + n <= Need
  /\ inbox' = SubSeq(inbox, n + 1, Len(inbox))
  /\ flen' = LengthField
  /\ IF have + n < Need
     THEN have' = have + n /\ rpc' = rpc
     ELSE /\ have' = 0
          /\ rpc' = IF rpc = "header" /\ LengthField > HeaderLen
                    THEN "body"
                    ELSE Decoded(LengthField)
  /\ UNCHANGED <<qvars, qOpen, epc, peer, svars, wire, nFrames, deaths>>

(* The read deadline is never set: rcv_thrd ends when the exchange closes   *)
(* or resets the connection, and waits as long as it does not.              *)
ReadFails ==
  /\ rpc \in {"header", "body"}
  /\ peer = "gone"
  /\ rpc' = "ended"
  /\ UNCHANGED <<qvars, qOpen, epc, peer, svars, wire, inbox, have, flen, nFrames, deaths>>

(***************************************************************************)
(* The environment.                                                         *)
(***************************************************************************)
QueueCreated ==
  /\ epc # "down" /\ ~qOpen /\ qOpen' = TRUE
  /\ UNCHANGED <<qvars, epc, peer, svars, wire, rvars, inbox, nFrames, deaths>>

Enqueue(t) ==
  /\ nMsg < MaxMsg
  /\ nMsg' = nMsg + 1
  /\ queue' = Append(queue, [id |-> nMsg + 1, type |-> t])
  /\ UNCHANGED <<qOpen, epc, peer, svars, wire, rvars, inbox, nFrames, deaths>>

Frame(l) == [k \in 1 .. l |-> IF k = 1 THEN l ELSE 0]

FrameArrives(l) ==
  /\ peer = "up"
  /\ nFrames < MaxFrames
  /\ nFrames' = nFrames + 1
  /\ inbox' = inbox \o Frame(l)
  /\ UNCHANGED <<qvars, qOpen, epc, peer, svars, wire, rvars, deaths>>

PeerCloses ==
  /\ peer = "up" /\ peer' = "gone"
  /\ UNCHANGED <<qvars, qOpen, epc, svars, wire, rvars, inbox, nFrames, deaths>>

ProcessEnds == epc # "down" /\ Die

Restart ==
  /\ epc = "down"
  /\ deaths <= MaxRestarts
  /\ epc' = "dial"
  /\ UNCHANGED <<qvars, qOpen, peer, svars, wire, rvars, inbox, nFrames, deaths>>

(***************************************************************************)
(* Specification.                                                           *)
(***************************************************************************)
SendThrd ==
  \/ ReadGlobalQId \/ TakeOrder \/ DropMessage \/ WriteFails
  \/ \E n \in 1 .. MsgLen : WriteSome(n) \/ WriteTimesOut(n)

RcvThrd == (\E n \in 1 .. Need : readNBytes(n)) \/ ReadFails

Environment ==
  \/ QueueCreated \/ PeerCloses \/ ProcessEnds \/ Restart
  \/ \E t \in Types : Enqueue(t)
  \/ \E l \in FrameLens : FrameArrives(l)

Next == Dial \/ ClnEsrClnt \/ SendThrd \/ RcvThrd \/ Environment

Spec == Init /\ [][Next]_vars

(* The goroutines run as long as the process does.  Fairness of SendThrd    *)
(* also assumes that an exchange that is up reads its socket: no write      *)
(* deadline is set, so conn.Write may otherwise block for ever.             *)
FairSpec ==
  Spec /\ WF_vars(ClnEsrClnt) /\ WF_vars(SendThrd) /\ WF_vars(RcvThrd)

(***************************************************************************)
(* Invariants.                                                              *)
(***************************************************************************)

(* The type of every variable; a partially written order has units left.    *)
TypeOK ==
  /\ queue \in Seq([id : 1 .. MaxMsg, type : Types])
  /\ nMsg \in 0 .. MaxMsg
  /\ qOpen \in BOOLEAN
  /\ epc \in {"dial", "wait", "returned", "down"}
  /\ peer \in {"up", "gone"}
  /\ spc \in {"none", "no_id", "read", "write", "ended"}
  /\ cur \in 0 .. MaxMsg
  /\ off \in 0 .. MsgLen - 1
  /\ wire \in Seq((0 .. MaxMsg) \X (1 .. MsgLen))
  /\ rpc \in {"none", "header", "body", "ended"}
  /\ inbox \in Seq(FrameLens \cup {0})
  /\ have \in Nat
  /\ flen \in FrameLens \cup {0}
  /\ nFrames \in 0 .. MaxFrames
  /\ taken \subseteq 1 .. MaxMsg
  /\ sent \subseteq 1 .. MaxMsg
  /\ drained \in Nat
  /\ deaths \in Nat

(* However the socket splits the writes, the exchange sees whole orders,    *)
(* unit after unit and order after order in queue order; only the last one  *)
(* may be incomplete.                                                       *)
Framing ==
  \A k \in 1 .. Len(wire) - 1 :
     IF wire[k][2] = MsgLen
     THEN wire[k + 1][2] = 1 /\ wire[k + 1][1] > wire[k][1]
     ELSE wire[k + 1] = <<wire[k][1], wire[k][2] + 1>>

(* Taking an order off the queue is final, so an order taken and not handed *)
(* to the socket is lost.  Each loss has a cause of its own: the end of the *)
(* process, or the one write error that ends send_thrd.                     *)
LostOrdersBounded ==
  Cardinality(taken \ (sent \cup {cur})) <= deaths + (IF spc = "ended" THEN 1 ELSE 0)

(* When ClnEsrClnt returns, send_thrd goes on without a connection; it      *)
(* takes at most one more order off the queue before a write error ends it. *)
AtMostOneMoreOrder == drained <= 1

(* Orders are handed to the socket once each and in the order of the queue, *)
(* from one connection to the next and through the losses between them: an  *)
(* order that was overtaken is never sent late.                             *)
SentOnceInOrder == [][\A i \in sent' \ sent : \A j \in sent : j < i]_vars

(* rcv_thrd never takes the middle of a frame for a header, whatever        *)
(* lengths are announced and however the reads are split.                   *)
StaysInStep == rpc = "header" /\ have = 0 /\ inbox # <<>> => Head(inbox) # 0

(***************************************************************************)
(* Liveness.                                                                *)
(***************************************************************************)

InQueue(i) == \E k \in 1 .. Len(queue) : queue[k].id = i

(* A message in the queue leaves it, and an order among them is handed to   *)
(* the socket, unless the connection or the process ends first, however     *)
(* late send_thrd sees the id that has been written to *GlobalQId.          *)
(* Messages nobody sends (logins, logoffs, unknown types) do not block the  *)
(* queue.                                                                   *)
QueueIsServed ==
  \A i \in 1 .. MaxMsg :
    (epc = "wait" /\ qOpen /\ (InQueue(i) \/ cur = i))
      ~> (epc # "wait" \/ spc = "ended" \/ ~(InQueue(i) \/ cur = i))

(* When the exchange is gone ClnEsrClnt closes the connection and returns,  *)
(* although send_thrd may be blocked in msgrcv for ever.                    *)
ClientReturns == (epc = "wait" /\ peer = "gone") ~> (epc # "wait")
================================================================================
