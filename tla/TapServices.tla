------------------------------ MODULE TapServices ------------------------------
(***************************************************************************)
(* The services that share the System V queue and the row of sequence       *)
(* numbers of a pipe: the packing service, log on (LogOnToTap) and log off  *)
(* (Fn_logoff_from_TAP), with send_thrd at the other end of the queue       *)
(* (internal/app/exchange_connection, util/MessageQueue).  Log on and log   *)
(* off end with a test read that takes the head of the queue, whosever      *)
(* message that is.                                                         *)
(*                                                                          *)
(* The packing service appears with the steps the others can see: the room  *)
(* test, the sequence number, the write; module PackClient has the rest.    *)
(* send_thrd appears as far as it takes messages; module EsrClient has the  *)
(* rest.  All are goroutines of one process, as Service_initializer.go      *)
(* offers them, with one *GlobalQId.                                        *)
(***************************************************************************)
EXTENDS Integers, Sequences, FiniteSets

CONSTANTS
  Services,    (* the services that write to the queue                         *)
  Kind,        (* what each is: "order" (packing), "log_on" or "log_off"       *)
  QLimit,      (* messages FnCanWriteToQueue tolerates in the queue: 10 in the *)
               (* code                                                         *)
  MaxNum,      (* bound on the sequence numbers                                *)
  MaxCalls,    (* bound on the calls of log on and log off                     *)
  MaxOrders,   (* bound on the orders written                                  *)
  MaxEnds,     (* bound on the ends of the process                             *)
  MayFail      (* BOOLEAN: statements and queue calls may fail                 *)

Kinds == {"order", "log_on", "log_off"}

ASSUME ConstantsAssumption ==
  /\ IsFiniteSet(Services) /\ Services # {}
  /\ Kind \in [Services -> Kinds]
  /\ QLimit \in Nat \ {0}
  /\ {MaxNum, MaxCalls, MaxOrders, MaxEnds} \subseteq Nat
  /\ MayFail \in BOOLEAN

VARIABLES
  queue,     (* the System V queue: kind, sequence number and writer of     *)
             (* each message                                                *)
  qOpen,     (* *GlobalQId holds the id of the queue                        *)
  seqRow,    (* fsp_seq_num of the pipe, far from its maximum               *)
  senderUp,  (* send_thrd is there; fixed by the initial state              *)
  pc,        (* where each service is: "idle" while log on or log off is    *)
             (* not called                                                  *)
  num,       (* the number in each service's message structure; for the     *)
             (* packing service in Q_packet                                 *)
  calls,     (* calls of log on and log off so far                          *)
  ends,      (* times the process ended                                     *)
  orders,    (* history: orders written to the queue                        *)
  stolen,    (* history: orders taken by a test read                        *)
  strays,    (* history: log on and log off messages taken by send_thrd     *)
  left       (* history: messages whose writer never came to its test read  *)

hist == <<orders, stolen, strays, left>>
vars == <<queue, qOpen, seqRow, senderUp, pc, num, calls, ends, orders, stolen,
          strays, left>>

Labels == {"down", "idle", "esr_status", "password", "login_row", "masters",
           "pipe_row", "sequence", "create_queue", "can_write", "pack", "write",
           "read_back"}

NoNumber == -2   (* the structure is all zeros *)
Refused  == -1   (* what a failed GetResetSequence returns *)

IsPacking(c) == Kind[c] = "order"

(* An operator named X_Bug is X with a planted bug: the README says which   *)
(* property each of them breaks.  None of them is part of Next.             *)

Started == [c \in Services |-> IF IsPacking(c) THEN "create_queue" ELSE "idle"]

Init ==
  /\ queue = <<>> /\ qOpen = FALSE /\ seqRow = 0
  /\ senderUp \in BOOLEAN
  /\ pc = Started
  /\ num = [c \in Services |-> NoNumber]
  /\ calls = 0 /\ ends = 0
  /\ orders = 0 /\ stolen = 0 /\ strays = 0 /\ left = 0

Goto(c, l) == pc' = [pc EXCEPT ![c] = l]

(* A check of a service passes to the next stage, or the service returns -1.*)
Check(c, l, passes, next) ==
  /\ pc[c] = l
  /\ Goto(c, IF passes THEN next ELSE "idle")
  /\ UNCHANGED <<queue, qOpen, seqRow, senderUp, num, calls, ends, hist>>

InReadBack == {c \in Services : pc[c] = "read_back"}

(***************************************************************************)
(* The process ends with all its goroutines.  The queue and the row of      *)
(* sequence numbers stay.                                                   *)
(***************************************************************************)
ProcessEnds ==
  /\ ends < MaxEnds
  /\ ends' = ends + 1
  /\ pc' = [c \in Services |-> "down"]
  /\ num' = [c \in Services |-> NoNumber]
  /\ qOpen' = FALSE
  /\ left' = left + Cardinality(InReadBack)
  /\ UNCHANGED <<queue, seqRow, senderUp, calls, orders, stolen, strays>>

Restart ==
  /\ \A c \in Services : pc[c] = "down"
  /\ pc' = Started
  /\ UNCHANGED <<queue, qOpen, seqRow, senderUp, num, calls, ends, hist>>

(***************************************************************************)
(* The stages of log on and log off before the sequence number.             *)
(***************************************************************************)
Call(c) ==
  /\ pc[c] = "idle"
  /\ calls < MaxCalls
  /\ calls' = calls + 1
  /\ Goto(c, IF Kind[c] = "log_on" THEN "esr_status" ELSE "pipe_row")
  /\ UNCHANGED <<queue, qOpen, seqRow, senderUp, num, ends, hist>>

(* Step 1 of log on: the exchange client must not be marked "N".  A missing *)
(* row leaves the status empty, and that passes.                            *)
EsrStatus(c) ==
  \E bps_stts \in {"Y", "N", ""} : Check(c, "esr_status", bps_stts # "N", "password")

(* Step 2: the query returns no row when the password has expired.  No row  *)
(* is no error of Scan, so the branch that changes the password is never    *)
(* entered and the log on goes on; only a failed query ends it.             *)
PasswordAge(c) ==
  \E failed \in {FALSE, MayFail} : Check(c, "password", ~failed, "login_row")

(* Step 3: a row, of the user the service was given, who is not logged in.  *)
LoginRow(c) ==
  \E found, sameUser, loggedIn \in BOOLEAN :
    Check(c, "login_row", found /\ sameUser /\ ~loggedIn, "masters")

(* Steps 4 and 5: the rows of both masters and the three settings, a trader *)
(* id, version and user type that are numbers.                              *)
Masters(c) ==
  \E rows, settings, numeric \in BOOLEAN :
    Check(c, "masters", rows /\ settings /\ numeric, "sequence")

(* Log off needs a row of the pipe and a trader id that is a number; a      *)
(* missing trade date passes, a failed query for it does not.               *)
LogOffRows(c) ==
  \E row, numeric \in BOOLEAN, failed \in {FALSE, MayFail} :
    Check(c, "pipe_row", row /\ numeric /\ ~failed, "sequence")

(***************************************************************************)
(* GetResetSequence: the row after the call and the number returned.  A     *)
(* failure may come before the update or after it.                          *)
(***************************************************************************)
GetResetSequence ==
  {[row |-> seqRow + 1, num |-> seqRow + 1]}
    \cup {[row |-> r, num |-> Refused] : r \in IF MayFail THEN {seqRow, seqRow + 1} ELSE {}}

(* Log on and log off put the result in their header unchecked.  They take  *)
(* it before they wait for room.                                            *)
TakeNumber(c) ==
  /\ pc[c] = "sequence"
  /\ seqRow < MaxNum
  /\ \E g \in GetResetSequence : seqRow' = g.row /\ num' = [num EXCEPT ![c] = g.num]
  /\ Goto(c, "create_queue")
  /\ UNCHANGED <<queue, qOpen, senderUp, calls, ends, hist>>

(* A failed CreateQueue ends a log off.  The other two log it and go on     *)
(* with *GlobalQId as it is.                                                *)
CreateQueue(c) ==
  /\ pc[c] = "create_queue"
  /\ \/ qOpen' = TRUE /\ Goto(c, "can_write")
     \/ /\ MayFail
        /\ qOpen' = qOpen
        /\ Goto(c, IF Kind[c] = "log_off" THEN "idle" ELSE "can_write")
  /\ UNCHANGED <<queue, seqRow, senderUp, num, calls, ends, hist>>

FnCanWriteToQueue_OneTooMany(c) ==
  /\ pc[c] = "can_write" /\ qOpen /\ Len(queue) <= QLimit
  /\ Goto(c, IF IsPacking(c) THEN "pack" ELSE "write")
  /\ UNCHANGED <<queue, qOpen, seqRow, senderUp, num, calls, ends, hist>>

(* Every service spins on this test while the queue is full or unknown.     *)
FnCanWriteToQueue(c) ==
  /\ pc[c] = "can_write"
  /\ qOpen
  /\ Len(queue) < QLimit
  /\ Goto(c, IF IsPacking(c) THEN "pack" ELSE "write")
  /\ UNCHANGED <<queue, qOpen, seqRow, senderUp, num, calls, ends, hist>>

PackOrder_Unchecked(c) ==
  /\ pc[c] = "pack"
  /\ seqRow < MaxNum
  /\ \E g \in GetResetSequence : seqRow' = g.row /\ num' = [num EXCEPT ![c] = g.num]
  /\ Goto(c, "write")
  /\ UNCHANGED <<queue, qOpen, senderUp, calls, ends, hist>>

(* An iteration of the packing service packs an order, whose packing fails  *)
(* without a number, or packs nothing.  In the last two cases Q_packet      *)
(* keeps the order before.                                                  *)
PackOrder(c) ==
  /\ pc[c] = "pack"
  /\ \/ /\ seqRow < MaxNum
        /\ \E g \in GetResetSequence :
              /\ seqRow' = g.row
              /\ num' = IF g.num = Refused THEN num ELSE [num EXCEPT ![c] = g.num]
     \/ UNCHANGED <<seqRow, num>>
  /\ Goto(c, "write")
  /\ UNCHANGED <<queue, qOpen, senderUp, calls, ends, hist>>

Message(c) == [kind |-> Kind[c], num |-> num[c], by |-> c]

WriteOrder_EmptyPacket(c) ==
  /\ pc[c] = "write" /\ IsPacking(c)
  /\ orders < MaxOrders
  /\ queue' = Append(queue, Message(c))
  /\ orders' = orders + 1
  /\ Goto(c, "can_write")
  /\ UNCHANGED <<qOpen, seqRow, senderUp, num, calls, ends, stolen, strays, left>>

(* The packing service writes Q_packet; a failure, which an all-zero packet *)
(* always is, ends the process.                                             *)
WriteOrder(c) ==
  /\ pc[c] = "write" /\ IsPacking(c)
  /\ \/ /\ num[c] # NoNumber
        /\ orders < MaxOrders
        /\ queue' = Append(queue, Message(c))
        /\ orders' = orders + 1
        /\ Goto(c, "can_write")
        /\ UNCHANGED <<qOpen, seqRow, senderUp, num, calls, ends, stolen, strays, left>>
     \/ (num[c] = NoNumber \/ MayFail) /\ ProcessEnds

WriteRequest_ReadsAnyway(c) ==
  /\ pc[c] = "write" /\ ~IsPacking(c)
  /\ \/ queue' = Append(queue, Message(c))
     \/ MayFail /\ queue' = queue
  /\ Goto(c, "read_back")
  /\ UNCHANGED <<qOpen, seqRow, senderUp, num, calls, ends, hist>>

(* Log on and log off write their message, or fail and return.              *)
WriteRequest(c) ==
  /\ pc[c] = "write" /\ ~IsPacking(c)
  /\ \/ queue' = Append(queue, Message(c)) /\ Goto(c, "read_back")
     \/ MayFail /\ queue' = queue /\ Goto(c, "idle")
  /\ UNCHANGED <<qOpen, seqRow, senderUp, num, calls, ends, hist>>

(***************************************************************************)
(* The test read at the end of log on and log off.  It blocks while the     *)
(* queue is empty, takes the message at its head and returns; an            *)
(* interrupted msgrcv takes nothing and returns -1.                         *)
(***************************************************************************)
ReadHead(c) ==
  /\ pc[c] = "read_back"
  /\ queue # <<>>
  /\ queue' = Tail(queue)
  /\ stolen' = IF Head(queue).kind = "order" THEN stolen + 1 ELSE stolen
  /\ Goto(c, "idle")
  /\ UNCHANGED <<qOpen, seqRow, senderUp, num, calls, ends, orders, strays, left>>

ReadInterrupted(c) ==
  /\ pc[c] = "read_back"
  /\ MayFail
  /\ left' = left + 1
  /\ Goto(c, "idle")
  /\ UNCHANGED <<queue, qOpen, seqRow, senderUp, num, calls, ends, orders, stolen, strays>>

ReadBack(c) == ReadHead(c) \/ ReadInterrupted(c)

(* send_thrd sends orders on and drops the rest.                            *)
SendThrd ==
  /\ senderUp /\ qOpen
  /\ queue # <<>>
  /\ queue' = Tail(queue)
  /\ strays' = IF Head(queue).kind = "order" THEN strays ELSE strays + 1
  /\ UNCHANGED <<qOpen, seqRow, senderUp, pc, num, calls, ends, orders, stolen, left>>

(***************************************************************************)
(* Specification.                                                           *)
(***************************************************************************)
Next ==
  \/ \E c \in Services :
       \/ Call(c) \/ EsrStatus(c) \/ PasswordAge(c) \/ LoginRow(c)
       \/ Masters(c) \/ LogOffRows(c) \/ TakeNumber(c) \/ CreateQueue(c) \/ FnCanWriteToQueue(c)
       \/ PackOrder(c) \/ WriteOrder(c) \/ WriteRequest(c) \/ ReadBack(c)
  \/ SendThrd \/ ProcessEnds \/ Restart

Spec == Init /\ [][Next]_vars

(* A goroutine blocked in msgrcv is woken when there is a message for it.   *)
(* Nothing is assumed of interruptions.                                     *)
FairSpec == Spec /\ \A c \in Services : WF_vars(ReadHead(c))

(***************************************************************************)
(* Invariants.                                                              *)
(***************************************************************************)

Messages == [kind : Kinds, num : Nat \cup {Refused}, by : Services]

(* The type of every variable; no message carries an all-zero packet.       *)
TypeOK ==
  /\ queue \in Seq(Messages)
  /\ qOpen \in BOOLEAN
  /\ seqRow \in Nat
  /\ senderUp \in BOOLEAN
  /\ pc \in [Services -> Labels]
  /\ num \in [Services -> Nat \cup {Refused, NoNumber}]
  /\ \A c \in Services : IsPacking(c) => num[c] # Refused
  /\ calls \in Nat /\ ends \in Nat /\ orders \in Nat
  /\ stolen \in Nat /\ strays \in Nat /\ left \in Nat

(* The test of the queue and the write are two system calls, so the limit   *)
(* of FnCanWriteToQueue is exceeded, by one message for every other service *)
(* that may have seen the last free place, and by no more.                  *)
QueueOverrun == Len(queue) <= QLimit + Cardinality(Services) - 1

(* A test read that takes an order leaves a log on or log off message for   *)
(* send_thrd in its place.  Requests in the queue or dropped by send_thrd   *)
(* balance the orders stolen and the test reads that are still to come or   *)
(* never came, whatever the interleaving.                                   *)
Requests == {i \in 1 .. Len(queue) : queue[i].kind # "order"}

StolenOrdersLeaveRequests ==
  Cardinality(Requests) + strays = stolen + Cardinality(InReadBack) + left

(* A test read that finds no message in the queue has lost one to           *)
(* send_thrd: such reads, the orders taken in place of a request and the    *)
(* requests whose writer never read them are together covered by the        *)
(* messages in the queue and the requests send_thrd dropped.  Without       *)
(* send_thrd no test read blocks.                                           *)
BlockedReadsHaveCauses ==
  Cardinality(InReadBack) - Len(queue) <= strays - stolen - left

(* A sequence number names one message: two messages in the queue with the  *)
(* same number are copies of one Q_packet, and a number not yet written is  *)
(* in no other message.  Only requests carry -1.                            *)
Holding(c) == IsPacking(c) \/ pc[c] \in {"create_queue", "can_write", "write"}

NumbersIdentify ==
  /\ \A i, j \in 1 .. Len(queue) :
        queue[i].num = queue[j].num /\ i # j /\ queue[i].num # Refused
          => queue[i].by = queue[j].by /\ queue[i].kind = "order"
  /\ \A i \in 1 .. Len(queue), c \in Services :
        Holding(c) /\ num[c] = queue[i].num /\ num[c] # Refused
          => queue[i].by = c /\ IsPacking(c)
  /\ \A i \in 1 .. Len(queue) : queue[i].kind = "order" => queue[i].num # Refused

(***************************************************************************)
(* Liveness.                                                                *)
(***************************************************************************)

(* The blocking test read of log on or log off returns, or it finds the      *)
(* queue emptied, and then send_thrd has dropped more requests than test     *)
(* reads have taken orders.  Without send_thrd it always returns; with it,   *)
(* a test read that waits for ever has lost its message to send_thrd.        *)
ReadBackReturns ==
  \A c \in Services :
    (pc[c] = "read_back") ~> (pc[c] # "read_back" \/ (queue = <<>> /\ strays > stolen))
================================================================================
