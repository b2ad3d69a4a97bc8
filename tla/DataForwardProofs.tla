--------------------------- MODULE DataForwardProofs ---------------------------
(***************************************************************************)
(* The program implements Delivery, for every value of its constants.       *)
(*                                                                          *)
(* The packing service keeps its invariant in the composition, where the    *)
(* exchange client is the one that receives: a failed dial ends the process *)
(* like a crash (MayCrash <- TRUE).  What the exchange client holds and has *)
(* sent is marked in the exchange book (HandedOver), so that the status of  *)
(* an order is read off its row, off sent and off the places that hold it   *)
(* (StatusIs).  All steps but three either leave every status as it is or   *)
(* lose orders (QuietStep).                                                 *)
(***************************************************************************)
EXTENDS DataForward, TLAPS

Books == INSTANCE PackClientLossProofs WITH MayCrash <- TRUE

Seqs == 1 .. MaxSeq

Marked(s) == fxb[s].stts \in {"Q", "J"}

(* Where a marked order may still be on its way.                            *)
HeldByPack(s) == s \in {rec, pkt} \/ s \in Range(queue)
Held(s)       == s = cur \/ HeldByPack(s)

(* The order in fn_writen is the last received; what was sent is not newer. *)
HandedOver ==
  /\ sent \subseteq Seqs
  /\ spc = "write" => cur # 0
  /\ cur # 0 => cur = lastRead
  /\ \A s \in sent : Marked(s) /\ s <= lastRead
  /\ sent = {} \/ \E s \in sent : \A t \in sent : t <= s

(* A process without its packing service is gone altogether.                *)
OneProcess == pc = "down" => epc = "down"

IInv == Books!IInv /\ OneProcess /\ HandedOver

(***************************************************************************)
(* The packing service inside the composition.                              *)
(***************************************************************************)

(* The constants are as the theorems on the packing service assume.         *)
LEMMA BooksConstants == Books!ConstantsAssumption
BY ConstantsAssumption
   DEF ConstantsAssumption, Pack!ConstantsAssumption, Books!ConstantsAssumption,
       Pack!Kinds, Books!Kinds

(* The service is the one the theorems on the packing service speak of.     *)
LEMMA SameService == Pack!Service => Books!Service
<1> USE DEF Pack!book, Books!book, Pack!memory, Books!memory, Pack!hist, Books!hist,
            Pack!Goto, Books!Goto
<1>0. Pack!Die => Books!Die
  BY DEF Pack!Die, Books!Die
<1>1. Pack!CreateQueue => Books!CreateQueue
  BY DEF Pack!CreateQueue, Books!CreateQueue
<1>2. Pack!Fn_bat_init => Books!Fn_bat_init
  BY <1>0 DEF Pack!Fn_bat_init, Books!Fn_bat_init
<1>3. Pack!FnCanWriteToQueue => Books!FnCanWriteToQueue
  BY DEF Pack!FnCanWriteToQueue, Books!FnCanWriteToQueue
<1>4. Pack!FnBeginTran => Books!FnBeginTran
  BY <1>0 DEF Pack!FnBeginTran, Books!FnBeginTran, Pack!LocalTran, Books!LocalTran,
              Pack!RemoteTran, Books!RemoteTran
<1>5. Pack!fnSeqToOmd => Books!fnSeqToOmd
  BY DEF Pack!fnSeqToOmd, Books!fnSeqToOmd, Pack!Requested, Books!Requested,
         Pack!IsNextRequested, Books!IsNextRequested, Pack!SkippedKinds, Books!SkippedKinds
<1>6. Pack!fnRefToOrd => Books!fnRefToOrd
  BY DEF Pack!fnRefToOrd, Books!fnRefToOrd, Pack!CountersMatch, Books!CountersMatch
<1>7. Pack!fnUpdXchngbk => Books!fnUpdXchngbk
  BY DEF Pack!fnUpdXchngbk, Books!fnUpdXchngbk, Pack!SetPlcdStts, Books!SetPlcdStts,
         Pack!Seqs, Books!Seqs
<1>8. Pack!fnUpdOrdrbk => Books!fnUpdOrdrbk
  BY DEF Pack!fnUpdOrdrbk, Books!fnUpdOrdrbk
<1>9. Pack!fnGetExtCnt => Books!fnGetExtCnt
  BY DEF Pack!fnGetExtCnt, Books!fnGetExtCnt
<1>10. Pack!fnRjctRcrd => Books!fnRjctRcrd
  BY DEF Pack!fnRjctRcrd, Books!fnRjctRcrd, Pack!SetPlcdStts, Books!SetPlcdStts,
         Pack!Seqs, Books!Seqs
<1>11. Pack!FnPackOrdnryOrdToNse => Books!FnPackOrdnryOrdToNse
  BY <1>0 DEF Pack!FnPackOrdnryOrdToNse, Books!FnPackOrdnryOrdToNse,
              Pack!AtMostTwo, Books!AtMostTwo
<1>12. Pack!FnCommitTran => Books!FnCommitTran
  BY <1>0 DEF Pack!FnCommitTran, Books!FnCommitTran, Pack!LocalTran, Books!LocalTran
<1>13. Pack!FnAbortTran => Books!FnAbortTran
  BY <1>0 DEF Pack!FnAbortTran, Books!FnAbortTran
<1>14. Pack!WriteToQueue => Books!WriteToQueue
  BY <1>0 DEF Pack!WriteToQueue, Books!WriteToQueue, Pack!AtMostTwo, Books!AtMostTwo
<1>15. QED
  BY <1>1, <1>2, <1>3, <1>4, <1>5, <1>6, <1>7, <1>8, <1>9, <1>10, <1>11, <1>12, <1>13, <1>14
     DEF Pack!Service, Books!Service

(* Every step of the program is a step of the packing service or of its     *)
(* environment.                                                             *)
LEMMA PackStep ==
  ASSUME OneProcess, [Next]_vars
  PROVE  [Books!Next]_(Books!vars)
<1> USE DEF Pack!book, Books!book, Pack!memory, Books!memory, Pack!hist, Books!hist,
            Pack!Goto, Books!Goto
<1>1. CASE UNCHANGED <<packVars, sharedVars>>
  BY <1>1 DEF packVars, sharedVars, Books!vars
<1>2. CASE PackingService
  BY <1>2, SameService DEF PackingService, Books!Next
<1>3. CASE Pack!Die /\ Client!Dial
  <2>1. pc # "down"
    BY <1>3 DEF OneProcess, Client!Dial
  <2>2. Books!Crash
    BY <1>3, <2>1 DEF Pack!Die, Books!Die, Books!Crash
  <2>3. QED
    BY <2>2 DEF Books!Next
<1>4. CASE Pack!Receive
  BY <1>4 DEF Pack!Receive, Books!Receive, Books!Next
<1>5. CASE Oms
  <2>1. Books!Oms
    BY <1>5 DEF Oms, Pack!Oms, Books!Oms, Pack!PlaceOrder, Books!PlaceOrder,
                Pack!ModifyOrder, Books!ModifyOrder
  <2>2. QED
    BY <2>1 DEF Books!Next
<1>6. CASE Crash
  BY <1>6 DEF Crash, Pack!Crash, Pack!Die, Books!Crash, Books!Die, Books!Next
<1>7. CASE Restart
  BY <1>7 DEF Restart, Pack!Restart, Books!Restart, Books!Next
<1>8. QED
  BY <1>1, <1>2, <1>3, <1>4, <1>5, <1>6, <1>7
     DEF Next, Dial, SendThrd, TakeOrder, RcvThrd, ClnEsrClnt, Exchange, vars, packVars,
         sharedVars

(* The end of the packing service is the end of the exchange client.        *)
LEMMA OneProcessStep ==
  ASSUME Books!TypeOK, OneProcess, [Next]_vars
  PROVE  OneProcess'
<1>1. CASE UNCHANGED <<pc, epc>>
  BY <1>1 DEF OneProcess
<1>2. CASE PackingService
  BY <1>2 DEF PackingService, OneProcess, Client!Die
<1>3. CASE Dial
  <2>1. CASE UNCHANGED packVars
    BY <1>3, <2>1 DEF Dial, OneProcess, Client!Dial, packVars
  <2>2. CASE Pack!Die /\ Client!Dial
    <3>1. deaths' = deaths + 1 /\ deaths \in Nat
      BY <2>2 DEF Pack!Die, Books!TypeOK
    <3>2. QED
      BY <2>2, <3>1 DEF OneProcess, Client!Dial, Client!Die
  <2>3. QED
    BY <1>3, <2>1, <2>2 DEF Dial
<1>4. CASE Crash
  BY <1>4 DEF Crash, OneProcess, Client!ProcessEnds, Client!Die
<1>5. CASE Restart
  BY <1>5 DEF Restart, Pack!Restart, Pack!Goto, OneProcess
<1>6. CASE SendThrd
  BY <1>6, <1>1 DEF SendThrd, TakeOrder, Pack!Receive, Client!TakeOrder, Client!WriteSome,
                    Client!ReadGlobalQId, Client!WriteTimesOut, Client!WriteFails, packVars
<1>7. CASE RcvThrd
  BY <1>7, <1>1 DEF RcvThrd, Client!RcvThrd, Client!readNBytes, Client!ReadFails, packVars
<1>8. CASE Exchange
  BY <1>8, <1>1 DEF Exchange, Client!PeerCloses, Client!FrameArrives, packVars
<1>9. CASE Oms
  BY <1>9, <1>1 DEF Oms, Pack!Oms, Pack!PlaceOrder, Pack!ModifyOrder, clientVars
<1>10. CASE ClnEsrClnt
  BY <1>10 DEF ClnEsrClnt, OneProcess, Client!ClnEsrClnt, packVars
<1>11. QED
  BY <1>1, <1>2, <1>3, <1>4, <1>5, <1>6, <1>7, <1>8, <1>9, <1>10
     DEF Next, vars, packVars, clientVars

(***************************************************************************)
(* What the exchange client holds and has sent.                             *)
(***************************************************************************)

(* send_thrd takes the order the books call received.                       *)
LEMMA TakesTheHead ==
  ASSUME Books!TypeOK, TakeOrder
  PROVE  /\ queue # <<>> /\ queue[1] \in Seqs
         /\ queue' = Tail(queue)
         /\ lastRead' = queue[1] /\ cur' = queue[1]
         /\ UNCHANGED <<fxb, nRows, rec, pkt, sent>>
<1>1. queue # <<>> /\ queue \in Seq(Seqs)
  BY DEF TakeOrder, Pack!Receive, Books!TypeOK, Books!Seqs, Seqs
<1>2. queue[1] \in Seqs /\ lastRead' = queue[1] /\ queue' = Tail(queue)
  BY <1>1 DEF TakeOrder, Pack!Receive
<1>3. cur' = queue[1]
  <2> DEFINE messages == [k \in 1 .. Len(queue) |-> [id |-> queue[k], type |-> "order"]]
  <2>1. cur' = Head(messages).id
    BY DEF TakeOrder, Client!TakeOrder
  <2>2. 1 \in 1 .. Len(queue)
    BY <1>1
  <2>3. messages \in Seq([id : Seqs, type : {"order"}])
    BY <1>1
  <2>4. messages[1].id = queue[1]
    BY <2>2
  <2>5. Head(messages) = messages[1]
    BY <2>2, <2>3
  <2>6. QED
    BY <2>1, <2>4, <2>5
<1>4. UNCHANGED <<fxb, nRows, rec, pkt, sent>>
  BY DEF TakeOrder, Pack!Receive, Client!TakeOrder, Pack!book, Pack!memory
<1>5. QED
  BY <1>1, <1>2, <1>3, <1>4

(* fn_writen has written the last unit of its order.                        *)
Finishes ==
  /\ spc = "write" /\ spc' = "read"
  /\ sent' = sent \cup {cur} /\ cur' = 0
  /\ UNCHANGED <<packVars, sharedVars>>

(* Otherwise the order in hand stays or is dropped, and nothing is sent.    *)
Keeps ==
  /\ UNCHANGED <<sent, lastRead>>
  /\ cur' \in {0, cur}
  /\ spc' = "write" => spc = "write" /\ cur' = cur

(* The packing service receives nothing.                                    *)
LEMMA ServiceReceivesNothing == Pack!Service => UNCHANGED lastRead
BY DEF Pack!Service, Pack!CreateQueue, Pack!Fn_bat_init, Pack!FnCanWriteToQueue,
       Pack!FnBeginTran, Pack!fnSeqToOmd, Pack!fnRefToOrd, Pack!fnUpdXchngbk, Pack!fnUpdOrdrbk,
       Pack!fnGetExtCnt, Pack!fnRjctRcrd, Pack!FnPackOrdnryOrdToNse, Pack!FnCommitTran,
       Pack!FnAbortTran, Pack!WriteToQueue, Pack!Die, Pack!hist

(* What a step does to the order in fn_writen.                              *)
LEMMA ClientSteps ==
  ASSUME Books!TypeOK, [Next]_vars
  PROVE  TakeOrder \/ Finishes \/ Keeps
<1>1. CASE PackingService
  <2>1. UNCHANGED lastRead
    BY <1>1, ServiceReceivesNothing DEF PackingService
  <2>2. QED
    BY <1>1, <2>1 DEF PackingService, Keeps, Client!Die, clientVars
<1>2. CASE Dial
  BY <1>2 DEF Dial, Keeps, Client!Dial, Client!Die, Pack!Die, packVars
<1>3. CASE SendThrd
  <2>1. CASE TakeOrder
    BY <2>1
  <2>2. ASSUME UNCHANGED <<packVars, sharedVars>>, NEW n \in 1 .. MsgLen, Client!WriteSome(n)
        PROVE  Finishes \/ Keeps
    BY <2>2 DEF Client!WriteSome, Client!FinishOrder, Finishes, Keeps, packVars
  <2>3. CASE UNCHANGED <<packVars, sharedVars>> /\ Client!WriteFails
    BY <2>3 DEF Client!WriteFails, Keeps, packVars
  <2>4. CASE UNCHANGED <<packVars, sharedVars>> /\ Client!ReadGlobalQId
    BY <2>4 DEF Client!ReadGlobalQId, Keeps, packVars
  <2>5. ASSUME UNCHANGED <<packVars, sharedVars>>, NEW n \in 1 .. MsgLen, Client!WriteTimesOut(n)
        PROVE  Keeps
    BY <2>5 DEF Client!WriteTimesOut, Client!svars, Keeps, packVars
  <2>6. QED
    BY <1>3, <2>1, <2>2, <2>3, <2>4, <2>5 DEF SendThrd
<1>4. CASE RcvThrd
  BY <1>4 DEF RcvThrd, Client!RcvThrd, Client!readNBytes, Client!ReadFails, Client!svars,
              packVars, Keeps
<1>5. CASE ClnEsrClnt
  BY <1>5 DEF ClnEsrClnt, Client!ClnEsrClnt, Client!svars, packVars, Keeps
<1>6. CASE Oms
  BY <1>6 DEF Oms, Pack!Oms, Pack!PlaceOrder, Pack!ModifyOrder, Pack!hist, clientVars, Keeps
<1>7. CASE Exchange
  BY <1>7 DEF Exchange, Client!PeerCloses, Client!FrameArrives, Client!svars, packVars, Keeps
<1>8. CASE Crash
  BY <1>8 DEF Crash, Pack!Crash, Pack!Die, Client!ProcessEnds, Client!Die, Keeps
<1>9. CASE Restart
  BY <1>9 DEF Restart, Pack!Restart, Pack!hist, Client!Restart, Client!svars, Keeps
<1>10. CASE UNCHANGED vars
  BY <1>10 DEF vars, packVars, clientVars, Keeps
<1>11. QED
  BY <1>1, <1>2, <1>3, <1>4, <1>5, <1>6, <1>7, <1>8, <1>9, <1>10 DEF Next

(* A marked row stays marked.                                               *)
LEMMA MarksKept ==
  ASSUME Books!IInv, OneProcess, [Next]_vars, NEW s \in Seqs
  PROVE  Marked(s) => Marked(s)'
<1>1. Books!BookInv
  BY DEF Books!IInv, Books!BookInv
<1>2. [Books!Next]_(Books!vars)
  BY PackStep
<1>3. Books!Marked(s) => Books!Marked(s)'
  BY <1>1, <1>2, BooksConstants, Books!MarksStay DEF Seqs, Books!Seqs
<1>4. QED
  BY <1>3 DEF Marked, Books!Marked

(* The order in hand is a marked row of the book.                           *)
LEMMA CurIsMarked ==
  ASSUME IInv
  PROVE  cur # 0 => cur \in Seqs /\ Marked(cur) /\ cur = lastRead
BY DEF IInv, HandedOver, Books!IInv, Books!TypeOK, Books!QueuedIsMarked, Books!Seqs, Seqs,
       Marked, Books!Marked

(* Sending, receiving and losing keep what was sent below what was received.*)
LEMMA HandedOverStep ==
  ASSUME IInv, [Next]_vars
  PROVE  HandedOver'
<1>1. Books!TypeOK /\ Books!IInv /\ OneProcess /\ HandedOver
  BY DEF IInv, Books!IInv
<1>2. \A s \in Seqs : Marked(s) => Marked(s)'
  BY <1>1, MarksKept
<1>3. CASE TakeOrder
  <2>1. queue[1] \in Seqs /\ lastRead' = queue[1] /\ cur' = queue[1] /\ sent' = sent
    BY <1>1, <1>3, TakesTheHead
  <2>2. lastRead <= queue[1] /\ lastRead \in Seqs \cup {0}
    <3>1. queue # <<>> /\ queue \in Seq(Seqs)
      BY <1>1, <1>3, TakesTheHead DEF Books!TypeOK, Books!Seqs, Seqs
    <3>2. 1 \in 1 .. Len(queue)
      BY <3>1
    <3>3. QED
      BY <1>1, <3>2 DEF Books!IInv, Books!OrderPreserved, Books!TypeOK, Books!Seqs, Seqs
  <2>3. \A s \in sent : s <= queue[1]
    BY <1>1, <2>1, <2>2, BooksConstants DEF HandedOver, Seqs, Books!ConstantsAssumption
  <2>4. QED
    BY <1>1, <1>2, <2>1, <2>3 DEF HandedOver, Seqs
<1>4. CASE Finishes
  <2>1. cur # 0 /\ cur = lastRead
    BY <1>1, <1>4 DEF Finishes, HandedOver
  <2>2. cur \in Seqs /\ Marked(cur)
    BY <2>1, CurIsMarked
  <2>3. lastRead' = lastRead /\ cur' = 0 /\ spc' = "read" /\ sent' = sent \cup {cur}
    BY <1>4 DEF Finishes, packVars
  <2>4. \A s \in sent' : s \in Seqs /\ Marked(s)' /\ s <= cur
    BY <1>1, <1>2, <2>1, <2>2, <2>3 DEF HandedOver, Seqs
  <2>5. cur \in sent'
    BY <2>3
  <2>6. QED
    BY <2>1, <2>3, <2>4, <2>5 DEF HandedOver
<1>5. CASE Keeps
  <2>1. \A s \in sent' : Marked(s)'
    BY <1>1, <1>2, <1>5 DEF Keeps, HandedOver
  <2>2. QED
    BY <1>1, <2>1, <1>5 DEF Keeps, HandedOver
<1>6. QED
  BY <1>1, <1>3, <1>4, <1>5, ClientSteps

(* The packing service starts as it does on its own.                        *)
LEMMA BooksInit == Init => Books!Init
BY DEF Init, Pack!Init, Books!Init, Pack!Seqs, Books!Seqs, Pack!NoRow, Books!NoRow,
       Pack!NoRef, Books!NoRef

(* The invariant of the refinement is inductive.                            *)
LEMMA InvInit == Init => IInv
<1> SUFFICES ASSUME Init PROVE IInv
  OBVIOUS
<1>1. Books!Init
  BY BooksInit
<1>2. Books!IInv
  BY <1>1, BooksConstants, Books!InvInit
<1>3. OneProcess /\ HandedOver
  BY DEF Init, Pack!Init, Client!Init, OneProcess, HandedOver
<1>4. QED
  BY <1>2, <1>3 DEF IInv

(* Every step of the program preserves it.                                  *)
LEMMA InvNext == IInv /\ [Next]_vars => IInv'
<1> SUFFICES ASSUME IInv, [Next]_vars PROVE IInv'
  OBVIOUS
<1>1. Books!IInv /\ Books!TypeOK /\ OneProcess
  BY DEF IInv, Books!IInv
<1>2. [Books!Next]_(Books!vars)
  BY <1>1, PackStep
<1>3. Books!IInv'
  BY <1>1, <1>2, BooksConstants, Books!InvNext
<1>4. OneProcess'
  BY <1>1, OneProcessStep
<1>5. HandedOver'
  BY HandedOverStep
<1>6. QED
  BY <1>3, <1>4, <1>5 DEF IInv

(* Nothing the exchange client or the exchange does makes the packing       *)
(* service do what it could not do with any other receiver: the program     *)
(* implements the service, with a failed dial for one more crash.           *)
THEOREM ImplementsPackClient == Spec => Books!Spec
<1>1. IInv /\ [Next]_vars => [Books!Next]_(Books!vars)
  BY PackStep DEF IInv
<1>2. QED
  BY <1>1, BooksInit, InvInit, InvNext, PTL DEF Spec, Books!Spec

(* So what is proved of the packing service alone holds in the program.     *)
THEOREM ServiceKeepsItsPromises ==
  Spec => /\ [](Books!QueueBounded /\ Books!PackedAtMostOnce /\ Books!OrderPreserved)
          /\ [](Books!OnlyStalePacketsRepeat /\ Books!LossBounded)
          /\ []Books!DisagreementsHaveCauses
          /\ Books!StarvedForEver
<1>1. Books!Spec => [](Books!QueueBounded /\ Books!PackedAtMostOnce /\ Books!OrderPreserved)
  BY BooksConstants, Books!QueueIsBounded, Books!NoOrderIsPackedTwice,
     Books!OrdersKeepTheirSequence, PTL
<1>2. Books!Spec => [](Books!OnlyStalePacketsRepeat /\ Books!LossBounded)
  BY BooksConstants, Books!RepetitionsAreStale, Books!LossesHaveCauses, PTL
<1>3. Books!Spec => []Books!DisagreementsHaveCauses
  BY BooksConstants, Books!OneDisagreementPerEnd, PTL
<1>4. Books!Spec => Books!StarvedForEver
  BY BooksConstants, Books!StarvationIsForGood, PTL
<1>5. QED
  BY <1>1, <1>2, <1>3, <1>4, ImplementsPackClient, PTL

(***************************************************************************)
(* The status of an order.                                                  *)
(***************************************************************************)

(* The row of an order decides first, when what is held and sent is marked. *)
StatusOf(s) ==
  IF fxb[s].stts = "none" THEN "none"
  ELSE IF fxb[s].stts = "R" THEN "requested"
  ELSE IF s \in sent THEN "forwarded"
  ELSE IF Held(s) THEN "in_flight"
  ELSE "lost"

(* What the queue and the exchange client hold, and what was sent, is       *)
(* marked.                                                                  *)
LEMMA StatusIs == IInv => \A s \in Seqs : Status(s) = StatusOf(s)
<1> SUFFICES ASSUME IInv, NEW s \in Seqs PROVE Status(s) = StatusOf(s)
  OBVIOUS
<1>1. s \in sent => Marked(s)
  BY DEF IInv, HandedOver
<1>2. s = cur => Marked(s)
  BY CurIsMarked DEF Seqs
<1>3. s \in Range(queue) => Marked(s)
  BY DEF IInv, Books!IInv, Books!TypeOK, Books!QueuedIsMarked, Books!Marked, Marked, Range
<1>4. Marked(s) => fxb[s].stts # "none" /\ fxb[s].stts # "R"
  BY DEF Marked
<1>5. QED
  BY <1>1, <1>2, <1>3, <1>4 DEF Status, StatusOf, Held, HeldByPack

(* The same after a step.                                                   *)
LEMMA StatusIsAfter == IInv' => \A s \in Seqs : Status(s)' = StatusOf(s)'
<1>1. (IInv => \A s \in Seqs : Status(s) = StatusOf(s))'
  BY StatusIs, PTL
<1>2. QED
  BY <1>1

(* The row of an order is requested, marked or empty before and after.      *)
SameRow(s) == fxb'[s].stts = fxb[s].stts \/ (Marked(s) /\ Marked(s)')

(* A step that sends nothing, marks no requested row, and brings no marked  *)
(* order back into the places that hold orders, loses orders or changes     *)
(* nothing the abstract specification can see.                              *)
LEMMA QuietStep ==
  ASSUME IInv, IInv', UNCHANGED sent,
         \A s \in Seqs : SameRow(s) /\ (Marked(s) /\ Held(s)' => Held(s))
  PROVE  Promise!Next
<1> DEFINE dropped == {s \in Seqs : Status(s) = "in_flight" /\ Status(s)' = "lost"}
<1>1. ASSUME NEW s \in Seqs, s \notin dropped PROVE Status(s)' = Status(s)
  <2>1. Status(s) = StatusOf(s) /\ Status(s)' = StatusOf(s)'
    BY StatusIs, StatusIsAfter
  <2>2. ~(Status(s) = "in_flight" /\ Status(s)' = "lost")
    BY <1>1
  <2>3. fxb[s].stts \in {"none", "R", "Q", "J"}
    BY DEF IInv, Books!IInv, Books!TypeOK, Books!Rows, Books!Seqs, Seqs
  <2>4. QED
    BY <2>1, <2>2, <2>3 DEF SameRow, Marked, StatusOf
<1>2. Statuses' = [o \in Promise!Orders |-> IF o \in dropped THEN "lost" ELSE Statuses[o]]
  BY <1>1 DEF Statuses, Promise!Orders, Seqs
<1>3. \A o \in dropped : Statuses[o] = "in_flight"
  BY DEF Statuses, Seqs
<1>4. LastForwarded' = LastForwarded
  BY DEF LastForwarded
<1>5. Promise!Lose(dropped)
  BY <1>2, <1>3, <1>4 DEF Promise!Lose
<1>6. QED
  BY <1>5 DEF Promise!Next, Promise!Orders, Seqs

(***************************************************************************)
(* The steps of the packing service.                                        *)
(***************************************************************************)

(* The update of fnUpdXchngbk that succeeds.                                *)
Marks == Books!fnUpdXchngbk /\ ~UNCHANGED fxb

(* Every other step of the service brings no marked order back.             *)
LEMMA ServiceIsQuiet ==
  ASSUME Books!IInv, Books!Service, ~Marks, NEW s \in Seqs
  PROVE  SameRow(s) /\ (Marked(s) /\ HeldByPack(s)' => HeldByPack(s))
<1> USE DEF Books!book, Books!memory, Books!hist
<1>1. CASE UNCHANGED <<fxb, queue>> /\ rec' \in {rec, 0} /\ pkt' \in {pkt, 0}
  BY <1>1 DEF SameRow, HeldByPack, Seqs
<1>2. Books!Die => UNCHANGED <<fxb, queue>> /\ rec' \in {rec, 0} /\ pkt' \in {pkt, 0}
  BY DEF Books!Die
<1>3. CASE \/ Books!CreateQueue \/ Books!Fn_bat_init \/ Books!FnCanWriteToQueue
           \/ Books!FnBeginTran \/ Books!fnRefToOrd \/ Books!fnUpdOrdrbk \/ Books!fnGetExtCnt
           \/ Books!FnCommitTran \/ Books!FnAbortTran
  BY <1>1, <1>2, <1>3
     DEF Books!CreateQueue, Books!Fn_bat_init, Books!FnCanWriteToQueue, Books!FnBeginTran,
         Books!fnRefToOrd, Books!fnUpdOrdrbk, Books!fnGetExtCnt, Books!FnCommitTran,
         Books!FnAbortTran
<1>4. CASE Books!fnSeqToOmd
  <2>1. UNCHANGED <<fxb, queue, pkt>> /\ (rec' = rec \/ fxb[rec'].stts = "R")
    BY <1>4 DEF Books!fnSeqToOmd, Books!Requested
  <2>2. QED
    BY <2>1 DEF SameRow, HeldByPack, Marked
<1>5. CASE Books!fnUpdXchngbk
  BY <1>1, <1>5 DEF Marks, Books!fnUpdXchngbk
<1>6. CASE Books!fnRjctRcrd
  <2>1. UNCHANGED <<queue, rec, pkt>>
    BY <1>6 DEF Books!fnRjctRcrd
  <2>2. CASE UNCHANGED fxb
    BY <1>1, <2>1, <2>2
  <2>3. CASE Books!SetPlcdStts("J")
    <3>1. fxb' = [fxb EXCEPT ![rec].stts = "J"]
      BY <2>3, <1>6, BooksConstants, Books!MarksTheRecord
         DEF Books!IInv, Books!RecordInHand, Books!ToBePacked, Books!fnRjctRcrd
    <3>2. Marked(rec)
      BY <1>6 DEF Books!IInv, Books!RecordInHand, Books!ToBePacked, Books!fnRjctRcrd,
                  Books!Marked, Marked
    <3>3. s # rec => fxb'[s] = fxb[s]
      BY <3>1
    <3>4. s = rec => fxb'[s].stts = "J"
      BY <3>1 DEF Books!IInv, Books!TypeOK, Books!Rows, Books!Seqs, Seqs
    <3>5. QED
      BY <2>1, <3>2, <3>3, <3>4 DEF SameRow, HeldByPack, Marked
  <2>4. QED
    BY <1>6, <2>2, <2>3 DEF Books!fnRjctRcrd
<1>7. CASE Books!FnPackOrdnryOrdToNse
  <2>1. UNCHANGED <<fxb, queue>> /\ rec' \in {rec, 0} /\ pkt' \in {pkt, rec, 0}
    BY <1>2, <1>7 DEF Books!FnPackOrdnryOrdToNse
  <2>2. QED
    BY <2>1 DEF SameRow, HeldByPack, Seqs
<1>8. CASE Books!WriteToQueue
  <2>1. CASE Books!Die
    BY <1>1, <1>2, <2>1
  <2>2. CASE ~Books!Die
    <3>1. UNCHANGED <<fxb, pkt>> /\ rec' = 0 /\ queue' = Append(queue, pkt)
      BY <1>8, <2>2 DEF Books!WriteToQueue
    <3>2. queue \in Seq(Seqs) /\ pkt \in Seqs \cup {0}
      BY DEF Books!IInv, Books!TypeOK, Books!Seqs, Seqs
    <3>3. s \in Range(queue)' => s = pkt \/ s \in Range(queue)
      BY <3>1, <3>2 DEF Range
    <3>4. QED
      BY <3>1, <3>3 DEF SameRow, HeldByPack, Seqs
  <2>3. QED
    BY <2>1, <2>2
<1>9. QED
  BY <1>3, <1>4, <1>5, <1>6, <1>7, <1>8 DEF Books!Service

(***************************************************************************)
(* The three steps that do more than lose orders.                           *)
(***************************************************************************)

(* fnUpdXchngbk marks the record in hand: the oldest requested order is     *)
(* taken.                                                                   *)
LEMMA MarkingTakes ==
  ASSUME IInv, IInv', Marks, UNCHANGED clientVars
  PROVE  Promise!Next
<1>1. Books!IInv /\ Books!TypeOK /\ HandedOver
  BY DEF IInv, Books!IInv
<1>2. rec \in 1 .. nRows /\ Books!IsNextRequested(rec) /\ Books!SetPlcdStts("Q")
      /\ UNCHANGED <<queue, rec, pkt, nRows>>
  BY <1>1 DEF Marks, Books!IInv, Books!RecordInHand, Books!ToBeMarked, Books!fnUpdXchngbk,
              Books!memory
<1>3. fxb' = [fxb EXCEPT ![rec].stts = "Q"]
  BY <1>1, <1>2, BooksConstants, Books!MarksTheRecord DEF Books!IInv
<1>4. rec \in Seqs /\ 1 .. nRows \subseteq Seqs
  BY <1>1, <1>2, BooksConstants, Books!RowsAreSeqs DEF Seqs, Books!Seqs
<1>5. fxb[rec].stts = "R" /\ fxb'[rec].stts = "Q"
  BY <1>1, <1>2, <1>3, <1>4 DEF Books!IsNextRequested, Books!Requested, Books!TypeOK,
                                Books!Rows, Books!Seqs, Seqs
<1>6. \A s \in Seqs : s # rec => fxb'[s] = fxb[s]
  BY <1>3
<1>7. UNCHANGED <<sent, cur>>
  BY DEF clientVars
<1>8. \A s \in Seqs : Held(s)' = Held(s)
  BY <1>2, <1>7 DEF Held, HeldByPack
<1>9. \A s \in Seqs : s # rec => Status(s)' = Status(s)
  BY <1>6, <1>7, <1>8, StatusIs, StatusIsAfter DEF StatusOf
<1>10. Status(rec) = "requested"
  BY <1>4, <1>5, StatusIs DEF StatusOf
<1>11. \A s \in Seqs : s = rec => Status(s)' = "in_flight"
  <2>1. rec \notin sent
    BY <1>1, <1>5 DEF HandedOver, Marked
  <2>2. Held(rec)
    BY DEF Held, HeldByPack
  <2>3. QED
    BY <1>5, <1>7, <1>8, <2>1, <2>2, StatusIsAfter DEF StatusOf
<1>12. \A p \in Seqs : p < rec => Status(p) # "requested"
  <2>1. \A p \in Seqs : fxb[p].stts = "R" => p \in 1 .. nRows
    BY <1>1, BooksConstants DEF Books!IInv, Books!RowsInUse, Books!TypeOK, Books!Seqs, Seqs,
       Books!ConstantsAssumption
  <2>2. \A p \in Seqs : fxb[p].stts = "R" => rec <= p
    BY <1>2, <2>1 DEF Books!IsNextRequested, Books!Requested
  <2>3. \A p \in Seqs : Status(p) = "requested" => fxb[p].stts = "R"
    BY StatusIs DEF StatusOf
  <2>4. QED
    BY <1>4, <2>2, <2>3 DEF Seqs
<1>13. Statuses' = [Statuses EXCEPT ![rec] = "in_flight"]
  BY <1>4, <1>9, <1>11 DEF Statuses, Seqs
<1>14. LastForwarded' = LastForwarded
  BY <1>7 DEF LastForwarded
<1>15. Promise!Take(rec)
  BY <1>4, <1>10, <1>12, <1>13, <1>14 DEF Promise!Take, Promise!Orders, Statuses, Seqs
<1>16. QED
  BY <1>4, <1>15 DEF Promise!Next, Promise!Orders, Seqs

(* The OMS adds the next row: an order is requested.                        *)
LEMMA PlacingRequests ==
  ASSUME IInv, IInv', Oms
  PROVE  Promise!Next
<1>1. Books!TypeOK /\ Books!RowsInUse /\ HandedOver
  BY DEF IInv, Books!IInv
<1> DEFINE new == nRows + 1
<1>2. UNCHANGED <<queue, rec, pkt, sent, cur>>
  BY DEF Oms, Pack!Oms, Pack!PlaceOrder, Pack!ModifyOrder, Pack!memory, clientVars
<1>3. /\ new \in Seqs
      /\ fxb'[new].stts = "R"
      /\ \A s \in Seqs : s # new => fxb'[s] = fxb[s]
  <2>1. fxb \in [Seqs -> Books!Rows] /\ nRows \in Nat /\ MaxSeq \in Nat
    BY <1>1, BooksConstants DEF Books!TypeOK, Books!ConstantsAssumption, Books!Seqs, Seqs
  <2>2. ASSUME NEW r \in Refs, NEW k \in OmsKinds, Pack!PlaceOrder(r, k)
        PROVE  /\ new \in Seqs
               /\ fxb'[new].stts = "R"
               /\ \A s \in Seqs : s # new => fxb'[s] = fxb[s]
    BY <2>1, <2>2 DEF Pack!PlaceOrder, Seqs
  <2>3. ASSUME NEW r \in Refs, Pack!ModifyOrder(r)
        PROVE  /\ new \in Seqs
               /\ fxb'[new].stts = "R"
               /\ \A s \in Seqs : s # new => fxb'[s] = fxb[s]
    BY <2>1, <2>3 DEF Pack!ModifyOrder, Seqs
  <2>4. QED
    BY <2>2, <2>3 DEF Oms, Pack!Oms
<1>4. fxb[new].stts = "none"
  BY <1>1, <1>3 DEF Books!TypeOK, Books!RowsInUse, Books!Seqs, Seqs
<1>5. \A s \in Seqs : Held(s)' = Held(s)
  BY <1>2 DEF Held, HeldByPack
<1>6. \A s \in Seqs : s # new => Status(s)' = Status(s)
  BY <1>2, <1>3, <1>5, StatusIs, StatusIsAfter DEF StatusOf
<1>7. Status(new) = "none"
  BY <1>3, <1>4, StatusIs DEF StatusOf
<1>8. \A s \in Seqs : s = new => Status(s)' = "requested"
  BY <1>3, StatusIsAfter DEF StatusOf
<1>9. \A p \in Seqs : p < new => Status(p) # "none"
  <2>1. \A p \in Seqs : p < new => fxb[p].stts # "none"
    BY <1>1 DEF Books!RowsInUse, Books!TypeOK, Books!Seqs, Seqs
  <2>2. QED
    BY <2>1, StatusIs DEF StatusOf
<1>10. Statuses' = [Statuses EXCEPT ![new] = "requested"]
  BY <1>3, <1>6, <1>8 DEF Statuses, Seqs
<1>11. LastForwarded' = LastForwarded
  BY <1>2 DEF LastForwarded
<1>12. Promise!Request(new)
  BY <1>3, <1>7, <1>9, <1>10, <1>11 DEF Promise!Request, Promise!Orders, Statuses, Seqs
<1>13. QED
  BY <1>3, <1>12 DEF Promise!Next, Promise!Orders, Seqs

(* fn_writen finishes its order: it is forwarded, or it was before.         *)
LEMMA FinishingForwards ==
  ASSUME IInv, IInv', Finishes
  PROVE  Promise!Next
<1>1. HandedOver /\ Books!TypeOK
  BY DEF IInv, Books!IInv
<1>2. UNCHANGED <<fxb, rec, pkt, queue>> /\ cur' = 0 /\ sent' = sent \cup {cur}
  BY DEF Finishes, packVars, sharedVars
<1>3. cur \in Seqs /\ Marked(cur) /\ cur = lastRead
  BY <1>1, CurIsMarked DEF Finishes, HandedOver
<1>4. CASE cur \in sent
  <2>1. UNCHANGED sent
    BY <1>2, <1>4
  <2>2. \A s \in Seqs : SameRow(s) /\ (Held(s)' => Held(s))
    BY <1>2 DEF SameRow, Held, HeldByPack, Seqs
  <2>3. QED
    BY <2>1, <2>2, QuietStep
<1>5. CASE cur \notin sent
  <2>1. Status(cur) = "in_flight"
    BY <1>3, <1>5, StatusIs DEF StatusOf, Marked, Held
  <2>2. \A s \in Seqs : s # cur => Status(s)' = Status(s)
    BY <1>2, StatusIs, StatusIsAfter DEF StatusOf, Held, HeldByPack, Seqs
  <2>3. \A s \in Seqs : s = cur => Status(s)' = "forwarded"
    BY <1>2, <1>3, StatusIsAfter DEF StatusOf, Marked
  <2>4. Statuses' = [Statuses EXCEPT ![cur] = "forwarded"]
    BY <1>3, <2>2, <2>3 DEF Statuses, Seqs
  <2>5. \A s \in sent : s \in Nat /\ s < cur
    BY <1>1, <1>3, <1>5 DEF HandedOver, Seqs
  <2>6. cur > LastForwarded
    <3>1. CASE sent = {}
      BY <1>3, <3>1 DEF LastForwarded, Seqs
    <3>2. CASE sent # {}
      <4>1. LastForwarded \in sent
        BY <1>1, <3>2 DEF LastForwarded, HandedOver
      <4>2. QED
        BY <1>3, <2>5, <4>1 DEF Seqs
    <3>3. QED
      BY <3>1, <3>2
  <2>7. LastForwarded' = cur
    <3>1. \A t \in sent' : t <= cur
      BY <1>2, <1>3, <2>5 DEF Seqs
    <3>2. \A s \in sent' : (\A t \in sent' : t <= s) => s = cur
      BY <1>2, <1>3, <2>5 DEF Seqs
    <3>3. cur \in sent'
      BY <1>2
    <3>4. (CHOOSE s \in sent' : \A t \in sent' : t <= s) = cur
      BY <3>1, <3>2, <3>3
    <3>5. QED
      BY <3>3, <3>4 DEF LastForwarded
  <2>8. Promise!Forward(cur)
    BY <1>3, <2>1, <2>4, <2>6, <2>7 DEF Promise!Forward, Promise!Orders, Statuses, Seqs
  <2>9. QED
    BY <1>3, <2>8 DEF Promise!Next, Promise!Orders, Seqs
<1>6. QED
  BY <1>4, <1>5

(***************************************************************************)
(* The refinement.                                                          *)
(***************************************************************************)

(* The first state of the program is the first state of Delivery.           *)
LEMMA PromiseInit == Init => Promise!Init
<1> SUFFICES ASSUME Init PROVE Promise!Init
  OBVIOUS
<1>1. IInv
  BY InvInit
<1>2. sent = {} /\ \A s \in Seqs : fxb[s].stts = "none"
  BY DEF Init, Client!Init, Pack!Init, Pack!NoRow, Pack!Seqs, Seqs
<1>3. \A s \in Seqs : Status(s) = "none"
  BY <1>1, <1>2, StatusIs DEF StatusOf
<1>4. QED
  BY <1>2, <1>3 DEF Promise!Init, Promise!Orders, Statuses, LastForwarded, Seqs

(* Every step of the program is a step of Delivery or none.                 *)
LEMMA PromiseNext ==
  ASSUME IInv, IInv', [Next]_vars
  PROVE  [Promise!Next]_<<Statuses, LastForwarded>>
<1>1. Books!IInv /\ Books!TypeOK /\ OneProcess /\ HandedOver
  BY DEF IInv, Books!IInv
<1>2. CASE Finishes
  BY <1>2, FinishingForwards
<1>3. CASE TakeOrder
  <2>1. /\ queue # <<>> /\ queue[1] \in Seqs /\ queue' = Tail(queue) /\ cur' = queue[1]
        /\ UNCHANGED <<fxb, rec, pkt, sent>>
    BY <1>1, <1>3, TakesTheHead
  <2>2. queue \in Seq(Seqs)
    BY <1>1 DEF Books!TypeOK, Books!Seqs, Seqs
  <2>3. cur' \in Range(queue) /\ \A s : s \in Range(queue)' => s \in Range(queue)
    BY <2>1, <2>2 DEF Range
  <2>4. \A s \in Seqs : SameRow(s) /\ (Held(s)' => Held(s))
    BY <2>1, <2>3 DEF SameRow, Held, HeldByPack
  <2>5. QED
    BY <2>1, <2>4, QuietStep
<1>4. CASE Oms
  BY <1>4, PlacingRequests
<1>5. CASE Keeps /\ PackingService
  <2>1. Books!Service
    BY <1>5, SameService DEF PackingService
  <2>2. CASE Marks
    <3>1. UNCHANGED clientVars
      BY <1>5, <2>2 DEF PackingService, Marks, Books!fnUpdXchngbk, Books!Goto
    <3>2. QED
      BY <2>2, <3>1, MarkingTakes
  <2>3. CASE ~Marks
    <3>1. \A s \in Seqs : SameRow(s) /\ (Marked(s) /\ HeldByPack(s)' => HeldByPack(s))
      BY <1>1, <2>1, <2>3, BooksConstants, ServiceIsQuiet DEF Seqs
    <3>2. \A s \in Seqs : SameRow(s) /\ (Marked(s) /\ Held(s)' => Held(s))
      BY <1>5, <3>1 DEF Keeps, Held, Seqs
    <3>3. QED
      BY <1>5, <3>2, QuietStep DEF Keeps
  <2>4. QED
    BY <2>2, <2>3
<1>6. CASE /\ Keeps
           /\ UNCHANGED <<fxb, queue>> /\ rec' \in {rec, 0} /\ pkt' \in {pkt, 0}
  <2>1. \A s \in Seqs : SameRow(s) /\ (Held(s)' => Held(s))
    BY <1>6 DEF Keeps, SameRow, Held, HeldByPack, Seqs
  <2>2. QED
    BY <1>6, <2>1, QuietStep DEF Keeps
<1>7. UNCHANGED <<packVars, sharedVars>>
        => UNCHANGED <<fxb, queue>> /\ rec' \in {rec, 0} /\ pkt' \in {pkt, 0}
  BY DEF packVars, sharedVars
<1>8. Pack!Die => UNCHANGED <<fxb, queue>> /\ rec' \in {rec, 0} /\ pkt' \in {pkt, 0}
  BY DEF Pack!Die, Pack!book
<1>9. Restart => UNCHANGED <<fxb, queue>> /\ rec' \in {rec, 0} /\ pkt' \in {pkt, 0}
  BY DEF Restart, Pack!Restart, Pack!book, Pack!memory
<1>10. QED
  BY <1>1, <1>2, <1>3, <1>4, <1>5, <1>6, <1>7, <1>8, <1>9, ClientSteps
     DEF Next, Dial, SendThrd, RcvThrd, ClnEsrClnt, Exchange, Crash, Pack!Crash, vars

(* The program implements Delivery: through every failure, crash and        *)
(* restart of both services no order is taken twice, none overtakes another *)
(* and none that was lost is forwarded.                                     *)
THEOREM ImplementsDelivery == Spec => KeepsItsPromise
<1>1. Spec => []IInv
  BY InvInit, InvNext, PTL DEF Spec
<1>2. IInv /\ IInv' /\ [Next]_vars => [Promise!Next]_<<Statuses, LastForwarded>>
  BY PromiseNext
<1>3. QED
  BY <1>1, <1>2, PromiseInit, PTL DEF Spec, KeepsItsPromise, Promise!Spec
================================================================================
