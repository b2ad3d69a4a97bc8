--------------------------- MODULE PackClientProofs ---------------------------
(***************************************************************************)
(* Theorems about the packing service, for every value of its constants.    *)
(*                                                                          *)
(* TypeOK is inductive by itself.  The three safety invariants rest on the  *)
(* conjuncts of IInv: what the program counter says of the record in hand   *)
(* (RecordInHand), that the rows the service has marked come before the     *)
(* rows it has still to mark (MarkedFirst), that whatever was packed, queued*)
(* or received is a marked row (PackedIsMarked, QueuedIsMarked), and that   *)
(* the room seen at the top of the loop is still there (RoomSeen).          *)
(***************************************************************************)
EXTENDS PackClient, TLAPS

(* The rows beyond nRows are empty; a row of the book belongs to an order.  *)
RowsInUse ==
  \A s \in Seqs : IF s <= nRows THEN /\ fxb[s].ref \in Refs
                                     /\ fxb[s].ctr <= fod[fxb[s].ref].ctr
                                     /\ fxb[s].ctr >= 1
                                     /\ fxb[s].stts # "none"
                                ELSE fxb[s].stts = "none"

(* An order the order book does not know has no counter yet.                *)
UnknownHasNoCounter == \A r \in Refs : fod[r].stts = "none" => fod[r].ctr = 0

(* Reference and counter are a key of the exchange book, so that the update *)
(* of fnUpdXchngbk marks the record in hand and no other.                   *)
KeyOfXchngbook ==
  \A s, t \in 1 .. nRows :
    fxb[s].ref = fxb[t].ref /\ fxb[s].ctr = fxb[t].ctr => s = t

(* Rows are marked in their order.                                          *)
MarkedFirst ==
  \A s, t \in 1 .. nRows : Marked(s) /\ fxb[t].stts = "R" => s < t

ToBeMarked == {"ref_to_ord", "upd_xchngbk"}
ToBePacked == {"upd_ordrbk", "get_ext_cnt", "rjct_rcrd", "pack"}

(* The record in hand is the next requested row until fnUpdXchngbk, then    *)
(* the last marked row, not packed before.                                  *)
RecordInHand ==
  /\ pc \in ToBeMarked => rec \in 1 .. nRows /\ IsNextRequested(rec)
  /\ pc \in ToBePacked =>
       /\ rec \in 1 .. nRows
       /\ Marked(rec)
       /\ packs[rec] = 0
       /\ \A s \in 1 .. nRows : Marked(s) => s <= rec

(* Whatever was packed is marked, once.                                     *)
PackedIsMarked ==
  \A s \in Seqs : packs[s] # 0 => Marked(s) /\ packs[s] = 1

(* What Q_packet, the queue and the exchange client hold is marked, and     *)
(* nothing queued is newer than Q_packet.                                   *)
QueuedIsMarked ==
  /\ \A i \in 1 .. Len(queue) : Marked(queue[i])
  /\ lastRead # 0 => Marked(lastRead)
  /\ pkt # 0 => /\ Marked(pkt)
                /\ lastRead <= pkt
                /\ \A i \in 1 .. Len(queue) : queue[i] <= pkt

InLoop == {"begin", "seq_to_omd", "ref_to_ord", "upd_xchngbk", "upd_ordrbk",
           "get_ext_cnt", "rjct_rcrd", "pack", "commit", "write", "abort"}

(* The count FnCanWriteToQueue read is an upper bound until the write.      *)
RoomSeen ==
  /\ Len(queue) <= QLimit
  /\ pc \in InLoop => Len(queue) < QLimit

IInv ==
  /\ TypeOK
  /\ RowsInUse
  /\ UnknownHasNoCounter
  /\ KeyOfXchngbook
  /\ MarkedFirst
  /\ RecordInHand
  /\ PackedIsMarked
  /\ QueuedIsMarked
  /\ OrderPreserved
  /\ RoomSeen

(***************************************************************************)
(* Type correctness.                                                        *)
(***************************************************************************)

(* The initial state is well typed.                                         *)
LEMMA TypeInit == Init => TypeOK
<1> SUFFICES ASSUME Init PROVE TypeOK
  OBVIOUS
<1>1. NoRow \in Rows
  BY DEF NoRow, Rows, Kinds
<1>2. fxb \in [Seqs -> Rows]
  BY <1>1 DEF Init
<1>3. nRows \in 0 .. MaxSeq
  BY ConstantsAssumption DEF ConstantsAssumption, Init
<1>4. fod \in [Refs -> [ctr : Nat, stts : {"none", "R", "Q"}]]
  BY DEF Init
<1>5. packs \in [Seqs -> 0 .. 2] /\ writes \in [Seqs -> 0 .. 2]
  BY DEF Init
<1>6. qOpen \in BOOLEAN /\ txOpen \in BOOLEAN /\ fresh \in BOOLEAN
  BY Zenon DEF Init
<1>7. queue \in Seq(Seqs)
  BY DEF Init
<1>8. QED
  BY <1>2, <1>3, <1>4, <1>5, <1>6, <1>7 DEF Init, TypeOK, Labels

(* Marking rows keeps the exchange book well typed.                         *)
LEMMA SetPlcdSttsType ==
  ASSUME TypeOK, NEW st \in {"Q", "J"}, SetPlcdStts(st)
  PROVE  fxb' \in [Seqs -> Rows]
<1>1. \A s \in Seqs : fxb[s] \in Rows
  BY DEF TypeOK
<1>2. \A s \in Seqs : [fxb[s] EXCEPT !.stts = st] \in Rows
  BY <1>1 DEF Rows
<1>3. QED
  BY <1>1, <1>2 DEF SetPlcdStts

(* The end of the process leaves every variable with its type.              *)
LEMMA DieType == TypeOK /\ Die => TypeOK'
<1> SUFFICES ASSUME TypeOK, Die PROVE TypeOK'
  OBVIOUS
<1>1. qOpen' \in BOOLEAN /\ txOpen' \in BOOLEAN /\ fresh' \in BOOLEAN
  BY Zenon DEF Die
<1>2. QED
  BY <1>1 DEF TypeOK, Die, book, Labels, LocalTran, RemoteTran

(* Every step, of the service and of its environment, keeps the types.      *)
LEMMA TypeNext == TypeOK /\ [Next]_vars => TypeOK'
<1> SUFFICES ASSUME TypeOK, [Next]_vars PROVE TypeOK'
  OBVIOUS
<1> USE DEF book, memory, hist, Goto, Labels, LocalTran, RemoteTran
<1>1. CASE CreateQueue
  BY <1>1 DEF CreateQueue, TypeOK
<1>2. CASE Fn_bat_init
  BY <1>2, DieType DEF Fn_bat_init, TypeOK
<1>3. CASE FnCanWriteToQueue
  BY <1>3 DEF FnCanWriteToQueue, TypeOK
<1>4. CASE FnBeginTran
  BY <1>4, DieType DEF FnBeginTran, TypeOK
<1>5. CASE fnSeqToOmd
  BY <1>5, ConstantsAssumption DEF ConstantsAssumption, fnSeqToOmd, TypeOK, Requested, Seqs
<1>6. CASE fnRefToOrd
  BY <1>6 DEF fnRefToOrd, TypeOK
<1>7. CASE fnUpdXchngbk
  BY <1>7, SetPlcdSttsType DEF fnUpdXchngbk, TypeOK
<1>8. CASE fnUpdOrdrbk
  <2>1. fod' \in [Refs -> [ctr : Nat, stts : {"none", "R", "Q"}]]
    <3>1. \A r \in Refs : [fod[r] EXCEPT !.stts = "Q"] \in [ctr : Nat, stts : {"none", "R", "Q"}]
      BY DEF TypeOK
    <3>2. CASE UNCHANGED fod
      BY <3>2 DEF TypeOK
    <3>3. CASE fod' = [fod EXCEPT ![fxb[rec].ref].stts = "Q"]
      <4>1. fod' = [r \in Refs |-> IF r = fxb[rec].ref
                                   THEN [fod[r] EXCEPT !.stts = "Q"] ELSE fod[r]]
        BY <3>3 DEF TypeOK
      <4>2. QED
        BY <3>1, <4>1 DEF TypeOK
    <3>4. QED
      BY <1>8, <3>2, <3>3 DEF fnUpdOrdrbk
  <2>2. QED
    BY <1>8, <2>1 DEF fnUpdOrdrbk, TypeOK
<1>9. CASE fnGetExtCnt
  BY <1>9 DEF fnGetExtCnt, TypeOK
<1>10. CASE fnRjctRcrd
  BY <1>10, SetPlcdSttsType DEF fnRjctRcrd, TypeOK
<1>11. CASE FnPackOrdnryOrdToNse
  <2>1. packs' \in [Seqs -> 0 .. 2]
    BY <1>11 DEF FnPackOrdnryOrdToNse, TypeOK, AtMostTwo, Die
  <2>2. fresh' \in BOOLEAN
    BY <1>11, Zenon DEF FnPackOrdnryOrdToNse, TypeOK, Die
  <2>3. QED
    BY <1>11, <2>1, <2>2, DieType DEF FnPackOrdnryOrdToNse, TypeOK
<1>12. CASE FnCommitTran
  BY <1>12, DieType DEF FnCommitTran, TypeOK
<1>13. CASE FnAbortTran
  BY <1>13, DieType DEF FnAbortTran
<1>14. CASE WriteToQueue
  <2>1. CASE Die
    BY <2>1, DieType
  <2>2. CASE ~Die
    <3>1. pkt \in Seqs /\ queue' = Append(queue, pkt)
      BY <1>14, <2>2 DEF WriteToQueue, TypeOK
    <3>2. queue' \in Seq(Seqs)
      BY <3>1 DEF TypeOK
    <3>3. writes' \in [Seqs -> 0 .. 2]
      <4>1. writes' = [writes EXCEPT ![pkt] = AtMostTwo(writes[pkt])]
        BY <1>14, <2>2, Zenon DEF WriteToQueue
      <4>2. AtMostTwo(writes[pkt]) \in 0 .. 2
        BY <3>1 DEF TypeOK, AtMostTwo
      <4>3. QED
        BY <4>1, <4>2, <3>1 DEF TypeOK
    <3>4. fresh' \in BOOLEAN
      BY <1>14, <2>2, Zenon DEF WriteToQueue
    <3>5. /\ UNCHANGED <<fxb, nRows, fod, qOpen, tranType, txOpen, pkt, packs>>
          /\ UNCHANGED <<lastRead, deaths, packFails>>
          /\ rec' = 0
          /\ pc' = "can_write"
      BY <1>14, <2>2, Zenon DEF WriteToQueue
    <3>6. QED
      BY <3>2, <3>3, <3>4, <3>5 DEF TypeOK
  <2>3. QED
    BY <2>1, <2>2
<1>15. CASE Crash
  BY <1>15, DieType DEF Crash
<1>16. CASE Restart
  BY <1>16 DEF Restart, TypeOK
<1>17. CASE Oms
  <2>1. ASSUME NEW r \in Refs, NEW k \in OmsKinds, PlaceOrder(r, k) PROVE TypeOK'
    BY <2>1, ConstantsAssumption DEF ConstantsAssumption, PlaceOrder, TypeOK, Rows, Seqs
  <2>2. ASSUME NEW r \in Refs, ModifyOrder(r) PROVE TypeOK'
    BY <2>2, ConstantsAssumption DEF ConstantsAssumption, ModifyOrder, TypeOK, Rows, Seqs, Kinds
  <2>3. QED
    BY <1>17, <2>1, <2>2 DEF Oms
<1>18. CASE Receive
  BY <1>18 DEF Receive, TypeOK
<1>19. CASE UNCHANGED vars
  BY <1>19 DEF vars, TypeOK
<1>20. QED
  BY <1>1, <1>2, <1>3, <1>4, <1>5, <1>6, <1>7, <1>8, <1>9, <1>10, <1>11, <1>12, <1>13, <1>14, <1>15, <1>16, <1>17, <1>18, <1>19 DEF Next, Service

(* Every variable has its type in every reachable state, for every number   *)
(* of orders and every limit of the queue.                                  *)
THEOREM TypeCorrect == Spec => []TypeOK
<1>1. QED
  BY TypeInit, TypeNext, PTL DEF Spec

(***************************************************************************)
(* Which steps change what.                                                 *)
(***************************************************************************)

(* Only the two updates, the rejection and the OMS write the order books.   *)
LEMMA WhoWritesTheBooks ==
  ASSUME [Next]_vars
  PROVE  \/ UNCHANGED book
         \/ fnUpdXchngbk \/ fnUpdOrdrbk \/ fnRjctRcrd \/ Oms
BY DEF Next, Service, CreateQueue, Fn_bat_init, FnCanWriteToQueue, FnBeginTran,
       fnSeqToOmd, fnRefToOrd, fnGetExtCnt, FnPackOrdnryOrdToNse, FnCommitTran,
       FnAbortTran, WriteToQueue, Crash, Restart, Receive, Die, vars, book

(* Only WriteToQueue and the exchange client change the queue.              *)
LEMMA WhoChangesTheQueue ==
  ASSUME [Next]_vars
  PROVE  UNCHANGED queue \/ WriteToQueue \/ Receive
BY DEF Next, Service, CreateQueue, Fn_bat_init, FnCanWriteToQueue, FnBeginTran,
       fnSeqToOmd, fnRefToOrd, fnUpdXchngbk, fnUpdOrdrbk, fnGetExtCnt, fnRjctRcrd,
       FnPackOrdnryOrdToNse, FnCommitTran, FnAbortTran, Crash, Restart, Oms,
       PlaceOrder, ModifyOrder, Die, vars

(* In the loop a step goes to the next label of the loop, back to its top   *)
(* from WriteToQueue, or ends the process.                                  *)
LEMMA WhoEntersTheLoop ==
  ASSUME [Next]_vars, pc' \in InLoop, pc \notin InLoop
  PROVE  FnCanWriteToQueue
BY DEF Next, Service, CreateQueue, Fn_bat_init, FnBeginTran, fnSeqToOmd, fnRefToOrd,
       fnUpdXchngbk, fnUpdOrdrbk, fnGetExtCnt, fnRjctRcrd, FnPackOrdnryOrdToNse,
       FnCommitTran, FnAbortTran, WriteToQueue, Crash, Restart, Receive, Oms,
       PlaceOrder, ModifyOrder, Die, vars, Goto, InLoop

(***************************************************************************)
(* The room seen at the top of the loop.                                    *)
(***************************************************************************)

(* The room the count has shown is there until WriteToQueue uses it, since  *)
(* no other step adds a message.                                            *)
LEMMA RoomStep ==
  ASSUME TypeOK, RoomSeen, [Next]_vars
  PROVE  RoomSeen'
<1> USE ConstantsAssumption DEF ConstantsAssumption
<1>0. Len(queue) \in Nat
  BY DEF TypeOK
<1>1. CASE WriteToQueue
  <2>1. CASE UNCHANGED queue
    BY <1>1, <2>1 DEF WriteToQueue, RoomSeen, InLoop, Die, Goto
  <2>2. CASE ~UNCHANGED queue
    <3>1. /\ pc = "write" /\ pc' = "can_write"
          /\ pkt \in Seqs
          /\ queue' = Append(queue, pkt)
      BY <1>1, <2>2 DEF WriteToQueue, Die, Goto, TypeOK
    <3>2. Len(queue') = Len(queue) + 1
      BY <3>1 DEF TypeOK
    <3>3. QED
      BY <1>0, <3>1, <3>2 DEF RoomSeen, InLoop
  <2>3. QED
    BY <2>1, <2>2
<1>2. CASE Receive
  <2>1. Len(queue') < Len(queue)
    BY <1>2 DEF Receive, TypeOK
  <2>2. Len(queue') \in Nat
    BY <1>2 DEF Receive, TypeOK
  <2>3. QED
    BY <1>0, <1>2, <2>1, <2>2 DEF Receive, RoomSeen
<1>3. CASE UNCHANGED queue
  <2>1. CASE pc \in InLoop
    BY <1>3, <2>1 DEF RoomSeen
  <2>2. CASE pc \notin InLoop
    BY <1>3, <2>2, WhoEntersTheLoop DEF RoomSeen, FnCanWriteToQueue
  <2>3. QED
    BY <2>1, <2>2
<1>4. QED
  BY <1>1, <1>2, <1>3, WhoChangesTheQueue

(* The queue never holds more messages than the limit FnCanWriteToQueue     *)
(* tests, although the test is long past when WriteToQueue runs.            *)
THEOREM QueueIsBounded == Spec => []QueueBounded
<1>1. Init => RoomSeen
  BY ConstantsAssumption DEF ConstantsAssumption, Init, RoomSeen, InLoop
<1>2. TypeOK /\ RoomSeen /\ [Next]_vars => RoomSeen'
  BY RoomStep
<1>3. RoomSeen => QueueBounded
  BY DEF RoomSeen, QueueBounded
<1>4. QED
  BY <1>1, <1>2, <1>3, TypeCorrect, PTL DEF Spec

(***************************************************************************)
(* The exchange book: which rows a step marks.                              *)
(***************************************************************************)

(* The update by reference and counter marks the record in hand, no other.  *)
LEMMA MarksTheRecord ==
  ASSUME TypeOK, KeyOfXchngbook, rec \in 1 .. nRows, NEW st \in {"Q", "J"},
         SetPlcdStts(st)
  PROVE  fxb' = [fxb EXCEPT ![rec].stts = st]
<1>1. \A s \in Seqs : s <= nRows /\ fxb[s].ref = fxb[rec].ref /\ fxb[s].ctr = fxb[rec].ctr
                      <=> s = rec
  BY ConstantsAssumption DEF ConstantsAssumption, KeyOfXchngbook, Seqs, TypeOK
<1>2. fxb' = [s \in Seqs |-> IF s = rec THEN [fxb[s] EXCEPT !.stts = st] ELSE fxb[s]]
  BY <1>1 DEF SetPlcdStts
<1>3. QED
  BY <1>2 DEF TypeOK

BookInv == TypeOK /\ RowsInUse /\ UnknownHasNoCounter /\ KeyOfXchngbook /\ RecordInHand

(* The OMS adds a requested row for the next counter of an order.           *)
AddsRow(r, k) ==
  /\ fxb' = [fxb EXCEPT ![nRows + 1] =
               [ref |-> r, ctr |-> fod[r].ctr + 1, kind |-> k, stts |-> "R"]]
  /\ fod' = [fod EXCEPT ![r] = [ctr |-> fod[r].ctr + 1, stts |-> "R"]]

(* A step leaves the exchange book alone, marks the record in hand, or adds *)
(* one requested row at its end.                                            *)
LEMMA BookSteps ==
  ASSUME BookInv, [Next]_vars
  PROVE  \/ UNCHANGED <<fxb, nRows>>
         \/ /\ fnUpdXchngbk \/ fnRjctRcrd
            /\ rec \in 1 .. nRows
            /\ nRows' = nRows
            /\ \E st \in {"Q", "J"} : fxb' = [fxb EXCEPT ![rec].stts = st]
         \/ /\ Oms
            /\ nRows + 1 \in Seqs
            /\ nRows' = nRows + 1
            /\ \E r \in Refs, k \in Kinds :
                 AddsRow(r, k)
<1> USE DEF BookInv
<1>1. CASE UNCHANGED book
  BY <1>1 DEF book
<1>2. CASE fnUpdXchngbk
  <2>1. rec \in 1 .. nRows /\ nRows' = nRows
    BY <1>2 DEF fnUpdXchngbk, RecordInHand, ToBeMarked
  <2>2. CASE UNCHANGED fxb
    BY <2>1, <2>2
  <2>3. CASE SetPlcdStts("Q")
    BY <1>2, <2>1, <2>3, MarksTheRecord
  <2>4. QED
    BY <1>2, <2>2, <2>3 DEF fnUpdXchngbk
<1>3. CASE fnRjctRcrd
  <2>1. rec \in 1 .. nRows /\ nRows' = nRows
    BY <1>3 DEF fnRjctRcrd, RecordInHand, ToBePacked
  <2>2. CASE UNCHANGED fxb
    BY <2>1, <2>2
  <2>3. CASE SetPlcdStts("J")
    BY <1>3, <2>1, <2>3, MarksTheRecord
  <2>4. QED
    BY <1>3, <2>2, <2>3 DEF fnRjctRcrd
<1>4. CASE fnUpdOrdrbk
  BY <1>4 DEF fnUpdOrdrbk
<1>5. CASE Oms
  <2>1. nRows < MaxSeq => nRows + 1 \in Seqs
    BY ConstantsAssumption DEF ConstantsAssumption, TypeOK, Seqs
  <2>2. ASSUME NEW r \in Refs, NEW k \in OmsKinds, PlaceOrder(r, k)
        PROVE  \E q \in Refs, l \in Kinds :
                 AddsRow(q, l)
    <3>1. fod[r].ctr + 1 = 1
      BY <2>2 DEF PlaceOrder, UnknownHasNoCounter
    <3>2. k \in Kinds
      BY ConstantsAssumption DEF ConstantsAssumption
    <3>3. AddsRow(r, k)
      BY <2>2, <3>1 DEF PlaceOrder, AddsRow
    <3>4. QED
      BY <3>2, <3>3
  <2>3. ASSUME NEW r \in Refs, ModifyOrder(r)
        PROVE  \E q \in Refs, l \in Kinds :
                 AddsRow(q, l)
    BY <2>3 DEF ModifyOrder, Kinds, AddsRow
  <2>4. nRows < MaxSeq /\ nRows' = nRows + 1
    BY <1>5 DEF Oms, PlaceOrder, ModifyOrder
  <2>5. QED
    BY <1>5, <2>1, <2>2, <2>3, <2>4 DEF Oms
<1>6. QED
  BY <1>1, <1>2, <1>3, <1>4, <1>5, WhoWritesTheBooks

(* The service never touches a counter nor makes an order unknown.          *)
LEMMA OrderBookSteps ==
  ASSUME TypeOK, [Next]_vars, ~Oms, NEW r \in Refs
  PROVE  fod'[r].ctr = fod[r].ctr /\ (fod'[r].stts = "none" => fod[r].stts = "none")
<1>1. CASE UNCHANGED fod
  BY <1>1
<1>2. CASE ~UNCHANGED fod
  <2>1. fod' = [fod EXCEPT ![fxb[rec].ref].stts = "Q"]
    BY <1>2, WhoWritesTheBooks DEF fnUpdXchngbk, fnUpdOrdrbk, fnRjctRcrd, book
  <2>2. QED
    BY <2>1 DEF TypeOK
<1>3. QED
  BY <1>1, <1>2

(* The rows of the book keep their shape and their key.                     *)
LEMMA BookStep ==
  ASSUME BookInv, [Next]_vars
  PROVE  RowsInUse' /\ UnknownHasNoCounter' /\ KeyOfXchngbook'
<1> USE DEF BookInv
<1>1. CASE Oms /\ ~UNCHANGED <<fxb, nRows>> /\ nRows' # nRows
  <2>1. PICK r \in Refs, k \in Kinds : AddsRow(r, k)
    BY <1>1, BookSteps
  <2>2. nRows + 1 \in Seqs /\ nRows' = nRows + 1
    BY <1>1, BookSteps
  <2>3. \A s \in Seqs : s # nRows + 1 => fxb'[s] = fxb[s]
    BY <2>1, <2>2 DEF AddsRow, TypeOK
  <2>4. fxb'[nRows + 1] = [ref |-> r, ctr |-> fod[r].ctr + 1, kind |-> k, stts |-> "R"]
    BY <2>1, <2>2 DEF AddsRow, TypeOK
  <2>5. fod'[r] = [ctr |-> fod[r].ctr + 1, stts |-> "R"]
    BY <2>1 DEF AddsRow, TypeOK
  <2>6. \A q \in Refs : q # r => fod'[q] = fod[q]
    BY <2>1 DEF AddsRow, TypeOK
  <2>7. fod[r].ctr \in Nat /\ nRows \in Nat /\ \A s \in Seqs : fxb[s].ctr \in Nat
    BY ConstantsAssumption DEF ConstantsAssumption, TypeOK, Rows
  <2>8. RowsInUse'
    <3> SUFFICES ASSUME NEW s \in Seqs
                 PROVE  IF s <= nRows' THEN /\ fxb'[s].ref \in Refs
                                            /\ fxb'[s].ctr <= fod'[fxb'[s].ref].ctr
                                            /\ fxb'[s].ctr >= 1
                                            /\ fxb'[s].stts # "none"
                                       ELSE fxb'[s].stts = "none"
      BY DEF RowsInUse
    <3>1. CASE s = nRows + 1
      BY <2>2, <2>4, <2>5, <2>7, <3>1
    <3>2. CASE s <= nRows
      <4>1. /\ fxb[s].ref \in Refs
            /\ fxb[s].ctr <= fod[fxb[s].ref].ctr
            /\ fxb[s].ctr >= 1
            /\ fxb[s].stts # "none"
        BY <3>2 DEF RowsInUse
      <4>2. fxb'[s] = fxb[s]
        BY <2>3, <2>7, <3>2
      <4>3. fod[fxb[s].ref].ctr <= fod'[fxb[s].ref].ctr
        BY <2>5, <2>6, <2>7, <4>1 DEF TypeOK
      <4>4. fod[fxb[s].ref].ctr \in Nat /\ fod'[fxb[s].ref].ctr \in Nat
        <5>1. \A q \in Refs : fod[q].ctr \in Nat
          BY DEF TypeOK
        <5>2. QED
          BY <2>5, <2>6, <4>1, <5>1
      <4>5. s <= nRows'
        BY <2>2, <2>7, <3>2 DEF Seqs
      <4>6. QED
        BY <2>7, <4>1, <4>2, <4>3, <4>4, <4>5
    <3>3. CASE ~(s <= nRows + 1)
      BY <2>2, <2>3, <2>7, <3>3 DEF RowsInUse, Seqs
    <3>4. QED
      BY <2>7, <3>1, <3>2, <3>3 DEF Seqs
  <2>9. UnknownHasNoCounter'
    BY <2>5, <2>6 DEF UnknownHasNoCounter
  <2>10. KeyOfXchngbook'
    <3>1. \A s \in 1 .. nRows : /\ fxb'[s] = fxb[s]
                                /\ ~(fxb[s].ref = r /\ fxb[s].ctr = fod[r].ctr + 1)
      BY <2>2, <2>3, <2>7, ConstantsAssumption DEF ConstantsAssumption, RowsInUse, Seqs
    <3>2. \A s \in 1 .. nRows' : s \in 1 .. nRows \/ s = nRows + 1
      BY <2>2, <2>7
    <3>3. QED
      BY <2>2, <2>4, <3>1, <3>2 DEF KeyOfXchngbook
  <2>11. QED
    BY <2>8, <2>9, <2>10
<1>2. CASE ~Oms
  <2>1. /\ nRows' = nRows
        /\ \A s \in Seqs : /\ fxb'[s].ref = fxb[s].ref
                           /\ fxb'[s].ctr = fxb[s].ctr
                           /\ fxb'[s].stts = "none" <=> fxb[s].stts = "none"
    <3>1. CASE UNCHANGED <<fxb, nRows>>
      BY <3>1
    <3>2. CASE ~UNCHANGED <<fxb, nRows>>
      <4>1. PICK st \in {"Q", "J"} : fxb' = [fxb EXCEPT ![rec].stts = st]
        BY <1>2, <3>2, BookSteps
      <4>2. rec \in 1 .. nRows /\ nRows' = nRows
        BY <1>2, <3>2, BookSteps
      <4>3. fxb[rec].stts # "none"
        BY <4>2, ConstantsAssumption DEF ConstantsAssumption, RowsInUse, TypeOK, Seqs
      <4>4. QED
        BY <4>1, <4>2, <4>3 DEF TypeOK, Rows
    <3>3. QED
      BY <3>1, <3>2
  <2>2. 1 .. nRows \subseteq Seqs
    BY ConstantsAssumption DEF ConstantsAssumption, TypeOK, Seqs
  <2>3. RowsInUse'
    BY <1>2, <2>1, OrderBookSteps DEF RowsInUse
  <2>4. UnknownHasNoCounter'
    BY <1>2, OrderBookSteps DEF UnknownHasNoCounter
  <2>5. KeyOfXchngbook'
    BY <2>1, <2>2 DEF KeyOfXchngbook
  <2>6. QED
    BY <2>3, <2>4, <2>5
<1>3. CASE Oms
  <2>1. nRows' = nRows + 1
    BY <1>3 DEF Oms, PlaceOrder, ModifyOrder
  <2>2. nRows \in Nat
    BY ConstantsAssumption DEF ConstantsAssumption, TypeOK
  <2>3. QED
    BY <1>1, <1>3, <2>1, <2>2
<1>4. QED
  BY <1>2, <1>3

(***************************************************************************)
(* The marks of the exchange book.                                          *)
(***************************************************************************)

(* The rows in use are numbers of the exchange book.                        *)
LEMMA RowsAreSeqs ==
  ASSUME TypeOK
  PROVE  nRows \in Nat /\ Seqs \subseteq Nat /\ 1 .. nRows \subseteq Seqs
BY ConstantsAssumption DEF ConstantsAssumption, TypeOK, Seqs

(* A marked row is a row in use.                                            *)
LEMMA MarkedIsRow ==
  ASSUME TypeOK, RowsInUse, NEW s \in Seqs, Marked(s)
  PROVE  s \in 1 .. nRows
BY RowsAreSeqs DEF RowsInUse, Marked, Seqs

(* A marked row stays marked, and only fnUpdXchngbk marks another.          *)
LEMMA MarksStay ==
  ASSUME BookInv, [Next]_vars, NEW s \in Seqs
  PROVE  /\ Marked(s) => Marked(s)'
         /\ Marked(s)' => Marked(s) \/ (fnUpdXchngbk /\ s = rec)
<1> USE DEF BookInv
<1>1. CASE UNCHANGED <<fxb, nRows>>
  BY <1>1 DEF Marked
<1>2. CASE fnUpdXchngbk /\ ~UNCHANGED <<fxb, nRows>> /\ nRows' = nRows
  <2>1. PICK st \in {"Q", "J"} : fxb' = [fxb EXCEPT ![rec].stts = st]
    BY <1>2, BookSteps, RowsAreSeqs
  <2>2. QED
    BY <1>2, <2>1 DEF Marked, TypeOK
<1>3. CASE fnRjctRcrd /\ ~UNCHANGED <<fxb, nRows>> /\ nRows' = nRows
  <2>1. PICK st \in {"Q", "J"} : fxb' = [fxb EXCEPT ![rec].stts = st]
    BY <1>3, BookSteps, RowsAreSeqs
  <2>2. Marked(rec)
    BY <1>3 DEF fnRjctRcrd, RecordInHand, ToBePacked
  <2>3. QED
    BY <2>1, <2>2 DEF Marked, TypeOK
<1>4. CASE Oms /\ nRows' = nRows + 1 /\ nRows + 1 \in Seqs /\ ~UNCHANGED <<fxb, nRows>>
  <2>1. PICK r \in Refs, k \in Kinds : AddsRow(r, k)
    BY <1>4, BookSteps, RowsAreSeqs
  <2>2. fxb'[nRows + 1].stts = "R"
    BY <1>4, <2>1 DEF AddsRow, TypeOK
  <2>3. s # nRows + 1 => fxb'[s] = fxb[s]
    BY <1>4, <2>1 DEF AddsRow, TypeOK
  <2>4. ~Marked(nRows + 1)
    BY <1>4, MarkedIsRow, RowsAreSeqs
  <2>5. QED
    BY <2>2, <2>3, <2>4 DEF Marked
<1>5. QED
  BY <1>1, <1>2, <1>3, <1>4, BookSteps

(* A requested row of the next state is one of this state, or the new last  *)
(* row; the row fnUpdXchngbk marked is not among them.                      *)
LEMMA RequestedComesFrom ==
  ASSUME BookInv, [Next]_vars, NEW t \in 1 .. nRows', fxb'[t].stts = "R"
  PROVE  \/ t \in 1 .. nRows /\ fxb[t].stts = "R"
         \/ Oms /\ t = nRows + 1
<1> USE DEF BookInv
<1>1. CASE UNCHANGED <<fxb, nRows>>
  BY <1>1
<1>2. CASE (fnUpdXchngbk \/ fnRjctRcrd) /\ nRows' = nRows /\ ~UNCHANGED fxb
  <2>1. rec \in 1 .. nRows /\ \E st \in {"Q", "J"} : fxb' = [fxb EXCEPT ![rec].stts = st]
    BY <1>2, BookSteps, RowsAreSeqs
  <2>2. QED
    BY <1>2, <2>1, RowsAreSeqs DEF TypeOK
<1>3. CASE Oms /\ nRows' = nRows + 1 /\ nRows + 1 \in Seqs
  <2>1. PICK r \in Refs, k \in Kinds : AddsRow(r, k)
    BY <1>3, BookSteps, RowsAreSeqs
  <2>2. t # nRows + 1 => t \in 1 .. nRows
    BY <1>3, RowsAreSeqs
  <2>3. t # nRows + 1 => fxb'[t] = fxb[t]
    BY <1>3, <2>1, <2>2, RowsAreSeqs DEF AddsRow, TypeOK
  <2>4. QED
    BY <1>3, <2>2, <2>3
<1>4. QED
  BY <1>1, <1>2, <1>3, BookSteps

(* The row fnUpdXchngbk marks is the first requested one, so marks keep to  *)
(* the order of the sequence numbers.                                       *)
LEMMA MarkedFirstStep ==
  ASSUME BookInv, MarkedFirst, [Next]_vars
  PROVE  MarkedFirst'
<1> USE DEF BookInv
<1> SUFFICES ASSUME NEW s \in 1 .. nRows', NEW t \in 1 .. nRows',
                    Marked(s)', fxb'[t].stts = "R"
             PROVE  s < t
  BY DEF MarkedFirst
<1>0. nRows' \in Nat /\ s \in Seqs /\ t \in Seqs /\ s \in Nat /\ t \in Nat
  BY TypeNext, ConstantsAssumption DEF ConstantsAssumption, TypeOK, Seqs
<1>1. CASE Marked(s)
  <2>1. s \in 1 .. nRows
    BY <1>0, <1>1, MarkedIsRow
  <2>2. QED
    BY <1>0, <1>1, <2>1, RequestedComesFrom, RowsAreSeqs DEF MarkedFirst
<1>2. CASE fnUpdXchngbk /\ s = rec /\ ~Marked(s)
  <2>1. rec \in 1 .. nRows /\ IsNextRequested(rec)
    BY <1>2 DEF fnUpdXchngbk, RecordInHand, ToBeMarked
  <2>2. t \in 1 .. nRows /\ fxb[t].stts = "R"
    <3>1. ~Oms \/ nRows' = nRows
      BY <1>2 DEF fnUpdXchngbk
    <3>2. QED
      BY <1>0, <1>2, <3>1, RequestedComesFrom, RowsAreSeqs DEF fnUpdXchngbk
  <2>3. t # rec
    BY <1>2 DEF Marked
  <2>4. QED
    BY <1>0, <1>2, <2>1, <2>2, <2>3 DEF IsNextRequested, Requested
<1>3. QED
  BY <1>0, <1>1, <1>2, MarksStay

(* The record in hand: the first requested row until it is marked, the last *)
(* marked row, not yet packed, until it is packed.                          *)
LEMMA RecordInHandStep ==
  ASSUME BookInv, MarkedFirst, PackedIsMarked, [Next]_vars
  PROVE  RecordInHand'
<1> USE DEF BookInv
<1>1. CASE UNCHANGED <<fxb, nRows, pc, rec, packs>>
  BY <1>1 DEF RecordInHand, IsNextRequested, Requested, Marked
<1>2. CASE pc' \notin ToBeMarked \cup ToBePacked
  BY <1>2 DEF RecordInHand
<1>3. CASE fnSeqToOmd
  BY <1>3 DEF fnSeqToOmd, Goto, book, RecordInHand, ToBeMarked, ToBePacked,
              IsNextRequested, Requested
<1>4. CASE fnRefToOrd
  BY <1>4 DEF fnRefToOrd, Goto, book, memory, RecordInHand, ToBeMarked, ToBePacked,
              IsNextRequested, Requested
<1>5. CASE fnUpdXchngbk /\ pc' \in ToBeMarked \cup ToBePacked
  <2>1. /\ pc' = "upd_ordrbk" /\ SetPlcdStts("Q")
        /\ nRows' = nRows /\ rec' = rec /\ packs' = packs
    BY <1>5 DEF fnUpdXchngbk, Goto, memory, hist, ToBeMarked, ToBePacked
  <2>2. rec \in 1 .. nRows /\ fxb[rec].stts = "R"
    BY <1>5 DEF fnUpdXchngbk, RecordInHand, ToBeMarked, IsNextRequested, Requested
  <2>3. fxb' = [fxb EXCEPT ![rec].stts = "Q"]
    BY <2>1, <2>2, MarksTheRecord
  <2>4. Marked(rec)' /\ packs[rec] = 0
    BY <2>1, <2>2, <2>3, RowsAreSeqs DEF Marked, PackedIsMarked, TypeOK
  <2>5. ASSUME NEW s \in 1 .. nRows', Marked(s)' PROVE s <= rec
    <3>1. s \in 1 .. nRows /\ s \in Seqs
      BY <2>1, RowsAreSeqs
    <3>2. CASE Marked(s)
      BY <2>2, <3>1, <3>2, RowsAreSeqs DEF MarkedFirst
    <3>3. CASE s = rec
      BY <3>1, <3>3, RowsAreSeqs
    <3>4. QED
      BY <2>5, <3>1, <3>2, <3>3, MarksStay
  <2>6. QED
    BY <2>1, <2>2, <2>4, <2>5 DEF RecordInHand, ToBeMarked, ToBePacked, Marked
<1>6. CASE (fnUpdOrdrbk \/ fnGetExtCnt) /\ pc' \in ToBeMarked \cup ToBePacked
  <2>1. pc \in ToBePacked /\ pc' \in ToBePacked /\ pc' \notin ToBeMarked
    BY <1>6 DEF fnUpdOrdrbk, fnGetExtCnt, Goto, ToBeMarked, ToBePacked, Die
  <2>2. UNCHANGED <<fxb, nRows, rec, packs>>
    BY <1>6 DEF fnUpdOrdrbk, fnGetExtCnt, memory, hist, book
  <2>3. QED
    BY <2>1, <2>2 DEF RecordInHand, Marked
<1>7. CASE fnRjctRcrd /\ pc' \in ToBeMarked \cup ToBePacked
  <2>1. /\ pc \in ToBePacked /\ pc' \in ToBePacked /\ pc' \notin ToBeMarked
        /\ UNCHANGED <<nRows, rec, packs>>
    BY <1>7 DEF fnRjctRcrd, Goto, memory, hist, ToBeMarked, ToBePacked
  <2>2. ~fnUpdXchngbk
    BY <1>7 DEF fnRjctRcrd, fnUpdXchngbk
  <2>3. \A s \in Seqs : Marked(s)' <=> Marked(s)
    BY <2>2, MarksStay
  <2>4. QED
    BY <2>1, <2>3, RowsAreSeqs DEF RecordInHand, Marked
<1>8. CASE Oms
  <2>1. /\ UNCHANGED <<pc, rec, packs>>
        /\ nRows' = nRows + 1
        /\ ~fnUpdXchngbk
    BY <1>8 DEF Oms, PlaceOrder, ModifyOrder, memory, hist, fnUpdXchngbk, Goto
  <2>2. nRows + 1 \in Seqs
    <3>1. nRows < MaxSeq
      BY <1>8 DEF Oms, PlaceOrder, ModifyOrder
    <3>2. QED
      BY <3>1, ConstantsAssumption DEF ConstantsAssumption, TypeOK, Seqs
  <2>3. \A s \in Seqs : Marked(s)' <=> Marked(s)
    BY <2>1, MarksStay
  <2>4. CASE pc \in ToBeMarked
    <3>1. rec \in 1 .. nRows /\ IsNextRequested(rec)
      BY <2>4 DEF RecordInHand
    <3>2. \A t \in 1 .. nRows' : fxb'[t].stts = "R" => rec <= t
      BY <2>1, <3>1, RequestedComesFrom, RowsAreSeqs DEF IsNextRequested, Requested
    <3>3. rec \in 1 .. nRows' /\ fxb'[rec].stts = "R"
      <4>1. PICK r \in Refs, k \in Kinds : AddsRow(r, k)
        BY <1>8, <2>1, BookSteps, RowsAreSeqs
      <4>2. fxb'[rec] = fxb[rec]
        BY <2>2, <3>1, <4>1, RowsAreSeqs DEF AddsRow, TypeOK
      <4>3. QED
        BY <2>1, <3>1, <4>2, RowsAreSeqs DEF IsNextRequested, Requested
    <3>4. QED
      BY <2>1, <2>4, <3>2, <3>3 DEF RecordInHand, IsNextRequested, Requested, ToBeMarked,
                                    ToBePacked
  <2>5. CASE pc \in ToBePacked
    <3>1. /\ rec \in 1 .. nRows
          /\ Marked(rec)
          /\ packs[rec] = 0
          /\ \A s \in 1 .. nRows : Marked(s) => s <= rec
      BY <2>5 DEF RecordInHand
    <3>2. \A s \in Seqs : Marked(s)' => s <= rec
      BY <2>3, <3>1, MarkedIsRow
    <3>3. /\ rec \in 1 .. nRows'
          /\ Marked(rec)'
          /\ \A s \in 1 .. nRows' : s \in Seqs
      BY <2>1, <2>2, <2>3, <3>1, RowsAreSeqs DEF Marked
    <3>4. QED
      BY <2>1, <2>5, <3>1, <3>2, <3>3 DEF RecordInHand, ToBeMarked, ToBePacked, Marked
  <2>6. QED
    BY <2>1, <2>4, <2>5 DEF RecordInHand
<1>9. QED
  BY <1>1, <1>2, <1>3, <1>4, <1>5, <1>6, <1>7, <1>8
  DEF Next, Service, vars, CreateQueue, Fn_bat_init, FnCanWriteToQueue, FnBeginTran,
      FnPackOrdnryOrdToNse, FnCommitTran, FnAbortTran, WriteToQueue, Crash, Restart,
      Receive, Die, Goto, book, memory, ToBeMarked, ToBePacked

(***************************************************************************)
(* What is packed, queued and received.                                     *)
(***************************************************************************)

(* FnPackOrdnryOrdToNse packs the record in hand, which is marked and was   *)
(* not packed before.                                                       *)
LEMMA PackedIsMarkedStep ==
  ASSUME BookInv, PackedIsMarked, [Next]_vars
  PROVE  PackedIsMarked'
<1> USE DEF BookInv
<1> SUFFICES ASSUME NEW s \in Seqs, packs'[s] # 0
             PROVE  Marked(s)' /\ packs'[s] = 1
  BY DEF PackedIsMarked
<1>1. CASE UNCHANGED packs
  BY <1>1, MarksStay DEF PackedIsMarked
<1>2. CASE FnPackOrdnryOrdToNse /\ packs' = [packs EXCEPT ![rec] = AtMostTwo(@)]
  <2>1. rec \in Seqs /\ Marked(rec) /\ packs[rec] = 0
    BY <1>2, RowsAreSeqs DEF FnPackOrdnryOrdToNse, RecordInHand, ToBePacked
  <2>2. CASE s = rec
    BY <1>2, <2>1, <2>2, MarksStay DEF AtMostTwo, TypeOK
  <2>3. CASE s # rec
    BY <1>2, <2>3, MarksStay DEF PackedIsMarked, TypeOK
  <2>4. QED
    BY <2>2, <2>3
<1>3. QED
  BY <1>1, <1>2
  DEF Next, Service, CreateQueue, Fn_bat_init, FnCanWriteToQueue, FnBeginTran,
      fnSeqToOmd, fnRefToOrd, fnUpdXchngbk, fnUpdOrdrbk, fnGetExtCnt, fnRjctRcrd,
      FnPackOrdnryOrdToNse, FnCommitTran, FnAbortTran, WriteToQueue, Crash, Restart,
      Oms, PlaceOrder, ModifyOrder, Receive, Die, vars, hist

(* Only these steps change Q_packet, the queue or the last order received.  *)
LEMMA QueueSteps ==
  ASSUME [Next]_vars
  PROVE  \/ UNCHANGED <<pkt, queue, lastRead>>
         \/ FnPackOrdnryOrdToNse /\ pkt' = rec /\ UNCHANGED <<queue, lastRead>>
         \/ pkt' = 0 /\ UNCHANGED <<queue, lastRead>>
         \/ /\ pkt # 0 /\ queue' = Append(queue, pkt)
            /\ UNCHANGED <<pkt, lastRead>>
         \/ /\ queue # <<>> /\ lastRead' = Head(queue) /\ queue' = Tail(queue)
            /\ UNCHANGED pkt
BY DEF Next, Service, CreateQueue, Fn_bat_init, FnCanWriteToQueue, FnBeginTran,
       fnSeqToOmd, fnRefToOrd, fnUpdXchngbk, fnUpdOrdrbk, fnGetExtCnt, fnRjctRcrd,
       FnPackOrdnryOrdToNse, FnCommitTran, FnAbortTran, WriteToQueue, Crash, Restart,
       Oms, PlaceOrder, ModifyOrder, Receive, Die, vars, hist, memory

(* Each of them keeps the queue in order: Q_packet is the newest order ever *)
(* packed, and the exchange client takes the oldest.                        *)
LEMMA QueuedStep ==
  ASSUME BookInv, QueuedIsMarked, OrderPreserved, [Next]_vars
  PROVE  QueuedIsMarked' /\ OrderPreserved'
<1> USE DEF BookInv
<1>0. /\ Len(queue) \in Nat
      /\ \A i \in 1 .. Len(queue) : queue[i] \in Seqs
      /\ Seqs \subseteq Nat
      /\ lastRead \in Seqs \cup {0} /\ pkt \in Seqs \cup {0}
  BY RowsAreSeqs DEF TypeOK
<1>1. \A s \in Seqs : Marked(s) => fxb'[s].stts \in {"Q", "J"}
  BY MarksStay DEF Marked
<1>2. CASE UNCHANGED <<pkt, queue, lastRead>>
  BY <1>0, <1>1, <1>2 DEF QueuedIsMarked, OrderPreserved, Marked
<1>3. CASE pkt' = 0 /\ UNCHANGED <<queue, lastRead>>
  BY <1>0, <1>1, <1>3 DEF QueuedIsMarked, OrderPreserved, Marked
<1>4. CASE FnPackOrdnryOrdToNse /\ pkt' = rec /\ UNCHANGED <<queue, lastRead>>
  <2>1. /\ rec \in Seqs
        /\ Marked(rec)
        /\ \A s \in Seqs : Marked(s) => s <= rec
    BY <1>4, RowsAreSeqs, MarkedIsRow DEF FnPackOrdnryOrdToNse, RecordInHand, ToBePacked
  <2>2. lastRead <= rec /\ \A i \in 1 .. Len(queue) : queue[i] <= rec
    BY <1>0, <2>1 DEF QueuedIsMarked, Seqs
  <2>3. QED
    BY <1>0, <1>1, <1>4, <2>1, <2>2 DEF QueuedIsMarked, OrderPreserved, Marked
<1>5. CASE pkt # 0 /\ queue' = Append(queue, pkt) /\ UNCHANGED <<pkt, lastRead>>
  <2>1. /\ Len(queue') = Len(queue) + 1
        /\ queue'[Len(queue) + 1] = pkt
        /\ \A i \in 1 .. Len(queue) : queue'[i] = queue[i]
    BY <1>0, <1>5 DEF TypeOK
  <2>2. \A i \in 1 .. Len(queue') : i \in 1 .. Len(queue) \/ i = Len(queue) + 1
    BY <1>0, <2>1
  <2>3. \A i \in 1 .. Len(queue') : queue'[i] \in Seqs /\ queue'[i] <= pkt
    BY <1>0, <1>5, <2>1, <2>2 DEF QueuedIsMarked
  <2>4. QueuedIsMarked'
    BY <1>0, <1>1, <1>5, <2>1, <2>2, <2>3 DEF QueuedIsMarked, Marked
  <2>5. OrderPreserved'
    BY <1>0, <1>5, <2>1, <2>2, <2>3 DEF QueuedIsMarked, OrderPreserved
  <2>6. QED
    BY <2>4, <2>5
<1>6. CASE queue # <<>> /\ lastRead' = Head(queue) /\ queue' = Tail(queue) /\ UNCHANGED pkt
  <2>1. /\ Len(queue) >= 1
        /\ Len(queue') = Len(queue) - 1
        /\ lastRead' = queue[1]
        /\ \A i \in 1 .. Len(queue') : queue'[i] = queue[i + 1]
    BY <1>0, <1>6 DEF TypeOK
  <2>2. /\ 1 \in 1 .. Len(queue)
        /\ \A i \in 1 .. Len(queue') : i + 1 \in 1 .. Len(queue) /\ 1 <= i + 1
    BY <1>0, <2>1
  <2>3. \A i \in 1 .. Len(queue) : queue[i] \in Nat /\ queue[1] <= queue[i]
    <3>1. \A i \in 1 .. Len(queue) : 1 <= i
      BY <1>0
    <3>2. QED
      BY <1>0, <2>2, <3>1 DEF OrderPreserved
  <2>4. QueuedIsMarked'
    <3>1. \A i \in 1 .. Len(queue') : fxb'[queue'[i]].stts \in {"Q", "J"}
      BY <1>0, <1>1, <2>1, <2>2 DEF QueuedIsMarked
    <3>2. fxb'[lastRead'].stts \in {"Q", "J"}
      BY <1>0, <1>1, <2>1, <2>2 DEF QueuedIsMarked
    <3>3. pkt' # 0 => /\ fxb'[pkt'].stts \in {"Q", "J"}
                      /\ lastRead' <= pkt'
                      /\ \A i \in 1 .. Len(queue') : queue'[i] <= pkt'
      BY <1>0, <1>1, <1>6, <2>1, <2>2 DEF QueuedIsMarked
    <3>4. QED
      BY <3>1, <3>2, <3>3 DEF QueuedIsMarked, Marked
  <2>5. OrderPreserved'
    <3>1. \A i \in 1 .. Len(queue') : lastRead' <= queue'[i]
      BY <2>1, <2>2, <2>3
    <3>2. ASSUME NEW i \in 1 .. Len(queue'), NEW j \in 1 .. Len(queue'), i <= j
          PROVE  queue'[i] <= queue'[j]
      <4>1. i + 1 <= j + 1
        BY <1>0, <2>1, <3>2
      <4>2. QED
        BY <2>1, <2>2, <4>1 DEF OrderPreserved
    <3>3. QED
      BY <3>1, <3>2 DEF OrderPreserved
  <2>6. QED
    BY <2>4, <2>5
<1>7. QED
  BY <1>2, <1>3, <1>4, <1>5, <1>6, QueueSteps

(***************************************************************************)
(* The inductive invariant and the theorems it gives.                       *)
(***************************************************************************)

(* The invariant holds of the empty books and the empty queue.              *)
LEMMA InvInit == Init => IInv
<1> SUFFICES ASSUME Init PROVE IInv
  OBVIOUS
<1>1. TypeOK
  BY TypeInit
<1>2. RowsInUse /\ UnknownHasNoCounter
  BY DEF Init, RowsInUse, UnknownHasNoCounter, NoRow, Seqs
<1>3. KeyOfXchngbook /\ MarkedFirst
  BY DEF Init, KeyOfXchngbook, MarkedFirst
<1>4. RecordInHand
  BY DEF Init, RecordInHand, ToBeMarked, ToBePacked
<1>5. PackedIsMarked /\ QueuedIsMarked /\ OrderPreserved
  BY DEF Init, PackedIsMarked, QueuedIsMarked, OrderPreserved
<1>6. RoomSeen
  BY ConstantsAssumption DEF ConstantsAssumption, Init, RoomSeen, InLoop
<1>7. QED
  BY <1>1, <1>2, <1>3, <1>4, <1>5, <1>6 DEF IInv

(* Every step preserves the invariant, conjunct by conjunct.                *)
LEMMA InvNext == IInv /\ [Next]_vars => IInv'
<1> SUFFICES ASSUME IInv, [Next]_vars PROVE IInv'
  OBVIOUS
<1>1. BookInv
  BY DEF IInv, BookInv
<1>2. TypeOK'
  BY TypeNext DEF IInv
<1>3. RowsInUse' /\ UnknownHasNoCounter' /\ KeyOfXchngbook'
  BY <1>1, BookStep
<1>4. MarkedFirst'
  BY <1>1, MarkedFirstStep DEF IInv
<1>5. RecordInHand'
  BY <1>1, RecordInHandStep DEF IInv
<1>6. PackedIsMarked'
  BY <1>1, PackedIsMarkedStep DEF IInv
<1>7. QueuedIsMarked' /\ OrderPreserved'
  BY <1>1, QueuedStep DEF IInv
<1>8. RoomSeen'
  BY RoomStep DEF IInv
<1>9. QED
  BY <1>2, <1>3, <1>4, <1>5, <1>6, <1>7, <1>8 DEF IInv

(* The inductive invariant holds in every reachable state.                  *)
THEOREM InvHolds == Spec => []IInv
<1>1. QED
  BY InvInit, InvNext, PTL DEF Spec

(* However often the process dies and comes back, whatever the OMS modifies *)
(* meanwhile, no order of the book is packed twice.                         *)
THEOREM NoOrderIsPackedTwice == Spec => []PackedAtMostOnce
<1>1. IInv => PackedAtMostOnce
  BY DEF IInv, PackedIsMarked, PackedAtMostOnce, TypeOK
<1>2. QED
  BY <1>1, InvHolds, PTL

(* The exchange client receives orders by ascending sequence number, stale  *)
(* repetitions included.                                                    *)
THEOREM OrdersKeepTheirSequence == Spec => []OrderPreserved
<1>1. IInv => OrderPreserved
  BY DEF IInv
<1>2. QED
  BY <1>1, InvHolds, PTL

(***************************************************************************)
(* Starvation.                                                              *)
(***************************************************************************)

(* The record in hand is not a row the service steps over.                  *)
NotSteppedOver == pc \in ToBeMarked => fxb[rec].kind \notin SkippedKinds

(* A row keeps its kind, and a requested row is requested until             *)
(* fnUpdXchngbk has it in hand.                                             *)
LEMMA RowsStay ==
  ASSUME BookInv, [Next]_vars, NEW s \in 1 .. nRows
  PROVE  /\ s \in 1 .. nRows'
         /\ fxb'[s].kind = fxb[s].kind
         /\ fxb[s].stts = "R" => fxb'[s].stts = "R" \/ (fnUpdXchngbk /\ s = rec)
<1> USE DEF BookInv
<1>1. CASE UNCHANGED <<fxb, nRows>>
  BY <1>1
<1>2. CASE (fnUpdXchngbk \/ fnRjctRcrd) /\ nRows' = nRows /\ ~UNCHANGED <<fxb, nRows>>
  <2>1. PICK st \in {"Q", "J"} : fxb' = [fxb EXCEPT ![rec].stts = st]
    BY <1>2, BookSteps, RowsAreSeqs
  <2>2. fnRjctRcrd => fxb[rec].stts # "R"
    BY DEF fnRjctRcrd, RecordInHand, ToBePacked, Marked
  <2>3. QED
    BY <1>2, <2>1, <2>2, RowsAreSeqs DEF TypeOK
<1>3. CASE Oms /\ nRows' = nRows + 1 /\ nRows + 1 \in Seqs /\ ~UNCHANGED <<fxb, nRows>>
  <2>1. PICK r \in Refs, k \in Kinds : AddsRow(r, k)
    BY <1>3, BookSteps, RowsAreSeqs
  <2>2. fxb'[s] = fxb[s]
    BY <1>3, <2>1, RowsAreSeqs DEF AddsRow, TypeOK
  <2>3. QED
    BY <1>3, <2>2, RowsAreSeqs
<1>4. QED
  BY <1>1, <1>2, <1>3, BookSteps

(* fnSeqToOmd takes no such row in hand, and rows keep their kinds.         *)
LEMMA NotSteppedOverStep ==
  ASSUME BookInv, NotSteppedOver, [Next]_vars
  PROVE  NotSteppedOver'
<1>1. CASE fnSeqToOmd
  BY <1>1 DEF fnSeqToOmd, Goto, book, NotSteppedOver, ToBeMarked
<1>2. CASE pc' \notin ToBeMarked
  BY <1>2 DEF NotSteppedOver
<1>3. CASE pc \in ToBeMarked /\ rec' = rec
  BY <1>3, RowsStay DEF NotSteppedOver, BookInv, RecordInHand
<1>4. QED
  BY <1>1, <1>2, <1>3
  DEF Next, Service, vars, CreateQueue, Fn_bat_init, FnCanWriteToQueue, FnBeginTran,
      fnRefToOrd, fnUpdXchngbk, fnUpdOrdrbk, fnGetExtCnt, fnRjctRcrd, FnPackOrdnryOrdToNse,
      FnCommitTran, FnAbortTran, WriteToQueue, Crash, Restart, Receive, Oms, PlaceOrder,
      ModifyOrder, Die, Goto, memory, ToBeMarked

(* The row in hand is the smallest requested one and not stepped over, so   *)
(* it is neither the row that blocks an order nor an order behind it.       *)
LEMMA StarvedStep ==
  ASSUME BookInv, NotSteppedOver, [Next]_vars, NEW s \in Seqs, Starved(s)
  PROVE  Starved(s)'
<1> USE DEF BookInv
<1>1. s \in 1 .. nRows /\ fxb[s].stts = "R"
  BY RowsAreSeqs DEF Starved, RowsInUse, Seqs
<1>2. PICK t \in 1 .. nRows : t <= s /\ fxb[t].stts = "R" /\ fxb[t].kind \in SkippedKinds
  BY DEF Starved, Blocked
<1>3. ~(fnUpdXchngbk /\ rec \in {s, t})
  <2> SUFFICES ASSUME fnUpdXchngbk, rec \in {s, t} PROVE FALSE
    OBVIOUS
  <2>1. /\ fxb[rec].kind \notin SkippedKinds
        /\ rec \in 1 .. nRows
        /\ \A u \in 1 .. nRows : fxb[u].stts = "R" => rec <= u
    BY DEF fnUpdXchngbk, RecordInHand, NotSteppedOver, ToBeMarked, IsNextRequested, Requested
  <2>2. rec <= t
    BY <1>2, <2>1
  <2>3. QED
    BY <1>1, <1>2, <2>1, <2>2, RowsAreSeqs
<1>4. /\ s \in 1 .. nRows' /\ fxb'[s].stts = "R"
      /\ t \in 1 .. nRows' /\ fxb'[t].stts = "R" /\ fxb'[t].kind = fxb[t].kind
  BY <1>1, <1>2, <1>3, RowsStay
<1>5. QED
  BY <1>2, <1>4 DEF Starved, Blocked

(* No record is in hand at the start.                                       *)
LEMMA StarvationInvariant == Spec => [](BookInv /\ NotSteppedOver)
<1>1. Init => NotSteppedOver
  BY DEF Init, NotSteppedOver, ToBeMarked
<1>2. IInv /\ NotSteppedOver /\ [Next]_vars => NotSteppedOver'
  BY NotSteppedOverStep DEF IInv, BookInv
<1>3. IInv => BookInv
  BY DEF IInv, BookInv
<1>4. QED
  BY <1>1, <1>2, <1>3, InvHolds, PTL DEF Spec

(* An order that waits behind a row the service steps over is requested for *)
(* ever: no failure, death, restart or modification brings it to the queue. *)
THEOREM StarvationIsForGood == Spec => StarvedForEver
<1>1. BookInv /\ NotSteppedOver /\ [Next]_vars
        => [\A s \in Seqs : Starved(s) => Starved(s)']_vars
  BY StarvedStep
<1>2. QED
  BY <1>1, StarvationInvariant, PTL DEF Spec, StarvedForEver

(* The same as a formula about whole behaviours: such an order stays        *)
(* requested in every later state.                                          *)
THEOREM StarvedStaysRequested ==
  ASSUME NEW CONSTANT s \in Seqs
  PROVE  Spec => [](Starved(s) => [](fxb[s].stts = "R"))
<1>1. BookInv /\ NotSteppedOver /\ [Next]_vars /\ Starved(s) => Starved(s)'
  BY StarvedStep
<1>2. Starved(s) => fxb[s].stts = "R"
  BY DEF Starved
<1>3. QED
  BY <1>1, <1>2, StarvationInvariant, PTL DEF Spec
================================================================================
