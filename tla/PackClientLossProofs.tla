------------------------- MODULE PackClientLossProofs -------------------------
(***************************************************************************)
(* More theorems about the packing service: which packets repeat, what an   *)
(* order is lost to, and how often the order books disagree.  They rest on   *)
(* the invariant IInv of PackClientProofs and on what Q_packet and the      *)
(* record in hand are at each label (PacketInHand).                         *)
(***************************************************************************)
EXTENDS PackClientProofs, FiniteSetTheorems

(* No record is in hand outside an iteration.                               *)
NoRecord == {"down", "create_queue", "bat_init", "can_write", "begin", "seq_to_omd"}

(* Q_packet is fresh from its packing to its write: then it holds the       *)
(* record in hand, which was never written.  Otherwise it was written.      *)
PacketInHand ==
  /\ pc \in NoRecord => rec = 0
  /\ fresh => pc \in {"commit", "write"} /\ pkt # 0 /\ pkt = rec /\ writes[pkt] = 0
  /\ pkt # 0 => packs[pkt] # 0
  /\ pkt # 0 /\ ~fresh => writes[pkt] # 0
  /\ \A s \in Seqs : writes[s] # 0 => packs[s] # 0

(* Every step keeps what Q_packet and the record in hand are.               *)
LEMMA PacketInHandStep ==
  ASSUME IInv, PacketInHand, [Next]_vars
  PROVE  PacketInHand'
<1> USE DEF book, memory, hist, Goto, NoRecord
<1>0. TypeOK /\ RecordInHand
  BY DEF IInv
<1>1. CASE UNCHANGED <<pc, rec, pkt, fresh, packs, writes>>
  BY <1>1 DEF PacketInHand
<1>2. CASE Die
  BY <1>2 DEF Die, PacketInHand
<1>3. CASE CreateQueue \/ Fn_bat_init \/ FnCanWriteToQueue \/ FnBeginTran \/ FnCommitTran
           \/ fnRefToOrd \/ fnUpdXchngbk \/ fnUpdOrdrbk \/ fnGetExtCnt \/ fnRjctRcrd \/ Restart
  <2>1. CASE Die
    BY <1>2, <2>1
  <2>2. CASE ~Die
    <3>1. UNCHANGED <<rec, pkt, fresh, packs, writes>>
      BY <1>3, <2>2 DEF CreateQueue, Fn_bat_init, FnCanWriteToQueue, FnBeginTran, FnCommitTran,
         fnRefToOrd, fnUpdXchngbk, fnUpdOrdrbk, fnGetExtCnt, fnRjctRcrd, Restart
    <3>2. pc' \in NoRecord => pc \in NoRecord
      BY <1>3, <2>2 DEF CreateQueue, Fn_bat_init, FnCanWriteToQueue, FnBeginTran, FnCommitTran,
         fnRefToOrd, fnUpdXchngbk, fnUpdOrdrbk, fnGetExtCnt, fnRjctRcrd, Restart
    <3>3. pc \in {"commit", "write"} => pc' \in {"commit", "write"}
      BY <1>3, <2>2 DEF CreateQueue, Fn_bat_init, FnCanWriteToQueue, FnBeginTran, FnCommitTran,
         fnRefToOrd, fnUpdXchngbk, fnUpdOrdrbk, fnGetExtCnt, fnRjctRcrd, Restart
    <3>4. QED
      BY <3>1, <3>2, <3>3 DEF PacketInHand
  <2>3. QED
    BY <2>1, <2>2
<1>4. CASE fnSeqToOmd
  <2>1. ~fresh
    BY <1>4 DEF fnSeqToOmd, PacketInHand
  <2>2. UNCHANGED <<pkt, fresh, packs, writes>> /\ pc' \notin NoRecord
    BY <1>4 DEF fnSeqToOmd, SkippedKinds
  <2>3. QED
    BY <2>1, <2>2 DEF PacketInHand
<1>5. CASE FnPackOrdnryOrdToNse /\ ~Die
  <2>1. ~fresh /\ rec \in Seqs /\ packs[rec] = 0 /\ writes[rec] = 0 /\ rec # 0
    BY <1>0, <1>5, RowsAreSeqs
       DEF FnPackOrdnryOrdToNse, PacketInHand, RecordInHand, ToBePacked, Seqs
  <2>2. CASE UNCHANGED <<rec, pkt, fresh, packs, writes>> /\ pc' = "commit"
    BY <2>1, <2>2 DEF PacketInHand
  <2>3. CASE /\ pkt' = rec /\ fresh' = TRUE /\ packs' = [packs EXCEPT ![rec] = AtMostTwo(@)]
             /\ pc' = "commit" /\ UNCHANGED <<rec, writes>>
    <3>1. packs \in [Seqs -> 0 .. 2] /\ AtMostTwo(packs[rec]) # 0
      BY <1>0, <2>1 DEF TypeOK, AtMostTwo
    <3>2. packs'[rec] # 0 /\ \A s \in Seqs : packs[s] # 0 => packs'[s] # 0
      BY <2>1, <2>3, <3>1
    <3>3. QED
      BY <2>1, <2>3, <3>2 DEF PacketInHand
  <2>4. QED
    BY <1>5, <2>2, <2>3 DEF FnPackOrdnryOrdToNse
<1>6. CASE WriteToQueue /\ ~Die
  <2>1. /\ pkt # 0 /\ writes' = [writes EXCEPT ![pkt] = AtMostTwo(@)]
        /\ rec' = 0 /\ ~fresh' /\ UNCHANGED <<pkt, packs>>
    BY <1>6 DEF WriteToQueue
  <2>2. pkt \in Seqs /\ writes \in [Seqs -> 0 .. 2]
    BY <1>0, <2>1 DEF TypeOK
  <2>3. AtMostTwo(writes[pkt]) # 0
    BY <2>2 DEF AtMostTwo
  <2>4. writes'[pkt] # 0 /\ \A s \in Seqs : s # pkt => writes'[s] = writes[s]
    BY <2>1, <2>2, <2>3
  <2>5. QED
    BY <2>1, <2>2, <2>4 DEF PacketInHand
<1>7. QED
  BY <1>1, <1>2, <1>3, <1>4, <1>5, <1>6
     DEF Next, Service, FnAbortTran, Crash, Oms, PlaceOrder, ModifyOrder, Receive, vars

(***************************************************************************)
(* Lost orders.                                                             *)
(***************************************************************************)

(* The lost orders, and the record in hand once its packing has failed: it  *)
(* is lost as soon as WriteToQueue has sent the packet before it.           *)
Losing ==
  {s \in Seqs : /\ Marked(s)
                /\ writes[s] = 0
                /\ s # rec \/ (pc \in {"commit", "write"} /\ ~fresh)}

(* An order once written stays written.                                     *)
LEMMA WritesStay ==
  ASSUME TypeOK, [Next]_vars, NEW s \in Seqs, writes[s] # 0
  PROVE  writes'[s] # 0
<1>1. CASE UNCHANGED writes
  BY <1>1
<1>2. CASE ~UNCHANGED writes
  <2>1. writes' = [writes EXCEPT ![pkt] = AtMostTwo(@)]
    BY <1>2 DEF Next, Service, CreateQueue, Fn_bat_init, FnCanWriteToQueue, FnBeginTran,
       fnSeqToOmd, fnRefToOrd, fnUpdXchngbk, fnUpdOrdrbk, fnGetExtCnt, fnRjctRcrd,
       FnPackOrdnryOrdToNse, FnCommitTran, FnAbortTran, WriteToQueue, Crash, Restart, Oms,
       PlaceOrder, ModifyOrder, Receive, Die, vars, hist
  <2>2. writes \in [Seqs -> 0 .. 2] /\ AtMostTwo(writes[s]) # 0
    BY DEF TypeOK, AtMostTwo
  <2>3. QED
    BY <2>1, <2>2
<1>3. QED
  BY <1>1, <1>2

(* A step that adds an order to the losing ones adds the record in hand     *)
(* alone, and is a death or a failed packing.                               *)
LEMMA LosingStep ==
  ASSUME IInv, PacketInHand, [Next]_vars
  PROVE  \/ /\ Losing' \subseteq Losing
            /\ UNCHANGED <<deaths, packFails>>
         \/ /\ Losing' \subseteq Losing \cup {rec}
            /\ deaths' + packFails' = deaths + packFails + 1
<1> USE DEF book, memory, hist, Goto
<1>0. TypeOK /\ BookInv /\ deaths \in Nat /\ packFails \in Nat
  BY DEF IInv, BookInv, TypeOK
<1>1. \A s \in Seqs : writes'[s] = 0 => writes[s] = 0
  BY <1>0, WritesStay
<1>2. \A s \in Seqs : Marked(s)' => Marked(s) \/ (fnUpdXchngbk /\ s = rec)
  BY <1>0, MarksStay
<1>3. CASE Die
  <2>1. deaths' + packFails' = deaths + packFails + 1 /\ UNCHANGED fxb
    BY <1>0, <1>3 DEF Die
  <2>2. Losing' \subseteq Losing \cup {rec}
    BY <1>1, <2>1 DEF Losing, Marked
  <2>3. QED
    BY <2>1, <2>2
<1>4. CASE fnUpdXchngbk /\ ~Die
  <2>1. UNCHANGED <<rec, deaths, packFails>> /\ pc' \notin {"commit", "write"}
    BY <1>4 DEF fnUpdXchngbk
  <2>2. Losing' \subseteq Losing
    BY <1>1, <1>2, <2>1 DEF Losing
  <2>3. QED
    BY <2>1, <2>2
<1>5. CASE FnPackOrdnryOrdToNse /\ ~Die
  <2>1. UNCHANGED <<fxb, rec, writes, deaths>>
    BY <1>5 DEF FnPackOrdnryOrdToNse
  <2>2. CASE fresh'
    <3>1. UNCHANGED packFails
      BY <1>5, <2>2 DEF FnPackOrdnryOrdToNse, PacketInHand
    <3>2. Losing' \subseteq Losing
      BY <2>1, <2>2 DEF Losing, Marked
    <3>3. QED
      BY <2>1, <3>1, <3>2
  <2>3. CASE ~fresh'
    <3>1. packFails' = packFails + 1
      BY <1>5, <2>3 DEF FnPackOrdnryOrdToNse
    <3>2. Losing' \subseteq Losing \cup {rec}
      BY <2>1 DEF Losing, Marked
    <3>3. QED
      BY <1>0, <2>1, <3>1, <3>2
  <2>4. QED
    BY <2>2, <2>3
<1>6. CASE WriteToQueue /\ ~Die
  <2>1. /\ pc = "write" /\ pkt # 0 /\ writes' = [writes EXCEPT ![pkt] = AtMostTwo(@)]
        /\ UNCHANGED <<fxb, deaths, packFails>>
    BY <1>6 DEF WriteToQueue
  <2>2. pkt \in Seqs /\ writes'[pkt] # 0
    BY <1>0, <2>1 DEF TypeOK, AtMostTwo
  <2>3. fresh => pkt = rec
    BY DEF PacketInHand
  <2>4. Losing' \subseteq Losing
    BY <1>1, <2>1, <2>2, <2>3 DEF Losing, Marked
  <2>5. QED
    BY <2>1, <2>4
<1>7. CASE fnSeqToOmd
  <2>1. rec = 0 /\ UNCHANGED <<fxb, deaths, packFails>>
    BY <1>7 DEF fnSeqToOmd, PacketInHand, NoRecord
  <2>2. Losing' \subseteq Losing
    BY <1>1, <2>1 DEF Losing, Marked, Seqs
  <2>3. QED
    BY <2>1, <2>2
<1>8. CASE /\ UNCHANGED <<rec, fresh, deaths, packFails>> /\ ~fnUpdXchngbk
           /\ pc' \in {"commit", "write"} => pc \in {"commit", "write"}
  <2>1. Losing' \subseteq Losing
    BY <1>1, <1>2, <1>8 DEF Losing
  <2>2. QED
    BY <1>8, <2>1
<1>9. CASE CreateQueue \/ Fn_bat_init \/ FnCanWriteToQueue \/ FnBeginTran \/ FnCommitTran
           \/ fnRefToOrd \/ fnUpdOrdrbk \/ fnGetExtCnt \/ fnRjctRcrd \/ Restart
  <2>1. CASE ~Die /\ ~fnUpdXchngbk
    <3>1. UNCHANGED <<rec, fresh, deaths, packFails>>
      BY <1>9, <2>1 DEF CreateQueue, Fn_bat_init, FnCanWriteToQueue, FnBeginTran, FnCommitTran,
         fnRefToOrd, fnUpdOrdrbk, fnGetExtCnt, fnRjctRcrd, Restart
    <3>2. pc' \in {"commit", "write"} => pc \in {"commit", "write"}
      BY <1>9, <2>1 DEF CreateQueue, Fn_bat_init, FnCanWriteToQueue, FnBeginTran, FnCommitTran,
         fnRefToOrd, fnUpdOrdrbk, fnGetExtCnt, fnRjctRcrd, Restart
    <3>3. QED
      BY <1>8, <2>1, <3>1, <3>2
  <2>2. QED
    BY <1>3, <1>4, <2>1
<1>10. CASE Oms \/ Receive \/ UNCHANGED vars
  <2>1. UNCHANGED <<rec, fresh, deaths, packFails, pc>>
    BY <1>10 DEF Oms, PlaceOrder, ModifyOrder, Receive, vars
  <2>2. QED
    BY <1>4, <1>3, <1>8, <2>1
<1>11. QED
  BY <1>3, <1>4, <1>5, <1>6, <1>7, <1>9, <1>10 DEF Next, Service, FnAbortTran, Crash

LossCount == Cardinality(Losing) <= deaths + packFails

(* Each losing order has its death or its failed packing.                   *)
LEMMA LossCountStep ==
  ASSUME IInv, PacketInHand, LossCount, [Next]_vars
  PROVE  LossCount'
<1>1. deaths \in Nat /\ packFails \in Nat
  BY DEF IInv, TypeOK
<1>2. IsFiniteSet(Losing)
  <2>1. IsFiniteSet(Seqs)
    BY ConstantsAssumption, FS_Interval DEF ConstantsAssumption, Seqs
  <2>2. QED
    BY <2>1, FS_Subset DEF Losing
<1>3. Cardinality(Losing) \in Nat
  BY <1>2, FS_CardinalityType
<1>4. CASE Losing' \subseteq Losing /\ UNCHANGED <<deaths, packFails>>
  <2>1. Cardinality(Losing') <= Cardinality(Losing)
    BY <1>2, <1>4, FS_Subset
  <2>2. Cardinality(Losing') \in Nat
    BY <1>2, <1>4, FS_Subset, FS_CardinalityType
  <2>3. QED
    BY <1>1, <1>3, <1>4, <2>1, <2>2 DEF LossCount
<1>5. CASE /\ Losing' \subseteq Losing \cup {rec}
           /\ deaths' + packFails' = deaths + packFails + 1
  <2>1. /\ IsFiniteSet(Losing \cup {rec})
        /\ Cardinality(Losing \cup {rec}) <= Cardinality(Losing) + 1
    BY <1>2, <1>3, FS_AddElement
  <2>2. IsFiniteSet(Losing') /\ Cardinality(Losing') <= Cardinality(Losing \cup {rec})
    BY <1>5, <2>1, FS_Subset
  <2>3. Cardinality(Losing') \in Nat /\ Cardinality(Losing \cup {rec}) \in Nat
    BY <2>1, <2>2, FS_CardinalityType
  <2>4. QED
    BY <1>1, <1>3, <1>5, <2>1, <2>2, <2>3 DEF LossCount
<1>6. QED
  BY <1>4, <1>5, LosingStep

(***************************************************************************)
(* The two order books.                                                     *)
(***************************************************************************)

(* While the process lives, only the update of fnUpdOrdrbk and the abort    *)
(* after it leave the label at which the books disagree.                    *)
LEMMA AgreementStays ==
  ASSUME IInv, [Next]_vars, ~Die, NEW s \in Disagreeing'
  PROVE  s \in Disagreeing
<1> USE DEF book, memory, hist, Goto
<1>0. TypeOK /\ BookInv /\ RowsInUse /\ RecordInHand
  BY DEF IInv, BookInv
<1> SUFFICES ASSUME s \notin Disagreeing, s \in 1 .. nRows', Marked(s)', CountersMatch(s)',
                    ~(rec' = s /\ pc' \in {"upd_ordrbk", "abort"})
             PROVE  fod'[fxb'[s].ref].stts = "Q"
  BY DEF Disagreeing
<1>1. ~Die
  OBVIOUS
<1>2. ASSUME s \in 1 .. nRows, Marked(s), CountersMatch(s),
             ~(rec = s /\ pc \in {"upd_ordrbk", "abort"})
      PROVE  fod[fxb[s].ref].stts = "Q"
  BY <1>2 DEF Disagreeing
<1>3. CASE UNCHANGED book
  <2>1. s \in 1 .. nRows /\ Marked(s) /\ CountersMatch(s)
    BY <1>3 DEF Marked, CountersMatch
  <2>2. CASE ~(rec = s /\ pc \in {"upd_ordrbk", "abort"})
    BY <1>2, <1>3, <2>1, <2>2
  <2>3. CASE rec = s /\ pc \in {"upd_ordrbk", "abort"}
    <3>1. fnUpdOrdrbk
      BY <1>1, <1>3, <2>3
         DEF Next, Service, CreateQueue, Fn_bat_init, FnCanWriteToQueue, FnBeginTran,
         fnSeqToOmd, fnRefToOrd, fnUpdXchngbk, fnGetExtCnt, fnRjctRcrd, FnPackOrdnryOrdToNse,
         FnCommitTran, FnAbortTran, WriteToQueue, Crash, Restart, Oms, PlaceOrder,
         ModifyOrder, Receive, vars
    <3>2. fod' = [fod EXCEPT ![fxb[rec].ref].stts = "Q"]
      BY <2>3, <3>1 DEF fnUpdOrdrbk
    <3>3. QED
      BY <1>0, <1>3, <2>1, <2>3, <3>2, RowsAreSeqs DEF TypeOK, RowsInUse
  <2>4. QED
    BY <2>2, <2>3
<1>4. CASE fnUpdXchngbk /\ ~UNCHANGED book
  <2>1. rec \in 1 .. nRows /\ UNCHANGED <<rec, nRows, fod>> /\ pc' = "upd_ordrbk"
        /\ \E st \in {"Q", "J"} : fxb' = [fxb EXCEPT ![rec].stts = st]
    BY <1>0, <1>4, BookSteps DEF fnUpdXchngbk, Oms, PlaceOrder, ModifyOrder
  <2>2. s # rec /\ s \in Seqs /\ fxb'[s] = fxb[s]
    BY <1>0, <2>1, RowsAreSeqs
  <2>3. s \in 1 .. nRows /\ Marked(s) /\ CountersMatch(s)
    BY <2>1, <2>2 DEF Marked, CountersMatch
  <2>4. QED
    BY <1>2, <2>1, <2>2, <2>3
<1>5. CASE fnUpdOrdrbk
  <2>1. UNCHANGED <<fxb, nRows, rec>> /\ pc = "upd_ordrbk" /\ rec \in 1 .. nRows
    BY <1>0, <1>5 DEF fnUpdOrdrbk, RecordInHand, ToBePacked
  <2>2. s \in 1 .. nRows /\ s \in Seqs /\ rec \in Seqs /\ Marked(s)
    BY <1>0, <2>1, RowsAreSeqs DEF Marked
  <2>3. fxb[s].ref \in Refs /\ fxb[rec].ref \in Refs
    BY <1>0, <2>1, <2>2 DEF RowsInUse
  <2>4. CASE fod' = [fod EXCEPT ![fxb[rec].ref].stts = "Q"]
    <3>1. CASE fxb[s].ref = fxb[rec].ref
      BY <1>0, <2>1, <2>3, <2>4, <3>1 DEF TypeOK
    <3>2. CASE fxb[s].ref # fxb[rec].ref
      <4>1. fod'[fxb[s].ref] = fod[fxb[s].ref] /\ s # rec
        BY <2>4, <3>2
      <4>2. CountersMatch(s)
        BY <2>1, <4>1 DEF CountersMatch
      <4>3. QED
        BY <1>2, <2>1, <2>2, <4>1, <4>2
    <3>3. QED
      BY <3>1, <3>2
  <2>5. CASE UNCHANGED fod /\ pc' = "abort"
    <3>1. s # rec /\ CountersMatch(s)
      BY <2>1, <2>5 DEF CountersMatch
    <3>2. QED
      BY <1>2, <2>1, <2>2, <2>5, <3>1
  <2>6. QED
    BY <1>5, <2>4, <2>5 DEF fnUpdOrdrbk
<1>6. CASE fnRjctRcrd /\ ~UNCHANGED book
  <2>1. rec \in 1 .. nRows /\ UNCHANGED <<nRows, fod>> /\ pc = "rjct_rcrd"
        /\ \E st \in {"Q", "J"} : fxb' = [fxb EXCEPT ![rec].stts = st]
    BY <1>0, <1>6, BookSteps DEF fnRjctRcrd, Oms, PlaceOrder, ModifyOrder
  <2>2. s \in 1 .. nRows /\ s \in Seqs
    BY <1>0, <2>1, RowsAreSeqs
  <2>3. fxb'[s].ref = fxb[s].ref /\ fxb'[s].ctr = fxb[s].ctr
    BY <1>0, <2>1, <2>2 DEF TypeOK, Rows
  <2>4. Marked(s)
    BY <1>0, <2>1, <2>2, MarksStay DEF fnUpdXchngbk
  <2>5. CountersMatch(s)
    BY <2>1, <2>3 DEF CountersMatch
  <2>6. QED
    BY <1>2, <2>1, <2>2, <2>3, <2>4, <2>5
<1>7. CASE Oms /\ ~UNCHANGED <<fxb, nRows>>
  <2>0. UNCHANGED <<pc, rec>> /\ ~fnUpdXchngbk /\ ~fnRjctRcrd
    <3>1. UNCHANGED <<pc, rec>>
      BY <1>7 DEF Oms, PlaceOrder, ModifyOrder
    <3>2. QED
      BY <3>1 DEF fnUpdXchngbk, fnRjctRcrd
  <2>1. PICK r \in Refs, k \in Kinds :
          AddsRow(r, k) /\ nRows + 1 \in Seqs /\ nRows' = nRows + 1
    BY <1>0, <1>7, <2>0, BookSteps
  <2>2. fxb'[nRows + 1].stts = "R" /\ \A t \in Seqs : t # nRows + 1 => fxb'[t] = fxb[t]
    BY <1>0, <2>1 DEF AddsRow, TypeOK
  <2>3. s \in 1 .. nRows /\ s \in Seqs /\ fxb'[s] = fxb[s] /\ Marked(s)
    BY <1>0, <2>1, <2>2, RowsAreSeqs DEF Marked
  <2>4. fxb[s].ref \in Refs /\ fxb[s].ctr <= fod[fxb[s].ref].ctr
    BY <1>0, <2>3 DEF RowsInUse
  <2>5. CASE fxb[s].ref = r
    <3>1. fod'[r].ctr = fod[r].ctr + 1
      BY <1>0, <2>1 DEF AddsRow, TypeOK
    <3>2. fxb[s].ctr \in Nat /\ fod[r].ctr \in Nat
      BY <1>0, <2>3 DEF TypeOK, Rows
    <3>3. fxb[s].ctr = fod[r].ctr + 1
      BY <2>3, <2>5, <3>1 DEF CountersMatch
    <3>4. QED
      BY <2>4, <2>5, <3>2, <3>3
  <2>6. CASE fxb[s].ref # r
    <3>1. fod'[fxb[s].ref] = fod[fxb[s].ref]
      BY <2>1, <2>6 DEF AddsRow
    <3>2. CountersMatch(s)
      BY <2>3, <3>1 DEF CountersMatch
    <3>3. QED
      BY <1>2, <2>0, <2>3, <3>1, <3>2
  <2>7. QED
    BY <2>5, <2>6
<1>8. CASE Oms /\ UNCHANGED <<fxb, nRows>>
  <2>1. nRows' = nRows + 1
    BY <1>8 DEF Oms, PlaceOrder, ModifyOrder
  <2>2. QED
    BY <1>0, <1>8, <2>1 DEF TypeOK
<1>9. QED
  BY <1>3, <1>4, <1>5, <1>6, <1>7, <1>8, WhoWritesTheBooks

(* The end of the process adds the record in hand, other steps add nothing. *)
LEMMA DisagreeingStep ==
  ASSUME IInv, [Next]_vars
  PROVE  \/ Disagreeing' \subseteq Disagreeing /\ UNCHANGED deaths
         \/ Disagreeing' \subseteq Disagreeing \cup {rec} /\ deaths' = deaths + 1
<1>1. CASE Die
  BY <1>1 DEF Die, book, Disagreeing, Marked, CountersMatch
<1>2. CASE ~Die
  <2>1. UNCHANGED deaths
    BY <1>2 DEF Next, Service, CreateQueue, Fn_bat_init, FnCanWriteToQueue, FnBeginTran,
       fnSeqToOmd, fnRefToOrd, fnUpdXchngbk, fnUpdOrdrbk, fnGetExtCnt, fnRjctRcrd,
       FnPackOrdnryOrdToNse, FnCommitTran, FnAbortTran, WriteToQueue, Crash, Restart, Oms,
       PlaceOrder, ModifyOrder, Receive, vars, hist
  <2>2. QED
    BY <1>2, <2>1, AgreementStays
<1>3. QED
  BY <1>1, <1>2

(* Each disagreement that lasts has its end of the process.                 *)
LEMMA DisagreementsStep ==
  ASSUME IInv, DisagreementsHaveCauses, [Next]_vars
  PROVE  DisagreementsHaveCauses'
<1>1. deaths \in Nat /\ nRows \in Nat
  BY ConstantsAssumption DEF ConstantsAssumption, IInv, TypeOK
<1>2. IsFiniteSet(Disagreeing) /\ Cardinality(Disagreeing) \in Nat
  <2>1. IsFiniteSet(1 .. nRows)
    BY <1>1, FS_Interval
  <2>2. QED
    BY <2>1, FS_Subset, FS_CardinalityType DEF Disagreeing
<1>3. CASE Disagreeing' \subseteq Disagreeing /\ UNCHANGED deaths
  <2>1. Cardinality(Disagreeing') <= Cardinality(Disagreeing) /\ Cardinality(Disagreeing') \in Nat
    BY <1>2, <1>3, FS_Subset, FS_CardinalityType
  <2>2. QED
    BY <1>1, <1>2, <1>3, <2>1 DEF DisagreementsHaveCauses
<1>4. CASE Disagreeing' \subseteq Disagreeing \cup {rec} /\ deaths' = deaths + 1
  <2>1. /\ IsFiniteSet(Disagreeing \cup {rec})
        /\ Cardinality(Disagreeing \cup {rec}) <= Cardinality(Disagreeing) + 1
    BY <1>2, FS_AddElement
  <2>2. /\ IsFiniteSet(Disagreeing')
        /\ Cardinality(Disagreeing') <= Cardinality(Disagreeing \cup {rec})
    BY <1>4, <2>1, FS_Subset
  <2>3. Cardinality(Disagreeing') \in Nat /\ Cardinality(Disagreeing \cup {rec}) \in Nat
    BY <2>1, <2>2, FS_CardinalityType
  <2>4. QED
    BY <1>1, <1>2, <1>4, <2>1, <2>2, <2>3 DEF DisagreementsHaveCauses
<1>5. QED
  BY <1>3, <1>4, DisagreeingStep

(***************************************************************************)
(* The theorems.                                                            *)
(***************************************************************************)

(* Packets, losses and books, together with the invariant they rest on.     *)
JInv == IInv /\ PacketInHand /\ LossCount /\ DisagreementsHaveCauses

(* The strengthened invariant holds in every reachable state.               *)
LEMMA JInvHolds == Spec => []JInv
<1>1. Init => JInv
  <2> SUFFICES ASSUME Init PROVE JInv
    OBVIOUS
  <2>1. IInv
    BY InvInit
  <2>2. PacketInHand
    BY DEF Init, PacketInHand
  <2>3. Losing = {}
    BY DEF Init, Losing, Marked, NoRow
  <2>4. LossCount
    BY <2>3, FS_EmptySet DEF LossCount, Init
  <2>5. DisagreementsHaveCauses
    <3>1. Disagreeing = {}
      BY DEF Init, Disagreeing
    <3>2. QED
      BY <3>1, FS_EmptySet DEF DisagreementsHaveCauses, Init
  <2>6. QED
    BY <2>1, <2>2, <2>4, <2>5 DEF JInv
<1>2. JInv /\ [Next]_vars => JInv'
  BY InvNext, PacketInHandStep, LossCountStep, DisagreementsStep DEF JInv
<1>3. QED
  BY <1>1, <1>2, PTL DEF Spec

(* The second and later copies of an order in the queue come from           *)
(* iterations that packed nothing.                                          *)
THEOREM RepetitionsAreStale == Spec => []OnlyStalePacketsRepeat
<1>1. JInv => OnlyStalePacketsRepeat
  BY DEF JInv, PacketInHand, OnlyStalePacketsRepeat
<1>2. QED
  BY <1>1, JInvHolds, PTL

(* Whatever fails and however often the process dies, each lost order has   *)
(* its own death or its own failed packing.                                 *)
THEOREM LossesHaveCauses == Spec => []LossBounded
<1>1. JInv => LossBounded
  <2> SUFFICES ASSUME JInv PROVE LossBounded
    OBVIOUS
  <2>1. Lost \subseteq Losing
    BY DEF Lost, Losing
  <2>2. IsFiniteSet(Losing)
    <3>1. IsFiniteSet(Seqs)
      BY ConstantsAssumption, FS_Interval DEF ConstantsAssumption, Seqs
    <3>2. QED
      BY <3>1, FS_Subset DEF Losing
  <2>3. /\ Cardinality(Lost) <= Cardinality(Losing)
        /\ Cardinality(Lost) \in Nat /\ Cardinality(Losing) \in Nat
    BY <2>1, <2>2, FS_Subset, FS_CardinalityType
  <2>4. QED
    BY <2>3 DEF JInv, IInv, TypeOK, LossCount, LossBounded
<1>2. QED
  BY <1>1, JInvHolds, PTL

(* However the OMS modifies the orders meanwhile, the books disagree on no  *)
(* more orders than the process has ended times; on none before the first.  *)
THEOREM OneDisagreementPerEnd == Spec => []DisagreementsHaveCauses
<1>1. JInv => DisagreementsHaveCauses
  BY DEF JInv
<1>2. QED
  BY <1>1, JInvHolds, PTL
================================================================================
