------------------------- MODULE DataForwardLossProofs -------------------------
(***************************************************************************)
(* What one end of the process costs, what the exchange reads, and what the *)
(* exchange client keeps of its promises, for every value of the constants. *)
(*                                                                          *)
(* An order is losing (Losing) from the moment nothing will send it any     *)
(* more: a failed packing, a failed write or the end of the process.  Each  *)
(* step adds at most as many losing orders as it adds to what may be lost   *)
(* (Allowance): the end of the process the record in hand and the order in  *)
(* fn_writen, a failed write the order in fn_writen, a failed packing the   *)
(* record in hand.                                                          *)
(*                                                                          *)
(* The wire ends with the order in fn_writen or with one not newer than the *)
(* last received (WireInv), and the packing service queues orders by their  *)
(* number.  The steps of the client are those of EsrClient, but for its     *)
(* queue, which the packing service fills (ClientStep).                     *)
(***************************************************************************)
EXTENDS DataForwardProofs, FiniteSetTheorems

(* fn_writen has an order only while it writes; there is no send_thrd       *)
(* before the dial.                                                         *)
ClientInv ==
  /\ cur # 0 => spc = "write"
  /\ spc # "none" => epc \in {"wait", "returned"}

Losing ==
  {s \in Seqs : /\ Marked(s)
                /\ s \notin sent /\ s # cur /\ s \notin Range(queue)
                /\ s # rec \/ (pc \in {"commit", "write"} /\ ~fresh)}

Allowance == 2 * deaths + packFails + (IF spc = "ended" THEN 1 ELSE 0)

LossInv == Cardinality(Losing) <= Allowance

(* fn_writen and send_thrd keep to their labels.                            *)
LEMMA ClientInvStep ==
  ASSUME Books!TypeOK, ClientInv, [Next]_vars
  PROVE  ClientInv'
<1>1. CASE UNCHANGED clientVars
  BY <1>1 DEF clientVars, ClientInv
<1>2. CASE PackingService
  BY <1>1, <1>2 DEF PackingService, ClientInv, Client!Die
<1>3. CASE Dial
  BY <1>3 DEF Dial, Client!Dial, Client!Die, ClientInv
<1>4. CASE SendThrd
  <2>1. UNCHANGED epc /\ spc # "none" /\ (cur' # 0 => spc' = "write")
    <3>1. CASE TakeOrder
      BY <3>1 DEF TakeOrder, Client!TakeOrder, Client!ReadFromQueue
    <3>2. ASSUME NEW n \in 1 .. MsgLen, Client!WriteSome(n)
          PROVE  UNCHANGED epc /\ spc # "none" /\ (cur' # 0 => spc' = "write")
      BY <3>2 DEF Client!WriteSome, Client!FinishOrder
    <3>3. CASE Client!WriteFails
      BY <3>3 DEF Client!WriteFails
    <3>4. CASE Client!ReadGlobalQId
      BY <3>4, <1>4 DEF Client!ReadGlobalQId, ClientInv
    <3>5. ASSUME NEW n \in 1 .. MsgLen, Client!WriteTimesOut(n)
          PROVE  UNCHANGED epc /\ spc # "none" /\ (cur' # 0 => spc' = "write")
      BY <3>5 DEF Client!WriteTimesOut, Client!svars
    <3>6. QED
      BY <1>4, <3>1, <3>2, <3>3, <3>4, <3>5 DEF SendThrd
  <2>2. QED
    BY <2>1 DEF ClientInv
<1>5. CASE RcvThrd \/ ClnEsrClnt
  BY <1>5 DEF RcvThrd, ClnEsrClnt, Client!RcvThrd, Client!readNBytes, Client!ReadFails,
              Client!ClnEsrClnt, Client!svars, ClientInv
<1>6. CASE Exchange
  BY <1>6 DEF Exchange, Client!PeerCloses, Client!FrameArrives, Client!svars, ClientInv
<1>7. CASE Crash
  BY <1>7 DEF Crash, Client!ProcessEnds, Client!Die, ClientInv
<1>8. CASE Restart
  BY <1>8 DEF Restart, Client!Restart, Client!svars, ClientInv
<1>9. QED
  BY <1>1, <1>2, <1>3, <1>4, <1>5, <1>6, <1>7, <1>8 DEF Next, Oms, vars

(* Only the update of fnUpdXchngbk marks an order.                          *)
LEMMA NewMarks ==
  ASSUME Books!IInv, OneProcess, [Next]_vars, NEW s \in Seqs, Marked(s)'
  PROVE  Marked(s) \/ (Books!fnUpdXchngbk /\ s = rec)
<1>1. Books!BookInv
  BY DEF Books!IInv, Books!BookInv
<1>2. [Books!Next]_(Books!vars)
  BY PackStep
<1>3. Books!Marked(s)' => Books!Marked(s) \/ (Books!fnUpdXchngbk /\ s = rec)
  BY <1>1, <1>2, BooksConstants, Books!MarksStay DEF Seqs, Books!Seqs
<1>4. QED
  BY <1>3 DEF Marked, Books!Marked

(* The service runs only while the process does.                            *)
LEMMA RunsWhileUp == Books!Service => pc # "down"
BY DEF Books!Service, Books!CreateQueue, Books!Fn_bat_init, Books!FnCanWriteToQueue,
       Books!FnBeginTran, Books!fnSeqToOmd, Books!fnRefToOrd, Books!fnUpdXchngbk,
       Books!fnUpdOrdrbk, Books!fnGetExtCnt, Books!fnRjctRcrd, Books!FnPackOrdnryOrdToNse,
       Books!FnCommitTran, Books!FnAbortTran, Books!WriteToQueue

(* Only its end stops it.                                                   *)
LEMMA DownIsDead == Books!Service /\ ~Books!Die => pc' # "down"
BY DEF Books!Service, Books!CreateQueue, Books!Fn_bat_init, Books!FnCanWriteToQueue,
       Books!FnBeginTran, Books!fnSeqToOmd, Books!fnRefToOrd, Books!fnUpdXchngbk,
       Books!fnUpdOrdrbk, Books!fnGetExtCnt, Books!fnRjctRcrd, Books!FnPackOrdnryOrdToNse,
       Books!FnCommitTran, Books!FnAbortTran, Books!WriteToQueue, Books!Goto

(* A step of the service that does not end the process costs the record in  *)
(* hand when its packing fails, and nothing otherwise.                      *)
LEMMA ServiceCosts ==
  ASSUME Books!IInv, OneProcess, Books!PacketInHand, [Next]_vars, Books!Service, ~Books!Die,
         UNCHANGED clientVars
  PROVE  /\ UNCHANGED deaths
         /\ \/ Losing' \subseteq Losing /\ UNCHANGED packFails
            \/ Losing' \subseteq Losing \cup {rec} /\ packFails' = packFails + 1
<1> USE DEF Books!book, Books!memory, Books!hist, Books!Goto
<1>0. \A s \in Seqs : Marked(s)' => Marked(s) \/ (Books!fnUpdXchngbk /\ s = rec)
  BY NewMarks
<1>1. UNCHANGED <<sent, cur>>
  BY DEF clientVars
<1>2. CASE /\ UNCHANGED <<rec, fresh, deaths, packFails, queue>> /\ ~Books!fnUpdXchngbk
           /\ pc' \in {"commit", "write"} => pc \in {"commit", "write"}
  BY <1>0, <1>1, <1>2 DEF Losing
<1>3. CASE Books!CreateQueue \/ Books!Fn_bat_init \/ Books!FnCanWriteToQueue
           \/ Books!FnBeginTran \/ Books!FnCommitTran \/ Books!fnRefToOrd
           \/ Books!fnUpdOrdrbk \/ Books!fnGetExtCnt \/ Books!fnRjctRcrd
  <2>1. /\ UNCHANGED <<rec, fresh, deaths, packFails, queue>> /\ ~Books!fnUpdXchngbk
        /\ pc' \in {"commit", "write"} => pc \in {"commit", "write"}
    BY <1>3 DEF Books!CreateQueue, Books!Fn_bat_init, Books!FnCanWriteToQueue,
       Books!FnBeginTran, Books!FnCommitTran, Books!fnRefToOrd, Books!fnUpdOrdrbk,
       Books!fnGetExtCnt, Books!fnRjctRcrd, Books!fnUpdXchngbk
  <2>2. QED
    BY <1>2, <2>1
<1>4. CASE Books!fnUpdXchngbk
  <2>1. UNCHANGED <<rec, deaths, packFails, queue>> /\ pc' \notin {"commit", "write"}
    BY <1>4 DEF Books!fnUpdXchngbk
  <2>2. QED
    BY <1>0, <1>1, <2>1 DEF Losing
<1>5. CASE Books!fnSeqToOmd
  <2>1. rec = 0 /\ UNCHANGED <<fxb, queue, deaths, packFails>>
    BY <1>5 DEF Books!fnSeqToOmd, Books!PacketInHand, Books!NoRecord
  <2>2. QED
    BY <1>1, <2>1 DEF Losing, Marked, Seqs
<1>6. CASE Books!FnPackOrdnryOrdToNse
  <2>1. UNCHANGED <<fxb, rec, queue, deaths>>
    BY <1>6 DEF Books!FnPackOrdnryOrdToNse
  <2>2. CASE fresh'
    <3>1. UNCHANGED packFails
      BY <1>6, <2>2 DEF Books!FnPackOrdnryOrdToNse, Books!PacketInHand
    <3>2. QED
      BY <1>1, <2>1, <2>2, <3>1 DEF Losing, Marked
  <2>3. CASE ~fresh'
    <3>1. packFails' = packFails + 1
      BY <1>6, <2>3 DEF Books!FnPackOrdnryOrdToNse
    <3>2. QED
      BY <1>1, <2>1, <3>1 DEF Losing, Marked
  <2>4. QED
    BY <2>2, <2>3
<1>7. CASE Books!WriteToQueue
  <2>1. /\ pc = "write" /\ pkt # 0 /\ queue' = Append(queue, pkt)
        /\ UNCHANGED <<fxb, deaths, packFails>>
    BY <1>7 DEF Books!WriteToQueue
  <2>2. queue \in Seq(Seqs) /\ pkt \in Seqs
    BY <2>1 DEF Books!IInv, Books!TypeOK, Books!Seqs, Seqs
  <2>3. pkt \in Range(queue)' /\ \A s : s \in Range(queue) => s \in Range(queue)'
    <3>1. Len(queue') = Len(queue) + 1 /\ queue'[Len(queue) + 1] = pkt
          /\ \A i \in 1 .. Len(queue) : queue'[i] = queue[i]
      BY <2>1, <2>2
    <3>2. DOMAIN queue = 1 .. Len(queue) /\ DOMAIN queue' = 1 .. Len(queue')
          /\ Len(queue) \in Nat
      BY <2>1, <2>2
    <3>3. QED
      BY <3>1, <3>2 DEF Range
  <2>4. fresh => pkt = rec
    BY DEF Books!PacketInHand
  <2>5. Losing' \subseteq Losing
    BY <1>1, <2>1, <2>3, <2>4 DEF Losing, Marked
  <2>6. QED
    BY <2>1, <2>5
<1>8. QED
  BY <1>3, <1>4, <1>5, <1>6, <1>7 DEF Books!Service, Books!FnAbortTran

(* What the end of the process does to both services.                       *)
Ends ==
  /\ UNCHANGED <<fxb, queue, sent, packFails>>
  /\ rec' = 0 /\ cur' = 0 /\ spc' = "none"
  /\ deaths' = deaths + 1

(* One end of the process costs the record in hand and the order in         *)
(* fn_writen; one of the two after a failed write.                          *)
LEMMA EndCosts ==
  ASSUME Books!TypeOK, ClientInv, Ends
  PROVE  \/ \E x : Losing' \subseteq Losing \cup {x} /\ Allowance' = Allowance + 1
         \/ \E x, y : Losing' \subseteq (Losing \cup {x}) \cup {y} /\ Allowance' = Allowance + 2
<1>1. deaths \in Nat /\ packFails \in Nat
  BY DEF Books!TypeOK
<1>2. Losing' \subseteq (Losing \cup {rec}) \cup {cur}
  BY DEF Ends, Losing, Marked
<1>3. CASE spc = "ended"
  <2>1. Losing' \subseteq Losing \cup {rec}
    BY <1>2, <1>3 DEF ClientInv, Losing, Seqs
  <2>2. Allowance' = Allowance + 1
    BY <1>1, <1>3 DEF Ends, Allowance
  <2>3. QED
    BY <2>1, <2>2
<1>4. CASE spc # "ended"
  <2>1. Allowance' = Allowance + 2
    BY <1>1, <1>4 DEF Ends, Allowance
  <2>2. QED
    BY <1>2, <2>1
<1>5. QED
  BY <1>3, <1>4

(* No step loses more than it is allowed.                                   *)
LEMMA StepCosts ==
  ASSUME IInv, ClientInv, Books!PacketInHand, [Next]_vars
  PROVE  \/ Losing' \subseteq Losing /\ Allowance' = Allowance
         \/ \E x : Losing' \subseteq Losing \cup {x} /\ Allowance' = Allowance + 1
         \/ \E x, y : Losing' \subseteq (Losing \cup {x}) \cup {y} /\ Allowance' = Allowance + 2
<1>1. Books!IInv /\ Books!TypeOK /\ OneProcess /\ HandedOver
  BY DEF IInv, Books!IInv
<1>2. deaths \in Nat /\ packFails \in Nat
  BY <1>1 DEF Books!TypeOK
<1>3. CASE Ends
  BY <1>1, <1>3, EndCosts
<1>4. CASE /\ UNCHANGED <<sent, cur, queue, rec, fresh, deaths, packFails>>
           /\ \A s \in Seqs : Marked(s)' => Marked(s)
           /\ pc' \in {"commit", "write"} => pc \in {"commit", "write"}
           /\ spc = "ended" <=> spc' = "ended"
  BY <1>4 DEF Losing, Allowance
<1>5. CASE PackingService
  <2>1. Books!Service
    BY <1>5, SameService DEF PackingService
  <2>2. CASE Books!Die
    <3>1. pc' = "down"
      BY <2>2 DEF Books!Die
    <3>2. Ends
      BY <1>5, <2>2, <3>1 DEF PackingService, Books!Die, Books!book, Client!Die, Ends
    <3>3. QED
      BY <1>3, <3>2
  <2>3. CASE ~Books!Die
    <3>1. pc' # "down"
      BY <2>1, <2>3, DownIsDead
    <3>2. UNCHANGED clientVars
      BY <1>5, <3>1 DEF PackingService
    <3>3. /\ UNCHANGED deaths
          /\ \/ Losing' \subseteq Losing /\ UNCHANGED packFails
             \/ Losing' \subseteq Losing \cup {rec} /\ packFails' = packFails + 1
      BY <1>1, <2>1, <2>3, <3>2, BooksConstants, ServiceCosts
    <3>4. UNCHANGED spc
      BY <3>2 DEF clientVars
    <3>5. QED
      BY <1>2, <3>3, <3>4 DEF Allowance
  <2>4. QED
    BY <2>2, <2>3
<1>6. CASE Dial
  <2>1. CASE UNCHANGED <<packVars, sharedVars>> /\ ~Client!Die
    <3>1. spc = "none" /\ spc' = "no_id" /\ UNCHANGED <<sent, cur>>
      BY <1>6, <2>1 DEF Dial, Client!Dial, ClientInv
    <3>2. QED
      BY <1>4, <2>1, <3>1 DEF packVars, sharedVars, Marked
  <2>2. CASE Pack!Die /\ Client!Die
    BY <1>3, <2>2 DEF Pack!Die, Pack!book, Client!Die, Ends
  <2>3. CASE UNCHANGED deaths /\ deaths' = deaths + 1
    BY <1>2, <2>3
  <2>4. QED
    BY <1>6, <2>1, <2>2, <2>3 DEF Dial, Client!Dial, Pack!Die, Client!Die, sharedVars
<1>7. CASE TakeOrder
  <2>1. /\ queue # <<>> /\ queue[1] \in Seqs /\ queue' = Tail(queue) /\ cur' = queue[1]
        /\ UNCHANGED <<fxb, rec, sent>>
    BY <1>1, <1>7, TakesTheHead
  <2>2. UNCHANGED <<pc, fresh, deaths, packFails>> /\ spc = "read" /\ spc' = "write"
    BY <1>7 DEF TakeOrder, Pack!Receive, Pack!memory, Client!TakeOrder, Client!ReadFromQueue
  <2>3. queue \in Seq(Seqs)
    BY <1>1 DEF Books!TypeOK, Books!Seqs, Seqs
  <2>4. \A s : s \in Range(queue) => s = queue[1] \/ s \in Range(queue)'
    <3>1. Len(queue') = Len(queue) - 1 /\ Len(queue) \in Nat
          /\ \A i \in 1 .. Len(queue') : queue'[i] = queue[i + 1]
      BY <2>1, <2>3
    <3>2. DOMAIN queue = 1 .. Len(queue) /\ DOMAIN queue' = 1 .. Len(queue')
      BY <2>1, <2>3
    <3>3. \A i \in DOMAIN queue : i # 1 => i - 1 \in DOMAIN queue' /\ queue'[i - 1] = queue[i]
      BY <3>1, <3>2
    <3>4. QED
      BY <3>3 DEF Range
  <2>5. \A s \in Losing' : s \in Losing
    BY <2>1, <2>2, <2>4 DEF Losing, ClientInv, Marked, Seqs
  <2>6. QED
    BY <2>2, <2>5 DEF Allowance
<1>8. CASE Finishes
  <2>1. Losing' \subseteq Losing
    BY <1>8 DEF Finishes, packVars, sharedVars, Losing, Marked
  <2>2. QED
    BY <1>8, <2>1 DEF Finishes, packVars, sharedVars, Allowance
<1>9. CASE SendThrd /\ ~TakeOrder /\ ~Finishes
  <2>1. UNCHANGED <<packVars, sharedVars>>
    BY <1>9 DEF SendThrd
  <2>2. ASSUME NEW n \in 1 .. MsgLen, Client!WriteSome(n)
        PROVE  UNCHANGED <<sent, cur, spc>>
    BY <1>9, <2>1, <2>2 DEF Client!WriteSome, Client!FinishOrder, Finishes
  <2>3. CASE UNCHANGED <<sent, cur, spc>>
    BY <1>4, <2>1, <2>3 DEF packVars, sharedVars, Marked
  <2>4. CASE Client!WriteFails
    <3>1. UNCHANGED sent /\ cur' = 0 /\ spc = "write" /\ spc' = "ended"
      BY <2>4 DEF Client!WriteFails
    <3>2. Losing' \subseteq Losing \cup {cur}
      BY <2>1, <3>1 DEF packVars, sharedVars, Losing, Marked
    <3>3. UNCHANGED <<deaths, packFails>>
      BY <2>1 DEF packVars, sharedVars
    <3>4. Allowance' = Allowance + 1
      BY <1>2, <3>1, <3>3 DEF Allowance
    <3>5. QED
      BY <3>2, <3>4
  <2>5. CASE Client!ReadGlobalQId
    <3>1. UNCHANGED <<sent, cur>> /\ spc = "no_id" /\ spc' = "read"
      BY <2>5 DEF Client!ReadGlobalQId
    <3>2. QED
      BY <1>4, <2>1, <3>1 DEF packVars, sharedVars, Marked
  <2>6. ASSUME NEW n \in 1 .. MsgLen, Client!WriteTimesOut(n)
        PROVE  UNCHANGED <<sent, cur, spc>>
    BY <2>6 DEF Client!WriteTimesOut, Client!svars
  <2>7. QED
    BY <1>9, <2>2, <2>3, <2>4, <2>5, <2>6 DEF SendThrd
<1>10. CASE RcvThrd \/ ClnEsrClnt \/ Exchange
  <2>1. UNCHANGED <<packVars, sharedVars, Client!svars>>
    BY <1>10 DEF RcvThrd, ClnEsrClnt, Exchange, Client!RcvThrd, Client!readNBytes,
       Client!ReadFails, Client!ClnEsrClnt, Client!PeerCloses, Client!FrameArrives
  <2>2. QED
    BY <1>4, <2>1 DEF packVars, sharedVars, Client!svars, Marked
<1>11. CASE Oms
  <2>1. UNCHANGED <<pc, sent, cur, spc, queue, rec, fresh, deaths, packFails>>
    BY <1>11 DEF Oms, Pack!Oms, Pack!PlaceOrder, Pack!ModifyOrder, Pack!memory, Pack!hist,
       clientVars
  <2>2. \A s \in Seqs : Marked(s)' => Marked(s)
    BY <1>1, <2>1, NewMarks DEF Books!fnUpdXchngbk, Books!Goto
  <2>3. QED
    BY <1>4, <2>1, <2>2
<1>12. CASE Crash
  BY <1>3, <1>12 DEF Crash, Pack!Crash, Pack!Die, Pack!book, Client!ProcessEnds, Client!Die, Ends
<1>13. CASE Restart
  <2>1. UNCHANGED <<fxb, sent, cur, spc, queue, rec, fresh, deaths, packFails>>
        /\ pc' = "create_queue"
    BY <1>13 DEF Restart, Pack!Restart, Pack!book, Pack!memory, Pack!hist, Pack!Goto,
       Client!Restart, Client!svars
  <2>2. QED
    BY <1>4, <2>1 DEF Marked
<1>14. CASE UNCHANGED vars
  BY <1>4, <1>14 DEF vars, packVars, clientVars, sharedVars, Marked
<1>15. QED
  BY <1>5, <1>6, <1>7, <1>8, <1>9, <1>10, <1>11, <1>12, <1>13, <1>14 DEF Next

(* Every set of losing orders is finite.                                    *)
LEMMA LosingIsFinite == IsFiniteSet(Losing) /\ Cardinality(Losing) \in Nat
<1>1. IsFiniteSet(Seqs)
  BY BooksConstants, FS_Interval DEF Books!ConstantsAssumption, Seqs
<1>2. QED
  BY <1>1, FS_Subset, FS_CardinalityType DEF Losing

(* A set that gains at most one, or at most two, members.                   *)
LEMMA CardinalityOfUnion ==
  ASSUME NEW S, NEW x, IsFiniteSet(S)
  PROVE  /\ IsFiniteSet(S \cup {x})
         /\ Cardinality(S) \in Nat /\ Cardinality(S \cup {x}) \in Nat
         /\ Cardinality(S \cup {x}) <= Cardinality(S) + 1
<1>1. IsFiniteSet(S \cup {x}) /\ Cardinality(S) \in Nat /\ Cardinality(S \cup {x}) \in Nat
  BY FS_AddElement, FS_CardinalityType
<1>2. QED
  BY <1>1, FS_AddElement

(* The losses stay below what is allowed.                                   *)
LEMMA LossInvStep ==
  ASSUME IInv, ClientInv, Books!PacketInHand, LossInv, [Next]_vars
  PROVE  LossInv'
<1>1. Allowance \in Nat
  BY DEF IInv, Books!IInv, Books!TypeOK, Allowance
<1>2. IsFiniteSet(Losing) /\ Cardinality(Losing) \in Nat
  BY LosingIsFinite
<1>3. CASE Losing' \subseteq Losing /\ Allowance' = Allowance
  <2>1. Cardinality(Losing') <= Cardinality(Losing) /\ Cardinality(Losing') \in Nat
    BY <1>2, <1>3, FS_Subset, FS_CardinalityType
  <2>2. QED
    BY <1>1, <1>2, <1>3, <2>1 DEF LossInv
<1>4. ASSUME NEW x, Losing' \subseteq Losing \cup {x}, Allowance' = Allowance + 1
      PROVE  LossInv'
  <2>1. /\ IsFiniteSet(Losing \cup {x}) /\ Cardinality(Losing \cup {x}) \in Nat
        /\ Cardinality(Losing \cup {x}) <= Cardinality(Losing) + 1
    BY <1>2, CardinalityOfUnion
  <2>2. Cardinality(Losing') <= Cardinality(Losing \cup {x}) /\ Cardinality(Losing') \in Nat
    BY <1>4, <2>1, FS_Subset, FS_CardinalityType
  <2>3. QED
    BY <1>1, <1>2, <1>4, <2>1, <2>2 DEF LossInv
<1>5. ASSUME NEW x, NEW y, Losing' \subseteq (Losing \cup {x}) \cup {y},
             Allowance' = Allowance + 2
      PROVE  LossInv'
  <2>1. /\ IsFiniteSet(Losing \cup {x}) /\ Cardinality(Losing \cup {x}) \in Nat
        /\ Cardinality(Losing \cup {x}) <= Cardinality(Losing) + 1
    BY <1>2, CardinalityOfUnion
  <2>2. /\ IsFiniteSet((Losing \cup {x}) \cup {y})
        /\ Cardinality((Losing \cup {x}) \cup {y}) \in Nat
        /\ Cardinality((Losing \cup {x}) \cup {y}) <= Cardinality(Losing \cup {x}) + 1
    BY <2>1, CardinalityOfUnion
  <2>3. /\ Cardinality(Losing') <= Cardinality((Losing \cup {x}) \cup {y})
        /\ Cardinality(Losing') \in Nat
    BY <1>5, <2>2, FS_Subset, FS_CardinalityType
  <2>4. QED
    BY <1>1, <1>2, <1>5, <2>1, <2>2, <2>3 DEF LossInv
<1>6. QED
  BY <1>3, <1>4, <1>5, StepCosts

CostInv == IInv /\ ClientInv /\ Books!PacketInHand /\ LossInv

(* The bookkeeping of the losses holds in every reachable state.            *)
LEMMA CostInvHolds == Spec => []CostInv
<1>1. Init => CostInv
  <2> SUFFICES ASSUME Init PROVE CostInv
    OBVIOUS
  <2>1. IInv
    BY InvInit
  <2>2. ClientInv
    BY DEF Init, Client!Init, ClientInv
  <2>3. Books!PacketInHand
    BY DEF Init, Pack!Init, Books!PacketInHand, Pack!Seqs, Books!Seqs
  <2>4. Losing = {}
    BY DEF Init, Pack!Init, Pack!NoRow, Pack!Seqs, Seqs, Losing, Marked
  <2>5. LossInv
    BY <2>4, FS_EmptySet DEF LossInv, Allowance, Init, Pack!Init, Client!Init
  <2>6. QED
    BY <2>1, <2>2, <2>3, <2>5 DEF CostInv
<1>2. CostInv /\ [Next]_vars => CostInv'
  <2> SUFFICES ASSUME CostInv, [Next]_vars PROVE CostInv'
    OBVIOUS
  <2>1. Books!IInv /\ Books!TypeOK /\ OneProcess
    BY DEF CostInv, IInv, Books!IInv
  <2>2. [Books!Next]_(Books!vars)
    BY <2>1, PackStep
  <2>3. Books!PacketInHand'
    BY <2>1, <2>2, BooksConstants, Books!PacketInHandStep DEF CostInv
  <2>4. QED
    BY <2>1, <2>3, InvNext, ClientInvStep, LossInvStep DEF CostInv
<1>3. QED
  BY <1>1, <1>2, PTL DEF Spec

(* One end of the process costs at most two orders, however full the queue  *)
(* is: every other lost order failed to be packed or was in the failed      *)
(* write of a send_thrd that has ended.                                     *)
THEOREM TwoOrdersPerEnd == Spec => []OneEndCostsTwoOrders
<1>1. CostInv => OneEndCostsTwoOrders
  <2> SUFFICES ASSUME CostInv PROVE OneEndCostsTwoOrders
    OBVIOUS
  <2> DEFINE lost == {s \in 1 .. MaxSeq : Status(s) = "lost"}
  <2>1. \A s \in Seqs : fxb[s].stts \in {"none", "R", "Q", "J"}
    BY DEF CostInv, IInv, Books!IInv, Books!TypeOK, Books!Rows, Books!Seqs, Seqs
  <2>2. lost \subseteq Losing
    BY <2>1, StatusIs DEF CostInv, StatusOf, Losing, Marked, Held, HeldByPack, Seqs
  <2>3. Cardinality(lost) <= Cardinality(Losing) /\ Cardinality(lost) \in Nat
    BY <2>2, LosingIsFinite, FS_Subset, FS_CardinalityType
  <2>4. Cardinality(Losing) <= Allowance /\ Cardinality(Losing) \in Nat /\ Allowance \in Nat
    BY LosingIsFinite DEF CostInv, LossInv, Allowance, IInv, Books!IInv, Books!TypeOK
  <2>5. Cardinality(lost) <= Allowance
    BY <2>3, <2>4
  <2>6. QED
    BY <2>5 DEF OneEndCostsTwoOrders, Allowance
<1>2. QED
  BY <1>1, CostInvHolds, PTL
(***************************************************************************)
(* What the exchange reads.                                                 *)
(***************************************************************************)

Stream == INSTANCE EsrClientProofs WITH
  MaxMsg <- MaxSeq,
  nMsg   <- 0,
  queue  <- [k \in 1 .. Len(queue) |-> [id |-> queue[k], type |-> "order"]]

(* The constants are as the theorems on the exchange client assume.         *)
LEMMA StreamConstants == Stream!ConstantsAssumption
BY ConstantsAssumption
   DEF ConstantsAssumption, Client!ConstantsAssumption, Stream!ConstantsAssumption

(* On a connection that is up the last unit is of the order in fn_writen,   *)
(* or ends an order that is not newer than the last one received.           *)
EndOfWire ==
  LET x == wire[Len(wire)]
  IN  IF off = 0 THEN x[2] = MsgLen /\ x[1] <= lastRead ELSE x = <<cur, off>>

WireInv ==
  /\ wire \in Seq(Stream!Unit) /\ wire # <<>> /\ Stream!InOrder(0, wire)
  /\ off \in Nat /\ (cur = 0 => off = 0)
  /\ epc \in {"dial", "down"} => peer = "gone" /\ wire = Client!ConnectionStart
  /\ peer = "up" => EndOfWire

(* A new connection starts with the end of an order.                        *)
LEMMA ConnectionStarts ==
  /\ Client!ConnectionStart \in Seq(Stream!Unit) /\ Client!ConnectionStart # <<>>
  /\ Stream!InOrder(0, Client!ConnectionStart)
  /\ Client!ConnectionStart[Len(Client!ConnectionStart)] = <<0, MsgLen>>
<1>1. Client!ConnectionStart \in Seq(Stream!Unit)
  BY StreamConstants, Stream!ConnectionStartType DEF Client!ConnectionStart, Stream!ConnectionStart
<1>2. Len(Client!ConnectionStart) = 1 /\ Client!ConnectionStart[1] = <<0, MsgLen>>
      /\ Client!ConnectionStart # <<>>
  BY DEF Client!ConnectionStart
<1>3. QED
  BY <1>1, <1>2 DEF Stream!InOrder

(* The units of a write follow what is on the wire.                         *)
LEMMA WriteFollows ==
  ASSUME IInv, WireInv, peer = "up", NEW n \in 1 .. MsgLen,
         Client!WriteSome(n) \/ Client!WriteTimesOut(n)
  PROVE  /\ wire' \in Seq(Stream!Unit) /\ wire' # <<>> /\ Stream!InOrder(0, wire')
         /\ wire'[Len(wire')] = <<cur, off + n>>
<1>1. cur \in 1 .. MaxSeq /\ cur = lastRead /\ spc = "write"
  BY CurIsMarked DEF IInv, HandedOver, Client!WriteSome, Client!WriteTimesOut, Seqs
<1>2. off \in Nat /\ n \in Nat \ {0} /\ off + n <= MsgLen
  BY DEF WireInv, Client!WriteSome, Client!WriteTimesOut
<1>3. Stream!Continues(0, wire, cur, off)
  <2>1. wire[Len(wire)][1] \in Nat
    <3>1. wire[Len(wire)] \in Stream!Unit
      BY DEF WireInv
    <3>2. QED
      BY <3>1 DEF Stream!Unit
  <2>2. QED
    BY <1>1, <2>1 DEF WireInv, EndOfWire, Stream!Continues
<1> DEFINE v == wire \o Stream!Units(cur, off, off + n)
<1>4. v \in Seq(Stream!Unit) /\ v # <<>> /\ Stream!InOrder(0, v)
      /\ Stream!EndsWith(v, <<cur, off + n>>)
  <2>1. wire \in Seq(Stream!Unit) /\ wire # <<>> /\ Stream!InOrder(0, wire) /\ 0 \in {0, 1}
    BY DEF WireInv
  <2>2. QED
    BY <1>1, <1>2, <1>3, <2>1, StreamConstants, Stream!UnitsInOrder
<1>5. wire' = Stream!Recent(v)
  BY DEF Client!WriteSome, Client!WriteTimesOut, Client!Units, Stream!Units, Client!Recent,
     Stream!Recent
<1> HIDE DEF v
<1>6. Stream!Recent(v) \in Seq(Stream!Unit)
  BY <1>4, StreamConstants, Stream!RecentType
<1>7. /\ Stream!Recent(v) # <<>> /\ Stream!InOrder(0, Stream!Recent(v))
      /\ Stream!Recent(v)[Len(Stream!Recent(v))] = v[Len(v)]
  <2>1. 0 \in {0, 1}
    OBVIOUS
  <2>2. QED
    BY <1>4, <2>1, StreamConstants, Stream!RecentInOrder
<1>8. QED
  BY <1>4, <1>5, <1>6, <1>7 DEF Stream!EndsWith

(* Every step keeps what is on the wire in order.                           *)
LEMMA WireStep ==
  ASSUME IInv, ClientInv, WireInv, [Next]_vars
  PROVE  WireInv'
<1>1. Books!IInv /\ Books!TypeOK /\ HandedOver /\ lastRead \in Nat
  BY DEF IInv, Books!IInv, Books!TypeOK, Books!Seqs
<1>2. CASE Client!Die
  BY <1>2, ConnectionStarts DEF Client!Die, WireInv
<1>3. CASE Dial /\ ~Client!Die
  <2>1. /\ wire = Client!ConnectionStart /\ UNCHANGED <<wire, off, cur>> /\ epc' = "wait"
        /\ off = 0
    BY <1>3 DEF Dial, Client!Dial, WireInv, ClientInv
  <2>2. UNCHANGED lastRead
    BY <1>3 DEF Dial, Pack!Die, Client!Dial, packVars
  <2>3. EndOfWire'
    BY <1>1, <2>1, <2>2, ConnectionStarts DEF EndOfWire
  <2>4. QED
    BY <2>1, <2>3 DEF WireInv
<1>4. CASE TakeOrder
  <2>1. queue # <<>> /\ queue[1] \in Seqs /\ lastRead' = queue[1]
    BY <1>1, <1>4, TakesTheHead
  <2>2. UNCHANGED <<wire, epc, peer>> /\ off' = 0 /\ spc = "read"
    BY <1>4 DEF TakeOrder, Client!TakeOrder, Client!ReadFromQueue
  <2>3. off = 0
    BY <2>2 DEF ClientInv, WireInv
  <2>4. lastRead <= lastRead'
    <3>1. queue \in Seq(Seqs)
      BY <1>1 DEF Books!TypeOK, Books!Seqs, Seqs
    <3>2. 1 \in 1 .. Len(queue)
      BY <2>1, <3>1
    <3>3. QED
      BY <1>1, <2>1, <3>2 DEF Books!IInv, Books!OrderPreserved, Books!TypeOK, Books!Seqs, Seqs
  <2>5. wire[Len(wire)][1] \in Nat
    <3>1. wire[Len(wire)] \in Stream!Unit
      BY DEF WireInv
    <3>2. QED
      BY <3>1 DEF Stream!Unit
  <2>6. EndOfWire => EndOfWire'
    BY <1>1, <2>1, <2>2, <2>3, <2>4, <2>5 DEF EndOfWire, Seqs
  <2>7. QED
    BY <2>2, <2>6 DEF WireInv
<1>5. ASSUME NEW n \in 1 .. MsgLen, Client!WriteSome(n), UNCHANGED packVars PROVE WireInv'
  <2>1. /\ \/ off + n = MsgLen /\ cur' = 0 /\ off' = 0
           \/ off' = off + n /\ UNCHANGED cur
        /\ epc = "wait" /\ UNCHANGED <<epc, peer, lastRead>>
    BY <1>5 DEF Client!WriteSome, Client!FinishOrder, packVars
  <2>2. cur # 0 /\ cur = lastRead
    BY <1>1, <1>5 DEF Client!WriteSome, HandedOver
  <2>3. off \in Nat /\ n \in Nat /\ n # 0
    BY DEF WireInv
  <2>4. CASE peer # "up"
    <3>1. UNCHANGED wire
      BY <1>5, <2>4 DEF Client!WriteSome
    <3>2. QED
      BY <2>1, <2>2, <2>3, <2>4, <3>1 DEF WireInv
  <2>5. CASE peer = "up"
    <3>1. /\ wire' \in Seq(Stream!Unit) /\ wire' # <<>> /\ Stream!InOrder(0, wire')
          /\ wire'[Len(wire')] = <<cur, off + n>>
      BY <1>5, <2>5, WriteFollows
    <3>2. EndOfWire'
      <4>1. CASE off + n = MsgLen /\ cur' = 0 /\ off' = 0
        BY <1>1, <2>1, <2>2, <3>1, <4>1 DEF EndOfWire
      <4>2. CASE off' = off + n /\ UNCHANGED cur
        BY <2>3, <3>1, <4>2 DEF EndOfWire
      <4>3. QED
        BY <2>1, <4>1, <4>2
    <3>3. QED
      BY <2>1, <2>2, <2>3, <3>1, <3>2 DEF WireInv
  <2>6. QED
    BY <2>4, <2>5
<1>6. CASE Client!WriteFails /\ UNCHANGED packVars
  BY <1>6 DEF Client!WriteFails, WireInv
<1>7. CASE ClnEsrClnt \/ Client!PeerCloses
  BY <1>7 DEF ClnEsrClnt, Client!ClnEsrClnt, Client!PeerCloses, Client!svars, WireInv
<1>8. CASE Restart
  BY <1>8 DEF Restart, Client!Restart, Client!svars, WireInv
<1>9. CASE UNCHANGED <<wire, off, cur, epc, peer, lastRead>>
  BY <1>9 DEF WireInv, EndOfWire
<1>10. CASE PackingService
  <2>1. CASE UNCHANGED clientVars
    <3>1. UNCHANGED lastRead
      BY <1>10, ServiceReceivesNothing DEF PackingService
    <3>2. QED
      BY <1>9, <2>1, <3>1 DEF clientVars
  <2>2. QED
    BY <1>2, <1>10, <2>1 DEF PackingService
<1>11. CASE Oms \/ UNCHANGED vars
  BY <1>9, <1>11 DEF Oms, Pack!Oms, Pack!PlaceOrder, Pack!ModifyOrder, Pack!hist, clientVars,
     vars, packVars
<1>12. CASE RcvThrd
  BY <1>9, <1>12 DEF RcvThrd, Client!RcvThrd, Client!readNBytes, Client!ReadFails, Client!svars,
     packVars
<1>13. CASE Exchange
  BY <1>7, <1>9, <1>13 DEF Exchange, Client!FrameArrives, Client!svars, packVars
<1>14. CASE Crash
  BY <1>2, <1>14 DEF Crash, Client!ProcessEnds
<1>15. ASSUME NEW n \in 1 .. MsgLen, Client!WriteTimesOut(n) PROVE WireInv'
  <2>1. wire' \in Seq(Stream!Unit) /\ wire' # <<>> /\ Stream!InOrder(0, wire')
    BY <1>15, WriteFollows DEF Client!WriteTimesOut
  <2>2. peer' = "gone" /\ epc' = "wait" /\ UNCHANGED <<off, cur>>
    BY <1>15 DEF Client!WriteTimesOut, Client!svars
  <2>3. QED
    BY <2>1, <2>2 DEF WireInv
<1>16. CASE Client!ReadGlobalQId /\ UNCHANGED packVars
  BY <1>9, <1>16 DEF Client!ReadGlobalQId, packVars
<1>17. QED
  BY <1>2, <1>3, <1>4, <1>5, <1>6, <1>7, <1>8, <1>10, <1>11, <1>12, <1>13, <1>14, <1>15, <1>16
     DEF Next, SendThrd

(* What reaches the exchange on a connection is made of whole orders, and   *)
(* the copies of an order that Q_packet makes follow each other.            *)
THEOREM CopiesAreInOrder == Spec => []CopiesFollowTheirOrder
<1>1. Init => WireInv
  BY ConnectionStarts DEF Init, Client!Init, WireInv
<1>2. CostInv /\ WireInv /\ [Next]_vars => WireInv'
  BY WireStep DEF CostInv
<1>3. WireInv => CopiesFollowTheirOrder
  <2> SUFFICES ASSUME WireInv, NEW k \in 1 .. Len(wire) - 1
               PROVE  IF wire[k][2] = MsgLen
                      THEN wire[k + 1][2] = 1 /\ wire[k + 1][1] >= wire[k][1]
                      ELSE wire[k + 1] = <<wire[k][1], wire[k][2] + 1>>
    BY DEF CopiesFollowTheirOrder
  <2>1. wire[k] \in Stream!Unit /\ wire[k + 1] \in Stream!Unit
    BY DEF WireInv
  <2>2. wire[k][1] \in Nat /\ wire[k + 1][1] \in Nat
    BY <2>1 DEF Stream!Unit
  <2>3. Stream!Follows(0, wire[k], wire[k + 1])
    BY DEF WireInv, Stream!InOrder
  <2>4. QED
    BY <2>2, <2>3 DEF Stream!Follows
<1>4. QED
  BY <1>1, <1>2, <1>3, CostInvHolds, PTL DEF Spec
(***************************************************************************)
(* The exchange client inside the composition.                              *)
(***************************************************************************)

(* The client is gone only with the whole process.                          *)
DownTogether == epc = "down" => pc = "down"

(* Both services end together.                                              *)
LEMMA DownTogetherStep ==
  ASSUME IInv, DownTogether, [Next]_vars
  PROVE  DownTogether'
<1>1. deaths \in Nat
  BY DEF IInv, Books!IInv, Books!TypeOK
<1>2. CASE UNCHANGED <<pc, epc>>
  BY <1>2 DEF DownTogether
<1>3. CASE PackingService
  <2>1. pc # "down"
    BY <1>3, SameService, RunsWhileUp DEF PackingService
  <2>2. QED
    BY <1>3, <2>1 DEF PackingService, DownTogether, clientVars
<1>4. CASE Dial
  <2>1. CASE UNCHANGED <<packVars, sharedVars>> /\ Client!Dial
    BY <1>1, <2>1 DEF Client!Dial, Client!Die, sharedVars, DownTogether
  <2>2. CASE Pack!Die
    BY <2>2 DEF Pack!Die, DownTogether
  <2>3. QED
    BY <1>4, <2>1, <2>2 DEF Dial
<1>5. CASE Crash
  BY <1>5 DEF Crash, Pack!Crash, Pack!Die, DownTogether
<1>6. CASE Restart
  BY <1>6 DEF Restart, Client!Restart, DownTogether
<1>7. CASE SendThrd
  BY <1>7, <1>2 DEF SendThrd, TakeOrder, Pack!Receive, Pack!memory, Client!TakeOrder,
     Client!ReadGlobalQId, Client!WriteSome, Client!WriteTimesOut, Client!WriteFails, packVars
<1>8. CASE RcvThrd \/ Exchange
  BY <1>8, <1>2 DEF RcvThrd, Client!RcvThrd, Client!readNBytes, Client!ReadFails, Exchange,
     Client!PeerCloses, Client!FrameArrives, packVars
<1>9. CASE ClnEsrClnt
  BY <1>9 DEF ClnEsrClnt, Client!ClnEsrClnt, DownTogether
<1>10. CASE Oms
  BY <1>10, <1>2 DEF Oms, Pack!Oms, Pack!PlaceOrder, Pack!ModifyOrder, Pack!memory, clientVars
<1>11. QED
  BY <1>2, <1>3, <1>4, <1>5, <1>6, <1>7, <1>8, <1>9, <1>10 DEF Next, vars, packVars, clientVars

(* Every step of the program is one of the client alone, or it leaves the   *)
(* client as it is: then it may have filled its queue.                      *)
LEMMA ClientStep ==
  ASSUME IInv, Books!PacketInHand, DownTogether, [Next]_vars
  PROVE  \/ [Stream!Next]_(Stream!vars)
         \/ UNCHANGED <<clientVars, deaths>>
<1> USE DEF Client!qvars, Stream!qvars, Client!svars, Stream!svars, Client!rvars, Stream!rvars
<1>1. Books!IInv /\ OneProcess
  BY DEF IInv
<1>2. Client!Die => Stream!Die
  BY DEF Client!Die, Stream!Die, Client!ConnectionStart, Stream!ConnectionStart
<1>3. CASE PackingService
  <2>1. Books!Service
    BY <1>3, SameService DEF PackingService
  <2>2. CASE Books!Die
    <3>1. Client!Die
      BY <1>3, <2>2 DEF PackingService, Books!Die
    <3>2. epc # "down"
      BY <2>1, RunsWhileUp DEF DownTogether
    <3>3. Stream!ProcessEnds
      BY <1>2, <3>1, <3>2 DEF Stream!ProcessEnds
    <3>4. QED
      BY <3>3 DEF Stream!Next, Stream!Environment
  <2>3. CASE ~Books!Die
    <3>1. pc' # "down"
      BY <2>1, <2>3, DownIsDead
    <3>2. UNCHANGED clientVars
      BY <1>3, <3>1 DEF PackingService
    <3>3. UNCHANGED deaths
      BY <1>1, <2>1, <2>3, <3>2, BooksConstants, ServiceCosts
    <3>4. QED
      BY <3>2, <3>3
  <2>4. QED
    BY <2>2, <2>3
<1>4. CASE Dial
  <2>1. Stream!Dial
    BY <1>2, <1>4 DEF Dial, Client!Dial, Stream!Dial
  <2>2. QED
    BY <2>1 DEF Stream!Next
<1>5. CASE TakeOrder
  <2>1. Stream!TakeOrder
    BY <1>5 DEF TakeOrder, Client!TakeOrder, Stream!TakeOrder, Client!ReadFromQueue,
       Stream!ReadFromQueue
  <2>2. QED
    BY <2>1 DEF Stream!Next, Stream!SendThrd
<1>6. ASSUME NEW n \in 1 .. MsgLen, Client!WriteSome(n) PROVE [Stream!Next]_(Stream!vars)
  <2>1. Stream!WriteSome(n)
    BY <1>6 DEF Client!WriteSome, Stream!WriteSome, Client!FinishOrder, Stream!FinishOrder,
       Client!Units, Stream!Units, Client!Recent, Stream!Recent
  <2>2. QED
    BY <2>1 DEF Stream!Next, Stream!SendThrd
<1>7. CASE Client!WriteFails
  <2>1. Stream!WriteFails
    BY <1>7 DEF Client!WriteFails, Stream!WriteFails
  <2>2. QED
    BY <2>1 DEF Stream!Next, Stream!SendThrd
<1>8. CASE RcvThrd
  <2>1. Stream!RcvThrd
    BY <1>8 DEF RcvThrd, Client!RcvThrd, Stream!RcvThrd, Client!readNBytes, Stream!readNBytes,
       Client!ReadFails, Stream!ReadFails, Client!Need, Stream!Need, Client!LengthField,
       Stream!LengthField, Client!Decoded, Stream!Decoded
  <2>2. QED
    BY <2>1 DEF Stream!Next
<1>9. CASE ClnEsrClnt
  <2>1. Stream!ClnEsrClnt
    BY <1>9 DEF ClnEsrClnt, Client!ClnEsrClnt, Stream!ClnEsrClnt
  <2>2. QED
    BY <2>1 DEF Stream!Next
<1>10. CASE Exchange
  <2>1. Stream!PeerCloses \/ \E l \in FrameLens : Stream!FrameArrives(l)
    BY <1>10 DEF Exchange, Client!PeerCloses, Stream!PeerCloses, Client!FrameArrives,
       Stream!FrameArrives, Client!Frame, Stream!Frame
  <2>2. QED
    BY <2>1 DEF Stream!Next, Stream!Environment
<1>11. CASE Crash
  <2>1. Stream!ProcessEnds
    BY <1>2, <1>11 DEF Crash, Client!ProcessEnds, Stream!ProcessEnds
  <2>2. QED
    BY <2>1 DEF Stream!Next, Stream!Environment
<1>12. CASE Restart
  <2>1. Stream!Restart
    BY <1>12 DEF Restart, Client!Restart, Stream!Restart
  <2>2. QED
    BY <2>1 DEF Stream!Next, Stream!Environment
<1>13. CASE Oms \/ UNCHANGED vars
  BY <1>13 DEF Oms, Pack!Oms, Pack!PlaceOrder, Pack!ModifyOrder, Pack!hist, vars, sharedVars
<1>14. CASE Client!ReadGlobalQId
  <2>1. Stream!ReadGlobalQId
    BY <1>14 DEF Client!ReadGlobalQId, Stream!ReadGlobalQId
  <2>2. QED
    BY <2>1 DEF Stream!Next, Stream!SendThrd
<1>15. ASSUME NEW n \in 1 .. MsgLen, Client!WriteTimesOut(n) PROVE [Stream!Next]_(Stream!vars)
  <2>1. Stream!WriteTimesOut(n)
    BY <1>15 DEF Client!WriteTimesOut, Stream!WriteTimesOut, Client!Units, Stream!Units,
       Client!Recent, Stream!Recent
  <2>2. QED
    BY <2>1 DEF Stream!Next, Stream!SendThrd
<1>16. QED
  BY <1>3, <1>4, <1>5, <1>6, <1>7, <1>8, <1>9, <1>10, <1>11, <1>12, <1>13, <1>14, <1>15
     DEF Next, SendThrd

(* What the theorems on the exchange client alone rest on.                  *)
StreamInv ==
  /\ Stream!TypeOK /\ Stream!InHand /\ Stream!DrainInv /\ Stream!StepInv
  /\ Stream!LostOrdersBounded

(* The queue the client sees holds order messages.                          *)
LEMMA MessagesType ==
  ASSUME NEW q \in Seq(Seqs)
  PROVE  [k \in 1 .. Len(q) |-> [id |-> q[k], type |-> "order"]]
            \in Seq([id : 1 .. MaxSeq, type : Stream!Types])
<1>1. \A k \in 1 .. Len(q) :
        [id |-> q[k], type |-> "order"] \in [id : 1 .. MaxSeq, type : Stream!Types]
  <2> SUFFICES ASSUME NEW k \in 1 .. Len(q)
               PROVE  [id |-> q[k], type |-> "order"] \in [id : 1 .. MaxSeq, type : Stream!Types]
    OBVIOUS
  <2>1. q[k] \in Seqs
    OBVIOUS
  <2>2. q[k] \in 1 .. MaxSeq
    BY <2>1 DEF Seqs
  <2>3. QED
    BY <2>2 DEF Stream!Types
<1>2. QED
  BY <1>1

(* What the packing service writes to the queue does not disturb the client.*)
LEMMA StreamInvStep ==
  ASSUME IInv, IInv', Books!PacketInHand, DownTogether, StreamInv, [Next]_vars
  PROVE  StreamInv'
<1>1. CASE [Stream!Next]_(Stream!vars)
  BY <1>1, StreamConstants, Stream!TypeNext, Stream!InHandNext, Stream!DrainNext,
     Stream!StepNext, Stream!LossNext DEF StreamInv
<1>2. CASE UNCHANGED <<clientVars, deaths>>
  <2>1. Stream!TypeOK'
    <3>1. qOpen' \in BOOLEAN /\ queue' \in Seq(Seqs)
      BY DEF IInv, Books!IInv, Books!TypeOK, Books!Seqs, Seqs
    <3>2. [k \in 1 .. Len(queue') |-> [id |-> queue'[k], type |-> "order"]]
             \in Seq([id : 1 .. MaxSeq, type : Stream!Types])
      BY <3>1, MessagesType
    <3>3. QED
      BY <1>2, <3>1, <3>2 DEF StreamInv, Stream!TypeOK, clientVars
  <2>2. Stream!InHand' /\ Stream!DrainInv'
    BY <1>2 DEF StreamInv, Stream!InHand, Stream!DrainInv, clientVars
  <2>3. Stream!StepInv'
    BY <1>2 DEF StreamInv, Stream!StepInv, Stream!Rest, clientVars
  <2>4. Stream!LostOrdersBounded'
    BY <1>2 DEF StreamInv, Stream!LostOrdersBounded, clientVars
  <2>5. QED
    BY <2>1, <2>2, <2>3, <2>4 DEF StreamInv
<1>3. QED
  BY <1>1, <1>2, ClientStep

(* What is proved of the exchange client alone holds in the program, where  *)
(* Q_packet may come a second time: it loses no more orders, takes no more  *)
(* than one without a connection, and reads only headers as headers.        *)
THEOREM ClientKeepsItsPromises ==
  Spec => [](Client!LostOrdersBounded /\ Client!AtMostOneMoreOrder /\ Client!StaysInStep)
<1>1. Init => DownTogether /\ StreamInv
  <2> SUFFICES ASSUME Init PROVE DownTogether /\ StreamInv
    OBVIOUS
  <2>1. DownTogether
    BY DEF Init, Client!Init, DownTogether
  <2>2. Stream!Init
    <3>1. queue = <<>>
      BY DEF Init, Pack!Init
    <3>2. [k \in 1 .. Len(queue) |-> [id |-> queue[k], type |-> "order"]] = <<>>
      BY <3>1
    <3>3. QED
      BY <3>2 DEF Init, Client!Init, Stream!Init, Client!ConnectionStart, Stream!ConnectionStart
  <2>3. Stream!TypeOK /\ Stream!InHand /\ Stream!StepInv /\ Stream!LostOrdersBounded
    BY <2>2, StreamConstants, Stream!TypeInit, Stream!InHandInit, Stream!StepInit,
       Stream!LossInit
  <2>4. Stream!DrainInv
    BY <2>2 DEF Stream!Init, Stream!DrainInv
  <2>5. QED
    BY <2>1, <2>3, <2>4 DEF StreamInv
<1>2. CostInv /\ CostInv' /\ DownTogether /\ StreamInv /\ [Next]_vars
        => DownTogether' /\ StreamInv'
  BY DownTogetherStep, StreamInvStep DEF CostInv
<1>3. StreamInv => Client!LostOrdersBounded /\ Client!AtMostOneMoreOrder /\ Client!StaysInStep
  <2> SUFFICES ASSUME StreamInv
               PROVE  Client!LostOrdersBounded /\ Client!AtMostOneMoreOrder /\ Client!StaysInStep
    OBVIOUS
  <2>1. Client!LostOrdersBounded
    BY DEF StreamInv, Stream!LostOrdersBounded, Client!LostOrdersBounded, Client!Cardinality,
       Stream!Cardinality
  <2>2. Client!AtMostOneMoreOrder
    BY DEF StreamInv, Stream!DrainInv, Client!AtMostOneMoreOrder
  <2>3. Stream!StaysInStep
    BY StreamConstants, Stream!InStep DEF StreamInv
  <2>4. Client!StaysInStep
    BY <2>3 DEF Stream!StaysInStep, Client!StaysInStep
  <2>5. QED
    BY <2>1, <2>2, <2>4
<1>4. QED
  BY <1>1, <1>2, <1>3, CostInvHolds, PTL DEF Spec

(* However often Q_packet is queued, the orders are first handed to the     *)
(* socket in the order of the exchange book.                                *)
THEOREM NoOrderIsSentLate == Spec => Client!SentOnceInOrder
<1>1. IInv /\ [Next]_vars
        => [\A i \in sent' \ sent : \A j \in sent : j < i]_(Client!vars)
  <2> SUFFICES ASSUME IInv, [Next]_vars, NEW i \in sent' \ sent, NEW j \in sent
               PROVE  j < i
    OBVIOUS
  <2>1. Finishes
    <3>1. Books!TypeOK
      BY DEF IInv, Books!IInv
    <3>2. TakeOrder => UNCHANGED sent
      BY <3>1, TakesTheHead
    <3>3. QED
      BY <3>1, <3>2, ClientSteps DEF Keeps
  <2>2. i = cur /\ cur # 0
    BY <2>1 DEF Finishes, IInv, HandedOver
  <2>3. cur \in Seqs /\ cur = lastRead
    BY <2>2, CurIsMarked
  <2>4. j \in Seqs /\ j <= lastRead /\ j # cur
    BY <2>2 DEF IInv, HandedOver
  <2>5. QED
    BY <2>2, <2>3, <2>4 DEF Seqs
<1>2. Spec => []IInv
  BY InvInit, InvNext, PTL DEF Spec
<1>3. QED
  BY <1>1, <1>2, PTL DEF Spec, Client!SentOnceInOrder
================================================================================
