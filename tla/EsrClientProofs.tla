---------------------------- MODULE EsrClientProofs ----------------------------
(***************************************************************************)
(* Theorems about the exchange client, for any number of messages and       *)
(* frames, any lengths of orders, headers and frames, and any number of     *)
(* restarts.                                                                *)
(***************************************************************************)
EXTENDS EsrClient, Integers, FiniteSetTheorems, TLAPS

(***************************************************************************)
(* Type correctness.                                                        *)
(***************************************************************************)

Messages == [id : 1 .. MaxMsg, type : Types]
Unit     == (0 .. MaxMsg) \X (1 .. MsgLen)

(* What a connection starts with is a unit on the wire.                     *)
LEMMA ConnectionStartType == ConnectionStart \in Seq(Unit)
BY ConstantsAssumption DEF ConstantsAssumption, ConnectionStart, Unit

(* The units of a part of an order.                                         *)
LEMMA UnitsType ==
  ASSUME NEW i \in 0 .. MaxMsg, NEW a \in Nat, NEW n \in Nat, a + n <= MsgLen
  PROVE  /\ Units(i, a, a + n) \in Seq(Unit)
         /\ Len(Units(i, a, a + n)) = n
         /\ \A k \in 1 .. n : Units(i, a, a + n)[k] = <<i, a + k>>
<1> DEFINE u == Units(i, a, a + n)
<1>1. MsgLen \in Nat /\ (a + n) - a = n
  BY ConstantsAssumption DEF ConstantsAssumption
<1>2. u = [k \in 1 .. n |-> <<i, a + k>>]
  BY <1>1 DEF Units
<1>3. \A k \in 1 .. n : <<i, a + k>> \in Unit
  BY <1>1 DEF Unit
<1>4. u \in Seq(Unit) /\ Len(u) = n
  <2>1. u \in [1 .. n -> Unit]
    BY <1>2, <1>3
  <2> HIDE DEF u
  <2>2. QED
    BY <2>1
<1>5. QED
  BY <1>2, <1>4

(* What is kept of a stream is its last units.                              *)
LEMMA RecentType ==
  ASSUME NEW S, NEW w \in Seq(S)
  PROVE  /\ Recent(w) \in Seq(S)
         /\ \E d \in 0 .. Len(w) :
               /\ Len(Recent(w)) = Len(w) - d
               /\ \A k \in 1 .. Len(Recent(w)) : Recent(w)[k] = w[k + d]
               /\ w # <<>> => Len(Recent(w)) > 0
<1>1. MsgLen \in Nat \ {0}
  BY ConstantsAssumption DEF ConstantsAssumption
<1>2. CASE Len(w) <= 2 * MsgLen
  <2>1. Recent(w) = w
    BY <1>2 DEF Recent
  <2>2. /\ 0 \in 0 .. Len(w) /\ Len(w) = Len(w) - 0
        /\ \A k \in 1 .. Len(w) : w[k] = w[k + 0]
        /\ w # <<>> => Len(w) > 0
    OBVIOUS
  <2>3. QED
    BY <2>1, <2>2
<1>3. CASE ~(Len(w) <= 2 * MsgLen)
  <2> DEFINE d == Len(w) - 2 * MsgLen
  <2>1. Recent(w) = SubSeq(w, d + 1, Len(w))
    BY <1>3 DEF Recent
  <2>2. d \in 0 .. Len(w) /\ Len(w) - d > 0 /\ d + 1 \in 1 .. Len(w)
    BY <1>1, <1>3
  <2> HIDE DEF d
  <2>3. /\ SubSeq(w, d + 1, Len(w)) \in Seq(S)
        /\ Len(SubSeq(w, d + 1, Len(w))) = Len(w) - d
        /\ \A k \in 1 .. Len(w) - d : SubSeq(w, d + 1, Len(w))[k] = w[k + d]
    BY <2>2
  <2>4. QED
    BY <2>1, <2>2, <2>3
<1>4. QED
  BY <1>2, <1>3

(* The initial state is well typed.                                         *)
LEMMA TypeInit == Init => TypeOK
<1> SUFFICES ASSUME Init PROVE TypeOK
  OBVIOUS
<1>1. wire \in Seq((0 .. MaxMsg) \X (1 .. MsgLen))
  BY ConnectionStartType DEF Init, Unit
<1>2. qOpen \in BOOLEAN
  BY DEF Init
<1>3. MaxMsg \in Nat /\ MsgLen \in Nat \ {0} /\ MaxFrames \in Nat
  BY ConstantsAssumption DEF ConstantsAssumption
<1>4. /\ queue \in Seq([id : 1 .. MaxMsg, type : Types]) /\ inbox \in Seq(FrameLens \cup {0})
      /\ nMsg \in 0 .. MaxMsg /\ cur \in 0 .. MaxMsg /\ off \in 0 .. MsgLen - 1
      /\ nFrames \in 0 .. MaxFrames
  BY <1>3 DEF Init
<1>5. QED
  BY <1>1, <1>2, <1>4 DEF Init, TypeOK

(* The end of the process keeps the types.                                  *)
LEMMA DieType == TypeOK /\ Die => TypeOK'
<1> SUFFICES ASSUME TypeOK, Die PROVE TypeOK'
  OBVIOUS
<1>1. wire' \in Seq((0 .. MaxMsg) \X (1 .. MsgLen))
  BY ConnectionStartType DEF Die, Unit
<1>2. qOpen' \in BOOLEAN
  BY DEF Die
<1>3. MaxMsg \in Nat /\ MsgLen \in Nat \ {0} /\ MaxFrames \in Nat
  BY ConstantsAssumption DEF ConstantsAssumption
<1>4. /\ inbox' \in Seq(FrameLens \cup {0})
      /\ cur' \in 0 .. MaxMsg /\ off' \in 0 .. MsgLen - 1
      /\ nFrames' \in 0 .. MaxFrames
  BY <1>3 DEF Die
<1>5. QED
  BY <1>1, <1>2, <1>4 DEF Die, TypeOK, qvars

(* send_thrd has an order exactly while it is in fn_writen, and is not there*)
(* before the connection is.                                                *)
InHand ==
  /\ spc = "write" <=> cur # 0
  /\ epc \in {"dial", "down"} => spc = "none"

(* A write completes the order, or leaves a part of it.                     *)
LEMMA FinishOrderCases ==
  ASSUME TypeOK, NEW n \in 1 .. MsgLen, WriteSome(n)
  PROVE  /\ \/ off + n = MsgLen /\ spc' = "read" /\ cur' = 0 /\ off' = 0
                                /\ sent' = sent \cup {cur}
            \/ off + n < MsgLen /\ off' = off + n /\ UNCHANGED <<spc, cur, sent>>
         /\ off + n <= MsgLen /\ off + n \in Nat
<1>1. off \in Nat /\ n \in Nat /\ MsgLen \in Nat /\ off + n <= MsgLen
  BY ConstantsAssumption DEF ConstantsAssumption, TypeOK, WriteSome
<1>2. CASE off + n = MsgLen
  BY <1>1, <1>2 DEF WriteSome, FinishOrder
<1>3. CASE off + n # MsgLen
  BY <1>1, <1>3 DEF WriteSome, FinishOrder
<1>4. QED
  BY <1>1, <1>2, <1>3

(* What is on the wire after the next units of an order arrived.            *)
LEMMA WireType ==
  ASSUME TypeOK, NEW n \in 1 .. MsgLen, off + n <= MsgLen
  PROVE  Recent(wire \o Units(cur, off, off + n)) \in Seq(Unit)
<1>1. cur \in 0 .. MaxMsg /\ off \in Nat /\ n \in Nat /\ wire \in Seq(Unit)
  BY ConstantsAssumption DEF ConstantsAssumption, TypeOK, Unit
<1>2. Units(cur, off, off + n) \in Seq(Unit)
  BY <1>1, UnitsType
<1>3. wire \o Units(cur, off, off + n) \in Seq(Unit)
  BY <1>1, <1>2
<1>4. QED
  BY <1>3, RecentType

(* Every step keeps the types.                                              *)
LEMMA TypeNext == TypeOK /\ InHand /\ [Next]_vars => TypeOK'
<1> SUFFICES ASSUME TypeOK, InHand, [Next]_vars PROVE TypeOK'
  OBVIOUS
<1>0. MaxMsg \in Nat /\ MsgLen \in Nat \ {0} /\ MaxFrames \in Nat /\ HeaderLen \in Nat
  BY ConstantsAssumption DEF ConstantsAssumption
<1> USE <1>0 DEF TypeOK, qvars, svars, rvars
<1>1. CASE Dial
  <2>1. CASE Die
    BY <2>1, DieType
  <2>2. CASE ~Die
    BY <1>1, <2>2 DEF Dial
  <2>3. QED
    BY <2>1, <2>2
<1>2. CASE ClnEsrClnt
  BY <1>2 DEF ClnEsrClnt
<1>3. CASE TakeOrder
  <2>0. queue \in Seq(Messages) /\ queue # <<>> /\ queue' = Tail(queue)
    BY <1>3 DEF TakeOrder, ReadFromQueue, Messages
  <2>1. Head(queue) \in Messages /\ Tail(queue) \in Seq(Messages)
    BY <2>0
  <2>2. Head(queue).id \in 1 .. MaxMsg
    BY <2>1 DEF Messages
  <2>3. drained' \in Nat
    <3>1. drained \in Nat /\ drained' \in {drained, drained + 1}
      BY <1>3 DEF TakeOrder
    <3>2. QED
      BY <3>1
  <2>4. off' \in 0 .. MsgLen - 1 /\ qOpen' \in BOOLEAN
    BY <1>3 DEF TakeOrder
  <2>5. queue' \in Seq([id : 1 .. MaxMsg, type : Types])
    BY <2>0, <2>1 DEF Messages
  <2>6. cur' \in 0 .. MaxMsg /\ taken' \subseteq 1 .. MaxMsg
    <3>1. cur' = Head(queue).id /\ taken' = taken \cup {Head(queue).id}
      BY <1>3 DEF TakeOrder
    <3>2. \A i \in 1 .. MaxMsg : i \in 0 .. MaxMsg
      OBVIOUS
    <3>3. cur' \in 0 .. MaxMsg
      BY <2>2, <3>1, <3>2
    <3>4. QED
      BY <2>2, <3>1, <3>3
  <2>7. QED
    BY <1>3, <2>3, <2>4, <2>5, <2>6 DEF TakeOrder
<1>4. CASE DropMessage
  BY <1>4 DEF DropMessage, ReadFromQueue
<1>5. ASSUME NEW n \in 1 .. MsgLen, WriteSome(n) PROVE TypeOK'
  <2>1. off + n <= MsgLen
    BY <1>5 DEF WriteSome
  <2>2. wire' \in Seq((0 .. MaxMsg) \X (1 .. MsgLen))
    <3>1. Recent(wire \o Units(cur, off, off + n)) \in Seq(Unit)
      BY <2>1, WireType
    <3>2. QED
      BY <1>5, <3>1 DEF WriteSome, Unit
  <2>3. cur \in 1 .. MaxMsg
    BY <1>5 DEF WriteSome, InHand
  <2>4. /\ \/ off + n = MsgLen /\ spc' = "read" /\ cur' = 0 /\ off' = 0
                              /\ sent' = sent \cup {cur}
           \/ off + n < MsgLen /\ off' = off + n /\ UNCHANGED <<spc, cur, sent>>
        /\ off + n \in Nat
    BY <1>5, FinishOrderCases
  <2>5. off' \in 0 .. MsgLen - 1
    BY <2>4
  <2>6. cur' \in 0 .. MaxMsg /\ sent' \subseteq 1 .. MaxMsg /\ spc' \in {"read", spc}
    <3>1. cur' \in {0, cur} /\ sent' \in {sent, sent \cup {cur}} /\ spc' \in {"read", spc}
      BY <2>4
    <3>2. 0 \in 0 .. MaxMsg /\ cur \in 0 .. MaxMsg
      OBVIOUS
    <3>3. QED
      BY <2>3, <3>1, <3>2
  <2>7. QED
    BY <1>5, <2>2, <2>5, <2>6 DEF WriteSome
<1>6. CASE WriteFails
  BY <1>6 DEF WriteFails
<1>7. ASSUME NEW n \in 1 .. Need, readNBytes(n) PROVE TypeOK'
  <2>1. inbox # <<>> /\ n \in Nat
    BY <1>7 DEF readNBytes, Need
  <2>2. LengthField \in FrameLens \cup {0}
    BY <2>1 DEF LengthField
  <2>3. inbox' \in Seq(FrameLens \cup {0})
    BY <1>7, <2>1 DEF readNBytes
  <2>4. have' \in Nat /\ rpc' \in {"none", "header", "body", "ended"}
    BY <1>7, <2>1 DEF readNBytes, Decoded
  <2>5. QED
    BY <1>7, <2>2, <2>3, <2>4 DEF readNBytes
<1>8. CASE ReadFails
  BY <1>8 DEF ReadFails
<1>9. CASE QueueCreated
  BY <1>9 DEF QueueCreated
<1>10. ASSUME NEW t \in Types, Enqueue(t) PROVE TypeOK'
  <2>1. [id |-> nMsg + 1, type |-> t] \in Messages
    BY <1>10 DEF Enqueue, Messages
  <2>2. queue' \in Seq(Messages)
    BY <1>10, <2>1 DEF Enqueue, Messages
  <2>3. QED
    BY <1>10, <2>2 DEF Enqueue, Messages
<1>11. ASSUME NEW l \in FrameLens, FrameArrives(l) PROVE TypeOK'
  <2>1. Frame(l) \in Seq(FrameLens \cup {0})
    <3>1. l \in Nat
      BY ConstantsAssumption DEF ConstantsAssumption
    <3>2. Frame(l) \in [1 .. l -> FrameLens \cup {0}]
      BY DEF Frame
    <3>3. QED
      BY <3>1, <3>2
  <2>2. QED
    BY <1>11, <2>1 DEF FrameArrives
<1>12. CASE PeerCloses
  BY <1>12 DEF PeerCloses
<1>13. CASE ProcessEnds
  BY <1>13, DieType DEF ProcessEnds
<1>14. CASE Restart
  BY <1>14 DEF Restart
<1>15. CASE UNCHANGED vars
  BY <1>15 DEF vars
<1>16. CASE ReadGlobalQId
  BY <1>16 DEF ReadGlobalQId
<1>17. ASSUME NEW n \in 1 .. MsgLen, WriteTimesOut(n) PROVE TypeOK'
  <2>1. Recent(wire \o Units(cur, off, off + n)) \in Seq(Unit)
    BY <1>17, WireType DEF WriteTimesOut
  <2>2. QED
    BY <1>17, <2>1 DEF WriteTimesOut, Unit
<1>18. QED
  BY <1>1, <1>2, <1>3, <1>4, <1>5, <1>6, <1>7, <1>8, <1>9, <1>10, <1>11, <1>12, <1>13,
     <1>14, <1>15, <1>16, <1>17 DEF Next, SendThrd, RcvThrd, Environment

(* Initially there is no order in hand.                                     *)
LEMMA InHandInit == Init => InHand
BY DEF Init, InHand

(* No step leaves send_thrd in fn_writen without an order, or with one      *)
(* outside it.                                                              *)
LEMMA InHandNext == TypeOK /\ InHand /\ [Next]_vars => InHand'
<1> SUFFICES ASSUME TypeOK, InHand, [Next]_vars PROVE InHand'
  OBVIOUS
<1> USE DEF InHand, qvars, svars
<1>1. CASE Dial \/ ProcessEnds
  BY <1>1 DEF Dial, ProcessEnds, Die
<1>2. CASE TakeOrder
  <2>1. queue \in Seq(Messages) /\ queue # <<>>
    BY <1>2 DEF TakeOrder, ReadFromQueue, TypeOK, Messages
  <2>2. Head(queue) \in Messages
    BY <2>1
  <2>3. Head(queue).id # 0
    BY <2>2 DEF Messages
  <2>4. QED
    BY <1>2, <2>3 DEF TakeOrder, ReadFromQueue
<1>3. ASSUME NEW n \in 1 .. MsgLen, WriteSome(n) PROVE InHand'
  BY <1>3, FinishOrderCases DEF WriteSome
<1>4. CASE WriteFails
  BY <1>4 DEF WriteFails
<1>5. CASE ClnEsrClnt
  BY <1>5 DEF ClnEsrClnt
<1>6. CASE Restart
  BY <1>6 DEF Restart
<1>7. ASSUME UNCHANGED <<epc, spc, cur>> PROVE InHand'
  BY <1>7
<1>8. CASE ReadGlobalQId
  BY <1>8 DEF ReadGlobalQId
<1>9. QED
  BY <1>1, <1>2, <1>3, <1>4, <1>5, <1>6, <1>7, <1>8
     DEF Next, SendThrd, DropMessage, WriteTimesOut, RcvThrd, readNBytes, ReadFails, Environment,
         QueueCreated, PeerCloses, Enqueue, FrameArrives, vars

(* Every variable of the client has its type in every reachable state.      *)
THEOREM TypeCorrect == Spec => []TypeOK
<1>1. QED
  BY TypeInit, TypeNext, InHandInit, InHandNext, PTL DEF Spec

(***************************************************************************)
(* send_thrd after ClnEsrClnt has returned.                                 *)
(***************************************************************************)

(* The order it takes then stays in fn_writen, where no write succeeds any  *)
(* more, until an error ends the thread.                                    *)
DrainInv ==
  /\ drained = 0 \/ drained = 1
  /\ drained = 1 => epc = "returned" /\ spc \in {"write", "ended"}

(* Every step keeps DrainInv.                                               *)
LEMMA DrainNext == DrainInv /\ [Next]_vars => DrainInv'
<1> SUFFICES ASSUME DrainInv, [Next]_vars PROVE DrainInv'
  OBVIOUS
<1> USE DEF DrainInv, qvars, svars
<1>1. CASE Dial \/ ProcessEnds
  BY <1>1 DEF Dial, ProcessEnds, Die
<1>2. CASE TakeOrder
  BY <1>2 DEF TakeOrder, ReadFromQueue
<1>3. ASSUME NEW n \in 1 .. MsgLen, WriteSome(n) PROVE DrainInv'
  BY <1>3 DEF WriteSome
<1>4. CASE WriteFails
  BY <1>4 DEF WriteFails
<1>5. CASE ClnEsrClnt
  BY <1>5 DEF ClnEsrClnt
<1>6. CASE Restart
  BY <1>6 DEF Restart
<1>7. ASSUME UNCHANGED <<epc, spc, drained>> PROVE DrainInv'
  BY <1>7
<1>8. CASE ReadGlobalQId
  BY <1>8 DEF ReadGlobalQId
<1>9. QED
  BY <1>1, <1>2, <1>3, <1>4, <1>5, <1>6, <1>7, <1>8
     DEF Next, SendThrd, DropMessage, WriteTimesOut, RcvThrd, readNBytes, ReadFails, Environment,
         QueueCreated, PeerCloses, Enqueue, FrameArrives, vars

(* Without a connection send_thrd takes at most one more order.             *)
THEOREM OneMoreOrderAtMost == Spec => []AtMostOneMoreOrder
<1>1. Init => DrainInv
  BY DEF Init, DrainInv
<1>2. DrainInv => AtMostOneMoreOrder
  BY DEF DrainInv, AtMostOneMoreOrder
<1>3. QED
  BY <1>1, <1>2, DrainNext, PTL DEF Spec

(***************************************************************************)
(* Lost orders.                                                             *)
(***************************************************************************)

Lost == taken \ (sent \cup {cur})

(* There are finitely many of them.                                         *)
LEMMA LostIsFinite ==
  /\ TypeOK => IsFiniteSet(Lost) /\ Cardinality(Lost) \in Nat
  /\ TypeOK' => IsFiniteSet(Lost') /\ Cardinality(Lost') \in Nat
<1>1. /\ TypeOK => Lost \in SUBSET (1 .. MaxMsg)
      /\ TypeOK' => Lost' \in SUBSET (1 .. MaxMsg)
  BY DEF TypeOK, Lost
<1>2. IsFiniteSet(1 .. MaxMsg)
  BY FS_Interval, ConstantsAssumption DEF ConstantsAssumption
<1>3. \A S \in SUBSET (1 .. MaxMsg) : IsFiniteSet(S) /\ Cardinality(S) \in Nat
  BY <1>2, FS_Subset, FS_CardinalityType
<1>4. QED
  BY <1>1, <1>3

(* A step loses nothing, or the one order in fn_writen: then it ends the    *)
(* process or the thread.                                                   *)
LEMMA LossSteps ==
  ASSUME TypeOK, InHand, [Next]_vars
  PROVE  \/ Lost' \subseteq Lost /\ UNCHANGED deaths /\ (spc = "ended" => spc' = "ended")
         \/ Lost' \subseteq Lost \cup {cur} /\ deaths' = deaths + 1 /\ spc # "ended"
         \/ Lost' \subseteq Lost /\ deaths' = deaths + 1 /\ spc = "ended"
         \/ /\ Lost' \subseteq Lost \cup {cur} /\ UNCHANGED deaths
            /\ spc # "ended" /\ spc' = "ended"
<1> USE DEF Lost, qvars, svars
<1>1. ASSUME Die
      PROVE  \/ Lost' \subseteq Lost \cup {cur} /\ deaths' = deaths + 1 /\ spc # "ended"
             \/ Lost' \subseteq Lost /\ deaths' = deaths + 1 /\ spc = "ended"
  <2>1. Lost' \subseteq Lost \cup {cur} /\ deaths' = deaths + 1
    BY <1>1 DEF Die
  <2>2. CASE spc = "ended"
    <3>1. cur = 0 /\ cur' = 0 /\ UNCHANGED <<taken, sent>>
      BY <1>1, <2>2 DEF Die, InHand
    <3>2. QED
      BY <2>1, <2>2, <3>1
  <2>3. QED
    BY <2>1, <2>2
<1>2. CASE Dial
  BY <1>1, <1>2 DEF Dial, InHand
<1>3. CASE ProcessEnds
  BY <1>1, <1>3 DEF ProcessEnds
<1>4. CASE TakeOrder
  <2>1. spc = "read" /\ cur = 0 /\ UNCHANGED <<deaths, sent>>
    BY <1>4 DEF TakeOrder, ReadFromQueue, InHand
  <2>2. taken' = taken \cup {cur'} /\ 0 \notin taken
    BY <1>4 DEF TakeOrder, TypeOK
  <2>3. QED
    BY <2>1, <2>2
<1>5. ASSUME NEW n \in 1 .. MsgLen, WriteSome(n)
      PROVE  Lost' \subseteq Lost /\ UNCHANGED deaths /\ spc # "ended"
  BY <1>5, FinishOrderCases DEF WriteSome
<1>6. CASE WriteFails
  BY <1>6 DEF WriteFails
<1>7. CASE UNCHANGED <<taken, sent, cur, spc, deaths>>
  BY <1>7
<1>8. CASE ReadGlobalQId
  BY <1>8 DEF ReadGlobalQId
<1>9. QED
  BY <1>2, <1>3, <1>4, <1>5, <1>6, <1>7, <1>8
     DEF Next, ClnEsrClnt, SendThrd, DropMessage, WriteTimesOut, RcvThrd, readNBytes, ReadFails, Environment,
         QueueCreated, PeerCloses, Restart, Enqueue, FrameArrives, vars

(* A step that loses an order adds its cause.                               *)
LEMMA LossNext ==
  TypeOK /\ InHand /\ LostOrdersBounded /\ [Next]_vars => LostOrdersBounded'
<1> SUFFICES ASSUME TypeOK, InHand, LostOrdersBounded, [Next]_vars
             PROVE  LostOrdersBounded'
  OBVIOUS
<1> DEFINE m == Cardinality(Lost)
           n == Cardinality(Lost')
           e == IF spc = "ended" THEN 1 ELSE 0
           f == IF spc' = "ended" THEN 1 ELSE 0
<1>1. /\ m \in Nat /\ n \in Nat /\ deaths \in Nat
      /\ IsFiniteSet(Lost) /\ IsFiniteSet(Lost')
  BY TypeNext, LostIsFinite DEF TypeOK
<1>2. m <= deaths + e
  BY DEF LostOrdersBounded, Lost
<1>3. n <= deaths' + f => LostOrdersBounded'
  BY DEF LostOrdersBounded, Lost
<1>4. Lost' \subseteq Lost => n <= m
  BY <1>1, FS_Subset
<1>5. Lost' \subseteq Lost \cup {cur} => n <= m + 1
  <2>1. /\ IsFiniteSet(Lost \cup {cur})
        /\ Cardinality(Lost \cup {cur}) \in {m, m + 1}
    BY <1>1, FS_AddElement
  <2>2. Lost' \subseteq Lost \cup {cur} => n <= Cardinality(Lost \cup {cur})
    BY <2>1, FS_Subset
  <2>3. QED
    BY <1>1, <2>1, <2>2
<1> HIDE DEF m, n
<1>6. QED
  BY <1>1, <1>2, <1>3, <1>4, <1>5, LossSteps

(* At first nothing is lost.                                                *)
LEMMA LossInit == Init => LostOrdersBounded
<1> SUFFICES ASSUME Init PROVE LostOrdersBounded
  OBVIOUS
<1>1. taken \ (sent \cup {cur}) = {}
  BY DEF Init
<1>2. QED
  BY <1>1, FS_EmptySet DEF Init, LostOrdersBounded

(* Each lost order has a cause of its own: one end of the process, or the   *)
(* end of the thread.                                                       *)
THEOREM LossesHaveCauses == Spec => []LostOrdersBounded
<1>1. QED
  BY LossInit, LossNext, TypeInit, TypeNext, InHandInit, InHandNext, PTL DEF Spec

(***************************************************************************)
(* The frames of the exchange.                                              *)
(***************************************************************************)

(* Every frame is complete in the inbox, and another one follows it.        *)
Whole(b) ==
  \A k \in 1 .. Len(b) : b[k] # 0 =>
     /\ k + b[k] - 1 <= Len(b)
     /\ \A j \in 1 .. Len(b) : k < j /\ j < k + b[k] => b[j] = 0
     /\ k + b[k] <= Len(b) => b[k + b[k]] # 0

(* The first r units of the inbox are the rest of a frame.                  *)
Starts(b, r) ==
  /\ r \in 0 .. Len(b)
  /\ \A j \in 1 .. r : b[j] = 0
  /\ r < Len(b) => b[r + 1] # 0

(* What is left of the frame rcv_thrd is in.                                *)
Rest ==
  IF rpc = "header"
  THEN IF have = 0 THEN 0 ELSE flen - have
  ELSE flen - HeaderLen - have

(* Unless the thread has ended, or is about to because the frame is shorter *)
(* than a header, what it has not read begins with the rest of the frame.   *)
StepInv ==
  /\ epc \in {"dial", "down"} => rpc = "none" /\ have = 0 /\ inbox = <<>>
  /\ peer = "up" => epc = "wait"
  /\ rpc = "header" => have < HeaderLen
  /\ rpc = "body" => flen > HeaderLen
  /\ Whole(inbox)
  /\ (rpc = "header" /\ (have = 0 \/ flen > HeaderLen)) \/ rpc = "body"
       => Starts(inbox, Rest)

(* A frame that arrives is complete.                                        *)
LEMMA WholeAppend ==
  ASSUME NEW b \in Seq(Nat), NEW l \in Nat \ {0}, Whole(b)
  PROVE  Whole(b \o Frame(l))
<1> DEFINE f == Frame(l)
           c == b \o f
<1>1. /\ f \in Seq(Nat) /\ Len(f) = l
      /\ f[1] = l /\ \A k \in 2 .. l : f[k] = 0
  <2>1. f \in [1 .. l -> Nat]
    BY DEF Frame
  <2>2. QED
    BY <2>1 DEF Frame
<1>2. /\ Len(c) = Len(b) + l
      /\ \A k \in 1 .. Len(b) : c[k] = b[k]
      /\ c[Len(b) + 1] = l
      /\ \A k \in Len(b) + 2 .. Len(b) + l : c[k] = 0
  BY <1>1
<1> HIDE DEF c, f
<1>3. SUFFICES ASSUME NEW k \in 1 .. Len(c), c[k] # 0
               PROVE  /\ k + c[k] - 1 <= Len(c)
                      /\ \A j \in 1 .. Len(c) : k < j /\ j < k + c[k] => c[j] = 0
                      /\ k + c[k] <= Len(c) => c[k + c[k]] # 0
  BY DEF Whole, c, f
<1>4. CASE k \in 1 .. Len(b)
  <2>1. /\ c[k] = b[k] /\ b[k] \in Nat /\ b[k] # 0
        /\ k \in Nat /\ Len(b) \in Nat
        /\ k + b[k] - 1 <= Len(b)
        /\ \A j \in 1 .. Len(b) : k < j /\ j < k + b[k] => b[j] = 0
        /\ k + b[k] <= Len(b) => b[k + b[k]] # 0
    BY <1>2, <1>3, <1>4 DEF Whole
  <2>2. k + c[k] - 1 <= Len(c)
    BY <1>2, <2>1
  <2>3. ASSUME NEW j \in 1 .. Len(c), k < j, j < k + c[k] PROVE c[j] = 0
    <3>1. j \in 1 .. Len(b)
      BY <2>1, <2>3
    <3>2. QED
      BY <1>2, <2>1, <2>3, <3>1
  <2>4. ASSUME k + c[k] <= Len(c) PROVE c[k + c[k]] # 0
    <3>1. CASE k + b[k] <= Len(b)
      <4>1. k + b[k] \in 1 .. Len(b)
        BY <2>1, <3>1
      <4>2. QED
        BY <1>2, <2>1, <3>1, <4>1
    <3>2. CASE ~(k + b[k] <= Len(b))
      <4>1. \A i, j, m \in Nat : i + j - 1 <= m /\ ~(i + j <= m) => i + j = m + 1
        OBVIOUS
      <4>2. k + b[k] = Len(b) + 1
        BY <2>1, <3>2, <4>1
      <4>3. QED
        BY <1>2, <2>1, <4>2
    <3>3. QED
      BY <3>1, <3>2
  <2>5. QED
    BY <2>2, <2>3, <2>4
<1>5. CASE k \notin 1 .. Len(b)
  <2>1. k = Len(b) + 1
    BY <1>2, <1>3, <1>5
  <2>2. QED
    BY <1>2, <2>1
<1>6. QED
  BY <1>4, <1>5

(* So does what is left of complete frames.                                 *)
LEMMA WholeSuffix ==
  ASSUME NEW b \in Seq(Nat), NEW n \in 1 .. Len(b), Whole(b)
  PROVE  Whole(SubSeq(b, n + 1, Len(b)))
<1> DEFINE c == SubSeq(b, n + 1, Len(b))
<1>1. /\ Len(c) = Len(b) - n /\ Len(b) \in Nat /\ n \in Nat
      /\ \A k \in 1 .. Len(b) - n : c[k] = b[k + n]
      /\ \A k \in 1 .. Len(b) : b[k] \in Nat
  OBVIOUS
<1> HIDE DEF c
<1>2. SUFFICES ASSUME NEW k \in 1 .. Len(c), c[k] # 0
               PROVE  /\ k + c[k] - 1 <= Len(c)
                      /\ \A j \in 1 .. Len(c) : k < j /\ j < k + c[k] => c[j] = 0
                      /\ k + c[k] <= Len(c) => c[k + c[k]] # 0
  BY DEF Whole, c
<1>3. PICK v \in Nat, m \in 1 .. Len(b) : m = k + n /\ v = c[k] /\ v = b[m] /\ v # 0
  <2>1. k \in Nat /\ k + n \in 1 .. Len(b) /\ c[k] = b[k + n]
    BY <1>1, <1>2
  <2>2. c[k] \in Nat
    BY <1>1, <2>1
  <2>3. QED
    BY <1>2, <2>1, <2>2
<1>4. /\ m + v - 1 <= Len(b)
      /\ \A j \in 1 .. Len(b) : m < j /\ j < m + v => b[j] = 0
      /\ m + v <= Len(b) => b[m + v] # 0
  BY <1>3 DEF Whole
<1>5. /\ k \in Nat /\ m \in Nat /\ n \in Nat /\ Len(c) \in Nat /\ Len(b) \in Nat
      /\ Len(b) = Len(c) + n /\ m = k + n
  BY <1>1, <1>2, <1>3
<1>6. k + v - 1 <= Len(c)
  <2>1. m + v - 1 <= Len(b)
    BY <1>4
  <2>2. QED
    BY <1>5, <2>1
<1>7. ASSUME NEW j \in 1 .. Len(c), k < j, j < k + v PROVE c[j] = 0
  <2>1. j + n \in 1 .. Len(b) /\ m < j + n /\ j + n < m + v
    BY <1>5, <1>7
  <2>2. c[j] = b[j + n]
    BY <1>1
  <2>3. QED
    BY <1>4, <2>1, <2>2
<1>8. ASSUME k + v <= Len(c) PROVE c[k + v] # 0
  <2>1. k + v \in 1 .. Len(c) /\ (k + v) + n = m + v /\ m + v <= Len(b)
    BY <1>5, <1>8
  <2>2. c[k + v] = b[m + v]
    BY <1>1, <2>1
  <2>3. QED
    BY <1>4, <2>1, <2>2
<1>9. QED
  BY <1>3, <1>6, <1>7, <1>8

(* A part of the rest of a frame is read.                                   *)
LEMMA StartsSuffix ==
  ASSUME NEW b \in Seq(Nat), NEW n \in 1 .. Len(b), NEW r \in Nat, n <= r, Starts(b, r)
  PROVE  Starts(SubSeq(b, n + 1, Len(b)), r - n)
<1> DEFINE c == SubSeq(b, n + 1, Len(b))
           q == r - n
<1>1. /\ Len(c) = Len(b) - n /\ Len(b) \in Nat /\ n \in Nat
      /\ \A k \in 1 .. Len(b) - n : c[k] = b[k + n]
  OBVIOUS
<1> HIDE DEF c
<1>2. q \in 0 .. Len(c)
  BY <1>1 DEF Starts
<1>3. ASSUME NEW j \in 1 .. q PROVE c[j] = 0
  <2>1. j \in 1 .. Len(b) - n /\ j + n \in 1 .. r
    BY <1>1, <1>2
  <2>2. QED
    BY <1>1, <2>1 DEF Starts
<1>4. ASSUME q < Len(c) PROVE c[q + 1] # 0
  <2>1. q + 1 \in 1 .. Len(b) - n /\ q + 1 + n = r + 1 /\ r < Len(b)
    BY <1>1, <1>2, <1>4
  <2>2. QED
    BY <1>1, <2>1 DEF Starts
<1>5. QED
  BY <1>2, <1>3, <1>4 DEF Starts, c

(* The first part of a frame is read.                                       *)
LEMMA StartsFrame ==
  ASSUME NEW b \in Seq(Nat), NEW n \in 1 .. Len(b), Whole(b), b[1] # 0, n <= b[1]
  PROVE  Starts(SubSeq(b, n + 1, Len(b)), b[1] - n)
<1> DEFINE c == SubSeq(b, n + 1, Len(b))
           q == b[1] - n
<1>1. /\ Len(c) = Len(b) - n /\ Len(b) \in Nat /\ n \in Nat /\ b[1] \in Nat
      /\ \A k \in 1 .. Len(b) - n : c[k] = b[k + n]
  OBVIOUS
<1>2. /\ 1 \in 1 .. Len(b) /\ b[1] <= Len(b)
      /\ \A j \in 1 .. Len(b) : 1 < j /\ j < 1 + b[1] => b[j] = 0
      /\ 1 + b[1] <= Len(b) => b[1 + b[1]] # 0
  BY <1>1 DEF Whole
<1> HIDE DEF c
<1>3. q \in 0 .. Len(c)
  BY <1>1, <1>2
<1>4. ASSUME NEW j \in 1 .. q PROVE c[j] = 0
  <2>1. j \in 1 .. Len(b) - n /\ j + n \in 1 .. Len(b) /\ 1 < j + n /\ j + n < 1 + b[1]
    BY <1>1, <1>3
  <2>2. QED
    BY <1>1, <1>2, <2>1
<1>5. ASSUME q < Len(c) PROVE c[q + 1] # 0
  <2>1. q + 1 \in 1 .. Len(b) - n /\ q + 1 + n = 1 + b[1] /\ 1 + b[1] <= Len(b)
    BY <1>1, <1>3, <1>5
  <2>2. QED
    BY <1>1, <1>2, <2>1
<1>6. QED
  BY <1>3, <1>4, <1>5 DEF Starts, c

(* A frame arrives behind what is there.                                    *)
LEMMA StartsAppend ==
  ASSUME NEW b \in Seq(Nat), NEW l \in Nat \ {0}, NEW r \in Nat, Starts(b, r)
  PROVE  Starts(b \o Frame(l), r)
<1> DEFINE f == Frame(l)
           c == b \o f
<1>1. f \in Seq(Nat) /\ Len(f) = l /\ f[1] = l
  <2>1. f \in [1 .. l -> Nat]
    BY DEF Frame
  <2>2. QED
    BY <2>1 DEF Frame
<1>2. /\ Len(c) = Len(b) + l /\ Len(b) \in Nat
      /\ \A k \in 1 .. Len(b) : c[k] = b[k]
      /\ c[Len(b) + 1] = l
  BY <1>1
<1> HIDE DEF c, f
<1>3. r \in 0 .. Len(c) /\ r <= Len(b)
  BY <1>2 DEF Starts
<1>4. \A j \in 1 .. r : c[j] = 0
  BY <1>2, <1>3 DEF Starts
<1>5. c[r + 1] # 0
  <2>1. CASE r = Len(b)
    BY <1>2, <2>1
  <2>2. CASE r < Len(b)
    <3>1. r + 1 \in 1 .. Len(b) /\ b[r + 1] # 0
      BY <1>2, <2>2 DEF Starts
    <3>2. QED
      BY <1>2, <3>1
  <2>3. QED
    BY <1>2, <1>3, <2>1, <2>2
<1>6. QED
  BY <1>3, <1>4, <1>5 DEF Starts, c, f

(* What rcv_thrd has not read are units of frames.                          *)
LEMMA InboxType ==
  ASSUME TypeOK
  PROVE  /\ inbox \in Seq(Nat) /\ have \in Nat /\ flen \in Nat
         /\ HeaderLen \in Nat \ {0} /\ \A l \in KnownLens : l \in Nat /\ l > HeaderLen
<1>1. FrameLens \cup {0} \subseteq Nat
  BY ConstantsAssumption DEF ConstantsAssumption
<1>2. inbox \in Seq(FrameLens \cup {0}) /\ flen \in FrameLens \cup {0} /\ have \in Nat
  BY DEF TypeOK
<1>3. inbox \in Seq(Nat)
  BY <1>1, <1>2
<1>4. QED
  BY <1>1, <1>2, <1>3, ConstantsAssumption DEF ConstantsAssumption

(* A read that begins a header takes the length field of its frame.         *)
LEMMA ReadsFirst ==
  ASSUME TypeOK, StepInv, NEW n \in 1 .. Need, readNBytes(n), rpc = "header", have = 0
  PROVE  StepInv'
<1> DEFINE l == inbox[1]
<1>0. /\ inbox \in Seq(Nat) /\ HeaderLen \in Nat \ {0}
      /\ n \in 1 .. HeaderLen /\ n \in 1 .. Len(inbox)
      /\ inbox' = SubSeq(inbox, n + 1, Len(inbox))
  BY InboxType DEF readNBytes, Need
<1>1. /\ Whole(inbox) /\ Starts(inbox, 0)
      /\ epc \notin {"dial", "down"} /\ UNCHANGED <<epc, peer>> /\ (peer = "up" => epc = "wait")
  BY DEF StepInv, Rest, readNBytes
<1>2. l \in Nat /\ l # 0 /\ LengthField = l
  <2>1. inbox # <<>> /\ Len(inbox) > 0
    BY <1>0
  <2>2. QED
    BY <1>0, <1>1, <2>1 DEF Starts, LengthField
<1>3. flen' = l
  BY <1>2 DEF readNBytes
<1>4. Whole(inbox')
  BY <1>0, <1>1, WholeSuffix
<1>5. ASSUME l > HeaderLen PROVE Starts(inbox', l - n)
  <2>1. n <= l
    BY <1>0, <1>2, <1>5
  <2>2. QED
    BY <1>0, <1>1, <1>2, <2>1, StartsFrame
<1>6. CASE n < HeaderLen
  <2>1. have' = n /\ rpc' = "header"
    BY <1>0, <1>6 DEF readNBytes, Need
  <2>2. flen' > HeaderLen => Starts(inbox', Rest')
    BY <1>0, <1>3, <1>5, <2>1 DEF Rest
  <2>3. have' # 0 /\ have' < HeaderLen
    BY <1>0, <1>6, <2>1
  <2>4. QED
    BY <1>1, <1>4, <2>1, <2>2, <2>3 DEF StepInv
<1>7. CASE n = HeaderLen
  <2>1. have' = 0 /\ rpc' = IF l > HeaderLen THEN "body" ELSE Decoded(l)
    BY <1>0, <1>2, <1>7 DEF readNBytes, Need
  <2>2. CASE l > HeaderLen
    <3>1. Rest' = l - n
      BY <1>2, <1>3, <1>7, <2>1, <2>2 DEF Rest
    <3>2. QED
      BY <1>1, <1>3, <1>4, <1>5, <2>1, <2>2, <3>1 DEF StepInv
  <2>3. CASE ~(l > HeaderLen)
    <3>1. rpc' = "ended"
      BY <2>1, <2>3, InboxType DEF Decoded
    <3>2. QED
      BY <1>1, <1>4, <3>1 DEF StepInv
  <2>4. QED
    BY <2>2, <2>3
<1>8. QED
  BY <1>0, <1>6, <1>7

(* A later read takes a part of the rest of the frame.                      *)
LEMMA ReadsOn ==
  ASSUME TypeOK, StepInv, NEW n \in 1 .. Need, readNBytes(n), ~(rpc = "header" /\ have = 0)
  PROVE  StepInv'
<1>0. /\ inbox \in Seq(Nat) /\ HeaderLen \in Nat \ {0} /\ have \in Nat /\ flen \in Nat
      /\ n \in Nat \ {0} /\ n \in 1 .. Len(inbox) /\ have + n <= Need
      /\ inbox' = SubSeq(inbox, n + 1, Len(inbox))
      /\ rpc \in {"header", "body"}
  BY InboxType DEF readNBytes, Need
<1>1. /\ Whole(inbox)
      /\ epc \notin {"dial", "down"} /\ UNCHANGED <<epc, peer>> /\ (peer = "up" => epc = "wait")
      /\ rpc = "body" => flen > HeaderLen
  BY <1>0 DEF StepInv, readNBytes
<1>2. flen' = flen
  BY <1>0 DEF readNBytes, LengthField
<1>3. Whole(inbox')
  BY <1>0, <1>1, WholeSuffix
<1>4. /\ have + n < Need => have' = have + n /\ rpc' = rpc
      /\ have + n = Need
           => /\ have' = 0
              /\ rpc' = IF rpc = "header" /\ flen > HeaderLen THEN "body" ELSE Decoded(flen)
  BY <1>0 DEF readNBytes, LengthField
<1>5. have + n < Need \/ have + n = Need
  BY <1>0 DEF Need
<1>6. CASE ~(flen > HeaderLen)
  <2>1. rpc = "header" /\ Need = HeaderLen
    BY <1>0, <1>1, <1>6 DEF Need
  <2>2. CASE have + n < Need
    <3>1. have' # 0 /\ have' < HeaderLen /\ rpc' = "header"
      BY <1>0, <1>4, <2>1, <2>2
    <3>2. QED
      BY <1>1, <1>2, <1>3, <1>6, <3>1 DEF StepInv
  <2>3. CASE have + n = Need
    <3>1. rpc' = "ended"
      BY <1>4, <1>6, <2>3, InboxType DEF Decoded
    <3>2. QED
      BY <1>1, <1>3, <3>1 DEF StepInv
  <2>4. QED
    BY <1>5, <2>2, <2>3
<1>7. CASE flen > HeaderLen
  <2>1. Starts(inbox, Rest) /\ Rest \in Nat /\ n <= Rest
    <3>1. Starts(inbox, Rest)
      BY <1>0, <1>7 DEF StepInv
    <3>2. CASE rpc = "header"
      <4>1. Rest = flen - have /\ Need = HeaderLen
        BY <3>2 DEF Rest, Need
      <4>2. QED
        BY <1>0, <1>7, <3>1, <4>1
    <3>3. CASE rpc = "body"
      <4>1. Rest = flen - HeaderLen - have /\ Need = flen - HeaderLen
        BY <3>3 DEF Rest, Need
      <4>2. QED
        BY <1>0, <1>7, <3>1, <4>1
    <3>4. QED
      BY <1>0, <3>2, <3>3
  <2>2. Starts(inbox', Rest - n)
    BY <1>0, <2>1, StartsSuffix
  <2>3. CASE have + n < Need
    <3>1. have' = have + n /\ rpc' = rpc /\ have' # 0
      BY <1>0, <1>4, <2>3
    <3>2. Rest' = Rest - n
      BY <1>0, <1>2, <3>1 DEF Rest
    <3>3. rpc = "header" => have' < HeaderLen
      BY <2>3, <3>1 DEF Need
    <3>4. QED
      BY <1>1, <1>2, <1>3, <2>2, <3>1, <3>2, <3>3 DEF StepInv
  <2>4. CASE have + n = Need /\ rpc = "header"
    <3>1. have' = 0 /\ rpc' = "body"
      BY <1>4, <1>7, <2>4
    <3>2. Rest' = Rest - n
      BY <1>0, <1>2, <2>4, <3>1 DEF Rest, Need
    <3>3. QED
      BY <1>1, <1>2, <1>3, <1>7, <2>2, <3>1, <3>2 DEF StepInv
  <2>5. CASE have + n = Need /\ rpc = "body"
    <3>1. have' = 0 /\ rpc' \in {"header", "ended"}
      BY <1>4, <2>5 DEF Decoded
    <3>2. Rest - n = 0 /\ 0 < HeaderLen
      BY <1>0, <2>5 DEF Rest, Need
    <3>3. rpc' = "header" => Starts(inbox', Rest')
      BY <2>2, <3>1, <3>2 DEF Rest
    <3>4. QED
      BY <1>1, <1>3, <3>1, <3>2, <3>3 DEF StepInv
  <2>6. QED
    BY <1>0, <1>5, <2>3, <2>4, <2>5
<1>8. QED
  BY <1>6, <1>7

(* Every step keeps StepInv.                                                *)
LEMMA StepNext == TypeOK /\ StepInv /\ [Next]_vars => StepInv'
<1> SUFFICES ASSUME TypeOK, StepInv, [Next]_vars PROVE StepInv'
  OBVIOUS
<1>0. Whole(<<>>) /\ Starts(<<>>, 0) /\ HeaderLen \in Nat \ {0}
  BY InboxType DEF Whole, Starts
<1>1. CASE Dial
  <2>1. CASE Die
    BY <1>0, <2>1 DEF Die, StepInv
  <2>2. CASE ~Die
    <3>1. /\ epc' = "wait" /\ rpc' = "header" /\ have' = 0 /\ inbox' = <<>> /\ have' < HeaderLen
      BY <1>0, <1>1, <2>2 DEF Dial, StepInv
    <3>2. Rest' = 0
      BY <3>1 DEF Rest
    <3>3. QED
      BY <1>0, <3>1, <3>2 DEF StepInv
  <2>3. QED
    BY <2>1, <2>2
<1>2. CASE ProcessEnds
  BY <1>0, <1>2 DEF ProcessEnds, Die, StepInv
<1>3. CASE ClnEsrClnt
  BY <1>0, <1>3 DEF ClnEsrClnt, StepInv, rvars
<1>4. ASSUME NEW n \in 1 .. Need, readNBytes(n) PROVE StepInv'
  BY <1>4, ReadsFirst, ReadsOn
<1>5. CASE ReadFails
  BY <1>5 DEF ReadFails, StepInv
<1>6. ASSUME NEW l \in FrameLens, FrameArrives(l) PROVE StepInv'
  <2>1. l \in Nat \ {0} /\ inbox \in Seq(Nat) /\ inbox' = inbox \o Frame(l)
    BY <1>6, InboxType, ConstantsAssumption DEF ConstantsAssumption, FrameArrives
  <2>2. Whole(inbox')
    BY <2>1, WholeAppend DEF StepInv
  <2>3. Starts(inbox, Rest) => Starts(inbox', Rest)
    <3>1. Starts(inbox, Rest) => Rest \in Nat
      BY <2>1 DEF Starts
    <3>2. QED
      BY <2>1, <3>1, StartsAppend
  <2>4. Rest' = Rest
    BY <1>6 DEF FrameArrives, Rest, rvars
  <2>5. epc = "wait" /\ UNCHANGED <<epc, peer, rpc, have, flen>>
    BY <1>6 DEF FrameArrives, StepInv, rvars
  <2>6. QED
    BY <2>2, <2>3, <2>4, <2>5 DEF StepInv
<1>7. CASE PeerCloses
  BY <1>7 DEF PeerCloses, StepInv, Rest, rvars
<1>8. CASE Restart
  BY <1>8 DEF Restart, StepInv, Rest, rvars
<1>9. ASSUME UNCHANGED <<epc, peer, rpc, inbox, have, flen>> PROVE StepInv'
  BY <1>9 DEF StepInv, Rest
<1>10. ASSUME NEW n \in 1 .. MsgLen, WriteTimesOut(n) PROVE StepInv'
  BY <1>10 DEF WriteTimesOut, StepInv, Rest, rvars
<1>11. QED
  BY <1>1, <1>2, <1>3, <1>4, <1>5, <1>6, <1>7, <1>8, <1>9, <1>10
     DEF Next, SendThrd, ReadGlobalQId, TakeOrder, DropMessage, WriteSome, WriteFails, RcvThrd,
         Environment, QueueCreated, Enqueue, vars, rvars

(* Before the first frame there is nothing to read.                         *)
LEMMA StepInit == Init => StepInv
<1> SUFFICES ASSUME Init PROVE StepInv
  OBVIOUS
<1>1. Whole(<<>>)
  BY DEF Whole
<1>2. QED
  BY <1>1 DEF Init, StepInv

(* What begins with the rest of no frame begins with a frame.               *)
LEMMA InStep == TypeOK /\ StepInv => StaysInStep
<1> SUFFICES ASSUME TypeOK, StepInv, rpc = "header", have = 0, inbox # <<>>
             PROVE  Head(inbox) # 0
  BY DEF StaysInStep
<1>1. Starts(inbox, 0)
  BY DEF StepInv, Rest
<1>2. inbox \in Seq(Nat)
  BY InboxType
<1>3. QED
  BY <1>1, <1>2 DEF Starts

(* However the reads are split, a header is never read from the middle of   *)
(* a frame.                                                                 *)
THEOREM HeadersStartFrames == Spec => []StaysInStep
<1>1. QED
  BY StepInit, InStep, StepNext, TypeInit, TypeNext, InHandInit, InHandNext, PTL DEF Spec

(***************************************************************************)
(* The stream of orders.                                                    *)
(***************************************************************************)

(* Unit y may come after unit x, where an order is at least g after the one *)
(* before it; and a stream in which every unit follows the one before it.   *)
(* Every order is new (g = 1), but for the copies of an order when the      *)
(* packing service queues it again (g = 0).                                 *)
Follows(g, x, y) ==
  IF x[2] = MsgLen THEN y[2] = 1 /\ x[1] + g <= y[1] ELSE y = <<x[1], x[2] + 1>>

InOrder(g, w) == \A k \in 1 .. Len(w) - 1 : Follows(g, w[k], w[k + 1])

EndsWith(w, x) == w[Len(w)] = x

(* The unit after the first o of order c may come at the end of the stream. *)
Continues(g, w, c, o) ==
  LET x == w[Len(w)]
  IN  IF o = 0 THEN x[2] = MsgLen /\ x[1] + g <= c ELSE x = <<c, o>>

(* The end of the stream, when the exchange is there to read it, is the last*)
(* unit written of the order in fn_writen, or the end of an earlier order.  *)
EndOfStream ==
  LET x == wire[Len(wire)]
  IN  IF off = 0
      THEN /\ x[2] = MsgLen /\ x[1] <= nMsg
           /\ cur # 0 => x[1] < cur
           /\ \A i \in 1 .. Len(queue) : x[1] < queue[i].id
      ELSE x = <<cur, off>>

(* The queue holds orders in ascending order, later ones than the one in    *)
(* fn_writen.                                                               *)
QueueInv ==
  /\ \A i, j \in 1 .. Len(queue) : i < j => queue[i].id < queue[j].id
  /\ \A i \in 1 .. Len(queue) : cur < queue[i].id /\ queue[i].id <= nMsg
  /\ cur <= nMsg
  /\ cur = 0 => off = 0

WireInv ==
  /\ wire # <<>> /\ InOrder(1, wire)
  /\ epc \in {"dial", "down"} => peer = "gone" /\ wire = ConnectionStart
  /\ peer = "up" => EndOfStream

(* A suffix of an ordered stream is ordered, with the same end.             *)
LEMMA RecentInOrder ==
  ASSUME NEW g \in {0, 1}, NEW w \in Seq(Unit), w # <<>>, InOrder(g, w)
  PROVE  /\ Recent(w) # <<>> /\ InOrder(g, Recent(w))
         /\ Recent(w)[Len(Recent(w))] = w[Len(w)]
<1>1. PICK d \in 0 .. Len(w) :
         /\ Len(Recent(w)) = Len(w) - d
         /\ \A k \in 1 .. Len(Recent(w)) : Recent(w)[k] = w[k + d]
         /\ Len(Recent(w)) > 0
  BY RecentType
<1>2. Recent(w) # <<>>
  BY <1>1
<1>3. Len(w) \in Nat /\ Len(Recent(w)) \in Nat
  BY RecentType
<1>4. ASSUME NEW k \in 1 .. Len(Recent(w)) - 1 PROVE Follows(g, Recent(w)[k], Recent(w)[k + 1])
  <2>1. /\ k \in 1 .. Len(Recent(w)) /\ k + 1 \in 1 .. Len(Recent(w))
        /\ k + d \in 1 .. Len(w) - 1 /\ (k + 1) + d = (k + d) + 1
    BY <1>1, <1>3
  <2>2. Recent(w)[k] = w[k + d] /\ Recent(w)[k + 1] = w[(k + d) + 1]
    BY <1>1, <2>1
  <2>3. QED
    BY <2>1, <2>2 DEF InOrder
<1>5. Recent(w)[Len(Recent(w))] = w[Len(w)]
  <2>1. Len(Recent(w)) \in 1 .. Len(Recent(w)) /\ Len(Recent(w)) + d = Len(w)
    BY <1>1, <1>3
  <2>2. QED
    BY <1>1, <2>1
<1>6. QED
  BY <1>2, <1>4, <1>5 DEF InOrder

(* The next units of the order in fn_writen keep the stream in order.       *)
LEMMA UnitsInOrder ==
  ASSUME NEW g \in {0, 1}, NEW w \in Seq(Unit), w # <<>>, InOrder(g, w),
         NEW c \in 1 .. MaxMsg, NEW o \in Nat, NEW n \in Nat \ {0}, o + n <= MsgLen,
         Continues(g, w, c, o)
  PROVE  LET v == w \o Units(c, o, o + n)
         IN  v \in Seq(Unit) /\ v # <<>> /\ InOrder(g, v) /\ EndsWith(v, <<c, o + n>>)
<1>1. PICK u \in Seq(Unit) :
         /\ u = Units(c, o, o + n)
         /\ Len(u) = n /\ \A k \in 1 .. n : u[k] = <<c, o + k>>
  <2>1. c \in 0 .. MaxMsg /\ n \in Nat
    OBVIOUS
  <2>2. QED
    BY <2>1, UnitsType
<1> DEFINE v == w \o u
<1>2. Len(w) \in Nat \ {0} /\ MsgLen \in Nat
  BY ConstantsAssumption DEF ConstantsAssumption
<1>3. /\ v \in Seq(Unit) /\ Len(v) = Len(w) + n
      /\ \A k \in 1 .. Len(w) : v[k] = w[k]
      /\ \A k \in Len(w) + 1 .. Len(w) + n : v[k] = u[k - Len(w)]
  <2>0. w \in Seq(Unit) /\ u \in Seq(Unit)
    BY <1>1
  <2>1. v \in Seq(Unit) /\ Len(v) = Len(w) + Len(u)
    BY <2>0
  <2>2. \A k \in 1 .. Len(w) : v[k] = w[k]
    BY <2>0
  <2>3. \A k \in Len(w) + 1 .. Len(w) + n : v[k] = u[k - Len(w)]
    BY <1>1, <1>2, <2>0
  <2>4. QED
    BY <1>1, <2>1, <2>2, <2>3
<1> HIDE DEF v
<1>4. \A j \in 1 .. n : v[Len(w) + j] = <<c, o + j>>
  <2> TAKE j \in 1 .. n
  <2>1. Len(w) + j \in Len(w) + 1 .. Len(w) + n /\ (Len(w) + j) - Len(w) = j
    BY <1>2
  <2>2. QED
    BY <1>1, <1>3, <2>1
<1>5. ASSUME NEW k \in 1 .. Len(v) - 1 PROVE Follows(g, v[k], v[k + 1])
  <2>1. CASE k < Len(w)
    <3>1. k \in 1 .. Len(w) - 1 /\ k \in 1 .. Len(w) /\ k + 1 \in 1 .. Len(w)
      BY <1>2, <2>1
    <3>2. v[k] = w[k] /\ v[k + 1] = w[k + 1]
      BY <1>3, <3>1
    <3>3. QED
      BY <3>1, <3>2 DEF InOrder
  <2>2. CASE k = Len(w)
    <3>1. v[k] = w[Len(w)] /\ v[k + 1] = <<c, o + 1>>
      BY <1>2, <1>3, <1>4, <2>2
    <3>2. CASE o = 0
      BY <3>1, <3>2 DEF Follows, Continues
    <3>3. CASE o # 0
      <4>1. v[k] = <<c, o>> /\ o # MsgLen
        BY <1>2, <3>1, <3>3 DEF Continues
      <4>2. QED
        BY <3>1, <4>1 DEF Follows
    <3>4. QED
      BY <3>2, <3>3
  <2>3. CASE k > Len(w)
    <3> DEFINE j == k - Len(w)
    <3>1. j \in 1 .. n /\ j + 1 \in 1 .. n /\ k = Len(w) + j /\ k + 1 = Len(w) + (j + 1)
      BY <1>2, <1>3, <2>3
    <3>2. v[k] = <<c, o + j>> /\ v[k + 1] = <<c, o + (j + 1)>>
      BY <1>4, <3>1
    <3>3. o + j # MsgLen /\ o + (j + 1) = (o + j) + 1
      BY <1>2, <3>1
    <3> HIDE DEF j
    <3>4. QED
      BY <3>2, <3>3 DEF Follows
  <2>4. QED
    BY <1>2, <1>3, <2>1, <2>2, <2>3
<1>6. v[Len(v)] = <<c, o + n>>
  BY <1>2, <1>3, <1>4
<1>7. v # <<>>
  BY <1>2, <1>3
<1>8. QED
  BY <1>1, <1>3, <1>5, <1>6, <1>7 DEF InOrder, EndsWith, v

(* Every step keeps the queue in order.                                     *)
LEMMA QueueNext == TypeOK /\ InHand /\ QueueInv /\ [Next]_vars => QueueInv'
<1> SUFFICES ASSUME TypeOK, InHand, QueueInv, [Next]_vars PROVE QueueInv'
  OBVIOUS
<1>0. queue \in Seq(Messages) /\ nMsg \in Nat /\ \A m \in Messages : m.id \in Nat /\ m.id # 0
  BY DEF TypeOK, Messages
<1>1. ASSUME queue # <<>>, queue' = Tail(queue), nMsg' = nMsg,
             cur' \in {cur, Head(queue).id}, cur' = 0 => off' = 0
      PROVE  QueueInv'
  <2>1. /\ \A i \in 1 .. Len(queue') : i + 1 \in 2 .. Len(queue) /\ queue'[i] = queue[i + 1]
        /\ 1 \in 1 .. Len(queue) /\ Head(queue) = queue[1]
    BY <1>0, <1>1
  <2>2. \A i, j \in 1 .. Len(queue') : i < j => queue'[i].id < queue'[j].id
    <3>1. \A i, j \in 1 .. Len(queue') : i < j => i + 1 < j + 1
      OBVIOUS
    <3>2. QED
      BY <2>1, <3>1 DEF QueueInv
  <2>3. \A i \in 1 .. Len(queue') : cur' < queue'[i].id /\ queue'[i].id <= nMsg
    <3>1. \A i \in 2 .. Len(queue) : i \in 1 .. Len(queue) /\ 1 < i
      OBVIOUS
    <3>2. \A i \in 2 .. Len(queue) : queue[1].id < queue[i].id
      BY <2>1, <3>1 DEF QueueInv
    <3>3. QED
      BY <1>1, <2>1, <3>1, <3>2 DEF QueueInv
  <2>4. cur' <= nMsg
    BY <1>1, <2>1 DEF QueueInv
  <2>5. QED
    BY <1>1, <2>2, <2>3, <2>4 DEF QueueInv
<1>2. CASE TakeOrder
  <2>1. Head(queue) \in Messages
    BY <1>0, <1>2 DEF TakeOrder, ReadFromQueue
  <2>2. QED
    BY <1>0, <1>1, <1>2, <2>1 DEF TakeOrder, ReadFromQueue
<1>3. CASE DropMessage
  BY <1>1, <1>3 DEF DropMessage, ReadFromQueue, svars, QueueInv
<1>4. ASSUME UNCHANGED queue, UNCHANGED nMsg, cur' = 0, off' = 0 PROVE QueueInv'
  BY <1>0, <1>4 DEF QueueInv
<1>5. CASE Dial \/ ProcessEnds \/ WriteFails
  <2>1. CASE Die
    BY <1>4, <2>1 DEF Die, qvars
  <2>2. CASE WriteFails
    BY <1>4, <2>2 DEF WriteFails, qvars
  <2>3. CASE Dial /\ ~Die
    BY <2>3 DEF Dial, QueueInv, qvars
  <2>4. QED
    BY <1>5, <2>1, <2>2, <2>3 DEF ProcessEnds
<1>6. ASSUME NEW n \in 1 .. MsgLen, WriteSome(n) PROVE QueueInv'
  <2>1. UNCHANGED <<queue, nMsg>>
    BY <1>6 DEF WriteSome, qvars
  <2>2. \/ cur' = 0 /\ off' = 0
        \/ UNCHANGED cur /\ cur # 0
    BY <1>6, FinishOrderCases DEF WriteSome, InHand
  <2>3. QED
    BY <1>4, <2>1, <2>2 DEF QueueInv
<1>7. ASSUME NEW t \in Types, Enqueue(t) PROVE QueueInv'
  <2> DEFINE m == [id |-> nMsg + 1, type |-> t]
             k == Len(queue) + 1
  <2>1. m \in Messages /\ m.id = nMsg + 1
    BY <1>0, <1>7, ConstantsAssumption DEF ConstantsAssumption, Enqueue, TypeOK, Messages
  <2>2. /\ Len(queue') = k /\ Len(queue) \in Nat
        /\ queue'[k] = m
        /\ \A i \in 1 .. Len(queue) : queue'[i] = queue[i]
    BY <1>0, <1>7, <2>1 DEF Enqueue
  <2>3. \A i \in 1 .. Len(queue) : queue[i].id \in Nat
    BY <1>0
  <2>4. nMsg' = nMsg + 1 /\ UNCHANGED <<cur, off>> /\ cur \in Nat
    BY <1>7 DEF Enqueue, svars, TypeOK
  <2> HIDE DEF m
  <2>5. \A i, j \in 1 .. Len(queue') : i < j => queue'[i].id < queue'[j].id
    <3> TAKE i, j \in 1 .. Len(queue')
    <3>1. CASE j = k
      <4>1. i < j => i \in 1 .. Len(queue)
        BY <2>2, <3>1
      <4>2. QED
        BY <1>0, <2>1, <2>2, <2>3, <3>1, <4>1 DEF QueueInv
    <3>2. CASE j # k
      <4>1. j \in 1 .. Len(queue) /\ (i < j => i \in 1 .. Len(queue))
        BY <2>2, <3>2
      <4>2. QED
        BY <2>2, <4>1 DEF QueueInv
    <3>3. QED
      BY <3>1, <3>2
  <2>6. \A i \in 1 .. Len(queue') : cur' < queue'[i].id /\ queue'[i].id <= nMsg'
    <3> TAKE i \in 1 .. Len(queue')
    <3>1. CASE i = k
      BY <1>0, <2>1, <2>2, <2>4, <3>1 DEF QueueInv
    <3>2. CASE i # k
      <4>1. i \in 1 .. Len(queue)
        BY <2>2, <3>2
      <4>2. QED
        BY <1>0, <2>2, <2>3, <2>4, <4>1 DEF QueueInv
    <3>3. QED
      BY <3>1, <3>2
  <2>7. cur' <= nMsg' /\ (cur' = 0 => off' = 0)
    BY <1>0, <2>4 DEF QueueInv
  <2>8. QED
    BY <2>5, <2>6, <2>7 DEF QueueInv
<1>8. ASSUME UNCHANGED <<queue, nMsg, cur, off>> PROVE QueueInv'
  BY <1>8 DEF QueueInv
<1>9. QED
  BY <1>2, <1>3, <1>5, <1>6, <1>7, <1>8
     DEF Next, ClnEsrClnt, SendThrd, ReadGlobalQId, WriteTimesOut, RcvThrd, readNBytes,
         ReadFails, Environment, QueueCreated, PeerCloses, Restart, FrameArrives, vars, qvars,
         svars

(* Units that arrive of the order in fn_writen keep the stream in order.    *)
LEMMA UnitsArrive ==
  ASSUME TypeOK, InHand, WireInv, peer = "up", spc = "write", NEW n \in 1 .. MsgLen,
         off + n <= MsgLen
  PROVE  LET w == Recent(wire \o Units(cur, off, off + n))
         IN  w # <<>> /\ InOrder(1, w) /\ EndsWith(w, <<cur, off + n>>)
<1> DEFINE v == wire \o Units(cur, off, off + n)
<1>1. /\ wire \in Seq(Unit) /\ wire # <<>> /\ InOrder(1, wire)
      /\ cur \in 1 .. MaxMsg /\ off \in Nat /\ n \in Nat \ {0} /\ 1 \in {0, 1}
  BY ConstantsAssumption DEF ConstantsAssumption, TypeOK, Unit, InHand, WireInv
<1>2. Continues(1, wire, cur, off)
  <2>1. wire[Len(wire)] \in Unit
    BY <1>1
  <2>2. wire[Len(wire)][1] \in Nat
    BY <2>1 DEF Unit
  <2>3. QED
    BY <1>1, <2>2 DEF WireInv, EndOfStream, Continues
<1>3. v \in Seq(Unit) /\ v # <<>> /\ InOrder(1, v) /\ EndsWith(v, <<cur, off + n>>)
  BY <1>1, <1>2, UnitsInOrder
<1> HIDE DEF v
<1>4. Recent(v) # <<>> /\ InOrder(1, Recent(v)) /\ EndsWith(Recent(v), <<cur, off + n>>)
  BY <1>1, <1>3, RecentInOrder DEF EndsWith
<1>5. QED
  BY <1>4 DEF v

(* Every step keeps the stream in order.                                    *)
LEMMA WireNext == TypeOK /\ InHand /\ QueueInv /\ WireInv /\ [Next]_vars => WireInv'
<1> SUFFICES ASSUME TypeOK, InHand, QueueInv, WireInv, [Next]_vars PROVE WireInv'
  OBVIOUS
<1>0. /\ wire \in Seq(Unit) /\ queue \in Seq(Messages) /\ nMsg \in Nat
      /\ \A m \in Messages : m.id \in Nat /\ m.id # 0
      /\ MsgLen \in Nat \ {0}
  BY ConstantsAssumption DEF ConstantsAssumption, TypeOK, Messages, Unit
<1>1. ConnectionStart # <<>> /\ InOrder(1, ConnectionStart)
      /\ Len(ConnectionStart) = 1 /\ ConnectionStart[1] = <<0, MsgLen>>
  BY DEF ConnectionStart, InOrder
<1>2. CASE Die
  BY <1>1, <1>2 DEF Die, WireInv
<1>3. CASE Dial /\ ~Die
  <2>1. /\ wire = ConnectionStart /\ UNCHANGED <<wire, queue, nMsg, cur, off>> /\ epc' = "wait"
        /\ cur = 0 /\ off = 0
    BY <1>3 DEF Dial, WireInv, InHand, QueueInv, qvars
  <2>2. \A i \in 1 .. Len(queue) : 0 < queue[i].id
    BY <1>0
  <2>3. EndOfStream'
    <3>1. wire'[Len(wire')] = <<0, MsgLen>>
      BY <1>1, <2>1
    <3>2. UNCHANGED <<queue, nMsg>> /\ cur' = 0 /\ off' = 0
      BY <2>1
    <3>3. QED
      BY <1>0, <2>2, <3>1, <3>2 DEF EndOfStream
  <2>4. QED
    BY <1>1, <2>1, <2>3 DEF WireInv
<1>4. CASE TakeOrder
  <2>1. /\ queue # <<>> /\ queue' = Tail(queue) /\ spc = "read" /\ cur' = Head(queue).id /\ off' = 0
        /\ UNCHANGED <<wire, nMsg, epc, peer>>
    BY <1>4 DEF TakeOrder, ReadFromQueue
  <2>2. cur = 0 /\ off = 0
    BY <2>1 DEF InHand, QueueInv
  <2>3. /\ \A i \in 1 .. Len(queue') : i + 1 \in 1 .. Len(queue) /\ queue'[i] = queue[i + 1]
        /\ 1 \in 1 .. Len(queue) /\ Head(queue) = queue[1]
    BY <1>0, <2>1
  <2>4. EndOfStream => EndOfStream'
    BY <2>1, <2>2, <2>3 DEF EndOfStream
  <2>5. QED
    BY <2>1, <2>4 DEF WireInv
<1>5. CASE DropMessage
  <2>1. /\ queue # <<>> /\ queue' = Tail(queue) /\ spc = "read"
        /\ UNCHANGED <<wire, nMsg, epc, peer, cur, off>>
    BY <1>5 DEF DropMessage, ReadFromQueue, svars
  <2>2. \A i \in 1 .. Len(queue') : i + 1 \in 1 .. Len(queue) /\ queue'[i] = queue[i + 1]
    BY <1>0, <2>1
  <2>3. EndOfStream => EndOfStream'
    BY <2>1, <2>2 DEF EndOfStream
  <2>4. QED
    BY <2>1, <2>3 DEF WireInv
<1>6. ASSUME NEW n \in 1 .. MsgLen, WriteSome(n) PROVE WireInv'
  <2>1. /\ \/ off + n = MsgLen /\ cur' = 0 /\ off' = 0
           \/ off' = off + n /\ UNCHANGED cur
        /\ off + n <= MsgLen
        /\ UNCHANGED <<queue, nMsg, epc, peer>>
    BY <1>6, FinishOrderCases DEF WriteSome, qvars
  <2>2. cur \in 1 .. MaxMsg /\ off \in Nat /\ n \in Nat \ {0}
    BY <1>6 DEF WriteSome, InHand, TypeOK
  <2>3. CASE peer # "up"
    <3>1. UNCHANGED wire
      BY <1>6, <2>3 DEF WriteSome
    <3>2. QED
      BY <2>1, <2>3, <3>1 DEF WireInv
  <2>4. CASE peer = "up"
    <3>1. wire' = Recent(wire \o Units(cur, off, off + n)) /\ spc = "write"
      BY <1>6, <2>4 DEF WriteSome
    <3>2. wire' # <<>> /\ InOrder(1, wire') /\ EndsWith(wire', <<cur, off + n>>)
      BY <2>1, <2>4, <3>1, UnitsArrive
    <3>3. wire'[Len(wire')] = <<cur, off + n>>
      BY <3>2 DEF EndsWith
    <3>4. EndOfStream'
      <4>1. CASE off + n = MsgLen /\ cur' = 0 /\ off' = 0
        BY <2>1, <3>3, <4>1 DEF EndOfStream, QueueInv
      <4>2. CASE off' = off + n /\ UNCHANGED cur
        BY <2>2, <3>3, <4>2 DEF EndOfStream
      <4>3. QED
        BY <2>1, <4>1, <4>2
    <3>5. epc \notin {"dial", "down"}
      BY <2>4 DEF WireInv
    <3>6. QED
      BY <2>1, <3>2, <3>4, <3>5 DEF WireInv
  <2>5. QED
    BY <2>3, <2>4
<1>7. CASE WriteFails
  BY <1>7 DEF WriteFails, WireInv
<1>8. CASE ClnEsrClnt \/ PeerCloses
  BY <1>8 DEF ClnEsrClnt, PeerCloses, WireInv
<1>9. CASE Restart
  BY <1>9 DEF Restart, WireInv, EndOfStream, svars, qvars
<1>10. ASSUME NEW t \in Types, Enqueue(t) PROVE WireInv'
  <2> DEFINE m == [id |-> nMsg + 1, type |-> t]
  <2>1. m.id = nMsg + 1 /\ m \in Messages
    BY <1>0, <1>10, ConstantsAssumption DEF ConstantsAssumption, Enqueue, TypeOK, Messages
  <2>2. \A i \in 1 .. Len(queue') : (i \in 1 .. Len(queue) /\ queue'[i] = queue[i]) \/ queue'[i] = m
    BY <1>0, <1>10, <2>1 DEF Enqueue
  <2>3. nMsg' = nMsg + 1 /\ UNCHANGED <<wire, epc, peer, cur, off>>
    BY <1>10 DEF Enqueue, svars
  <2> HIDE DEF m
  <2>4. wire[Len(wire)] \in Unit
    BY <1>0 DEF WireInv
  <2>5. wire[Len(wire)][1] \in Nat
    BY <2>4 DEF Unit
  <2>6. EndOfStream => EndOfStream'
    <3>1. CASE off # 0
      BY <2>3, <3>1 DEF EndOfStream
    <3>2. CASE off = 0 /\ EndOfStream
      <4>1. wire[Len(wire)][1] <= nMsg /\ wire[Len(wire)][1] < nMsg + 1
        BY <1>0, <2>5, <3>2 DEF EndOfStream
      <4>2. \A i \in 1 .. Len(queue') : wire[Len(wire)][1] < queue'[i].id
        BY <2>1, <2>2, <3>2, <4>1 DEF EndOfStream
      <4>3. wire[Len(wire)][1] <= nMsg'
        BY <1>0, <2>3, <2>5, <4>1
      <4>4. QED
        BY <2>3, <3>2, <4>2, <4>3 DEF EndOfStream
    <3>3. QED
      BY <3>1, <3>2
  <2>7. QED
    BY <2>3, <2>6 DEF WireInv
<1>11. ASSUME UNCHANGED <<queue, nMsg, epc, peer, cur, off, wire>> PROVE WireInv'
  BY <1>11 DEF WireInv, EndOfStream
<1>12. ASSUME NEW n \in 1 .. MsgLen, WriteTimesOut(n) PROVE WireInv'
  <2>1. wire' # <<>> /\ InOrder(1, wire')
    BY <1>12, UnitsArrive DEF WriteTimesOut
  <2>2. peer' = "gone" /\ epc' = "wait"
    BY <1>12 DEF WriteTimesOut
  <2>3. QED
    BY <2>1, <2>2 DEF WireInv
<1>13. QED
  BY <1>2, <1>3, <1>4, <1>5, <1>6, <1>7, <1>8, <1>9, <1>10, <1>11, <1>12
     DEF Next, SendThrd, ReadGlobalQId, RcvThrd, readNBytes, ReadFails, Environment, QueueCreated, ProcessEnds,
         FrameArrives, vars, qvars, svars

(* However the socket splits the writes, the exchange sees whole orders in  *)
(* ascending order.                                                         *)
THEOREM StreamIsFramed == Spec => []Framing
<1>1. Init => QueueInv /\ WireInv
  <2> SUFFICES ASSUME Init PROVE QueueInv /\ WireInv
    OBVIOUS
  <2>1. QueueInv
    BY DEF Init, QueueInv
  <2>2. ConnectionStart # <<>> /\ InOrder(1, ConnectionStart)
    BY DEF ConnectionStart, InOrder
  <2>3. QED
    BY <2>1, <2>2 DEF Init, WireInv
<1>2. TypeOK /\ WireInv => Framing
  <2> SUFFICES ASSUME TypeOK, WireInv, NEW k \in 1 .. Len(wire) - 1
               PROVE  IF wire[k][2] = MsgLen
                      THEN wire[k + 1][2] = 1 /\ wire[k + 1][1] > wire[k][1]
                      ELSE wire[k + 1] = <<wire[k][1], wire[k][2] + 1>>
    BY DEF Framing
  <2>1. wire[k] \in Unit /\ wire[k + 1] \in Unit
    <3>1. wire \in Seq(Unit)
      BY DEF TypeOK, Unit
    <3>2. QED
      BY <3>1
  <2>2. wire[k][1] \in Nat /\ wire[k + 1][1] \in Nat
    BY <2>1 DEF Unit
  <2>3. Follows(1, wire[k], wire[k + 1])
    BY DEF WireInv, InOrder
  <2>4. QED
    BY <2>2, <2>3 DEF Follows
<1>3. QED
  BY <1>1, <1>2, QueueNext, WireNext, TypeInit, TypeNext, InHandInit, InHandNext, PTL DEF Spec

(***************************************************************************)
(* The orders handed to the socket.                                         *)
(***************************************************************************)

(* An order that has been sent is before the one in fn_writen, before all   *)
(* that are in the queue, and before all that will be put there.            *)
SentInv ==
  \A j \in sent :
    /\ j <= nMsg
    /\ cur # 0 => j < cur
    /\ \A i \in 1 .. Len(queue) : j < queue[i].id

(* Every step keeps what was sent behind what is still to be sent.          *)
LEMMA SentNext == TypeOK /\ InHand /\ QueueInv /\ SentInv /\ [Next]_vars => SentInv'
<1> SUFFICES ASSUME TypeOK, InHand, QueueInv, SentInv, [Next]_vars PROVE SentInv'
  OBVIOUS
<1>0. /\ queue \in Seq(Messages) /\ nMsg \in Nat /\ sent \subseteq Nat /\ cur \in Nat
      /\ \A m \in Messages : m.id \in Nat /\ m.id # 0
  BY ConstantsAssumption DEF ConstantsAssumption, TypeOK, Messages
<1>1. ASSUME queue # <<>>, queue' = Tail(queue), UNCHANGED <<nMsg, sent>>,
             cur' \in {cur, Head(queue).id}
      PROVE  SentInv'
  <2>1. /\ \A i \in 1 .. Len(queue') : i + 1 \in 1 .. Len(queue) /\ queue'[i] = queue[i + 1]
        /\ 1 \in 1 .. Len(queue) /\ Head(queue) = queue[1]
    BY <1>0, <1>1
  <2>2. QED
    BY <1>1, <2>1 DEF SentInv
<1>2. CASE TakeOrder
  BY <1>1, <1>2 DEF TakeOrder, ReadFromQueue
<1>3. CASE DropMessage
  BY <1>1, <1>3 DEF DropMessage, ReadFromQueue, svars
<1>4. ASSUME UNCHANGED <<queue, nMsg, sent>>, cur' \in {0, cur} PROVE SentInv'
  BY <1>4 DEF SentInv
<1>5. CASE Dial \/ ProcessEnds \/ WriteFails
  BY <1>4, <1>5 DEF Dial, ProcessEnds, Die, WriteFails, qvars
<1>6. ASSUME NEW n \in 1 .. MsgLen, WriteSome(n) PROVE SentInv'
  <2>1. UNCHANGED <<queue, nMsg>>
    BY <1>6 DEF WriteSome, qvars
  <2>2. CASE cur' = 0 /\ sent' = sent \cup {cur}
    <3>1. cur <= nMsg /\ \A i \in 1 .. Len(queue) : cur < queue[i].id
      BY DEF QueueInv
    <3>2. QED
      BY <2>1, <2>2, <3>1 DEF SentInv
  <2>3. CASE UNCHANGED <<cur, sent>>
    BY <1>4, <2>1, <2>3
  <2>4. QED
    BY <1>6, <2>2, <2>3 DEF WriteSome, FinishOrder
<1>7. ASSUME NEW t \in Types, Enqueue(t) PROVE SentInv'
  <2> DEFINE m == [id |-> nMsg + 1, type |-> t]
  <2>1. m.id = nMsg + 1 /\ m \in Messages
    BY <1>0, <1>7, ConstantsAssumption DEF ConstantsAssumption, Enqueue, TypeOK, Messages
  <2>2. \A i \in 1 .. Len(queue') : (i \in 1 .. Len(queue) /\ queue'[i] = queue[i]) \/ queue'[i] = m
    BY <1>0, <1>7, <2>1 DEF Enqueue
  <2>3. nMsg' = nMsg + 1 /\ UNCHANGED <<cur, sent>>
    BY <1>7 DEF Enqueue, svars
  <2> HIDE DEF m
  <2>4. ASSUME NEW j \in sent
        PROVE  j <= nMsg + 1 /\ \A i \in 1 .. Len(queue') : j < queue'[i].id
    <3>1. j \in Nat /\ j <= nMsg /\ j < nMsg + 1
      BY <1>0 DEF SentInv
    <3>2. QED
      BY <1>0, <2>1, <2>2, <3>1 DEF SentInv
  <2>5. QED
    BY <2>3, <2>4 DEF SentInv
<1>8. ASSUME UNCHANGED <<queue, nMsg, cur, sent>> PROVE SentInv'
  BY <1>8 DEF SentInv
<1>9. QED
  BY <1>2, <1>3, <1>5, <1>6, <1>7, <1>8
     DEF Next, ClnEsrClnt, SendThrd, ReadGlobalQId, WriteTimesOut, RcvThrd, readNBytes,
         ReadFails, Environment, QueueCreated, PeerCloses, Restart, FrameArrives, vars, qvars,
         svars

(* Only fn_writen adds to what was sent, and it adds the order in hand.     *)
LEMMA OnlyTheOrderInHand == [Next]_vars => sent' \in {sent, sent \cup {cur}} /\ (sent' # sent => spc = "write")
<1> SUFFICES ASSUME [Next]_vars
             PROVE  sent' \in {sent, sent \cup {cur}} /\ (sent' # sent => spc = "write")
  OBVIOUS
<1>1. ASSUME NEW n \in 1 .. MsgLen, WriteSome(n)
      PROVE  sent' \in {sent, sent \cup {cur}} /\ spc = "write"
  BY <1>1 DEF WriteSome, FinishOrder
<1>2. QED
  BY <1>1
     DEF Next, Dial, Die, ClnEsrClnt, SendThrd, ReadGlobalQId, TakeOrder, DropMessage,
         WriteTimesOut, WriteFails, RcvThrd,
         readNBytes, ReadFails, Environment, QueueCreated, PeerCloses, ProcessEnds, Restart,
         Enqueue, FrameArrives, vars, svars

(* Orders are handed to the socket once each and in queue order, over all   *)
(* the connections and restarts.                                            *)
THEOREM OrdersAreSentOnce == Spec => SentOnceInOrder
<1>1. Init => QueueInv /\ SentInv
  BY DEF Init, QueueInv, SentInv
<1>2. InHand /\ SentInv /\ [Next]_vars => [\A i \in sent' \ sent : \A j \in sent : j < i]_vars
  <2> SUFFICES ASSUME InHand, SentInv, [Next]_vars, NEW i \in sent' \ sent, NEW j \in sent
               PROVE  j < i
    OBVIOUS
  <2>1. i = cur /\ spc = "write"
    BY OnlyTheOrderInHand
  <2>2. cur # 0
    BY <2>1 DEF InHand
  <2>3. QED
    BY <2>1, <2>2 DEF SentInv
<1>3. QED
  BY <1>1, <1>2, SentNext, QueueNext, TypeInit, TypeNext, InHandInit, InHandNext, PTL
     DEF Spec, SentOnceInOrder
================================================================================
