-------------------------- MODULE TapServicesProofs --------------------------
(***************************************************************************)
(* Theorems about the services that share the queue, for any finite set of  *)
(* them, of any kind, and any limit of the queue.                           *)
(***************************************************************************)
EXTENDS TapServices, FiniteSetTheorems, TLAPS

(***************************************************************************)
(* Type correctness.                                                        *)
(***************************************************************************)

(* What GetResetSequence leaves in the row and returns.                     *)
LEMMA GetResetSequenceType ==
  ASSUME seqRow \in Nat, NEW g \in GetResetSequence
  PROVE  /\ g.row \in {seqRow, seqRow + 1} /\ g.row \in Nat
         /\ g.num \in Nat \cup {Refused}
         /\ g.num # Refused => g.num = seqRow + 1 /\ g.row = seqRow + 1
BY DEF GetResetSequence, Refused

(* The services that have written and not read back are finitely many.      *)
LEMMA ReadersAreFinite == Cardinality(InReadBack) \in Nat
<1>1. InReadBack \in SUBSET Services
  BY DEF InReadBack
<1>2. QED
  BY <1>1, FS_Subset, FS_CardinalityType, ConstantsAssumption DEF ConstantsAssumption

(* The initial state is well typed.                                         *)
LEMMA TypeInit == Init => TypeOK
<1> SUFFICES ASSUME Init PROVE TypeOK
  OBVIOUS
<1>1. qOpen \in BOOLEAN /\ senderUp \in BOOLEAN
  BY Zenon DEF Init
<1>2. pc \in [Services -> Labels]
  BY DEF Init, Started, Labels
<1>3. num \in [Services -> Nat \cup {Refused, NoNumber}] /\ \A c \in Services : num[c] # Refused
  BY DEF Init, NoNumber, Refused
<1>4. QED
  BY <1>1, <1>2, <1>3 DEF Init, TypeOK

(* The end of the process keeps the types.                                  *)
LEMMA ProcessEndsType == TypeOK /\ ProcessEnds => TypeOK'
<1> SUFFICES ASSUME TypeOK, ProcessEnds PROVE TypeOK'
  OBVIOUS
<1>1. qOpen' \in BOOLEAN /\ senderUp' \in BOOLEAN
  BY Zenon DEF ProcessEnds, TypeOK
<1>2. pc' \in [Services -> Labels]
  BY DEF ProcessEnds, Labels
<1>3. num' \in [Services -> Nat \cup {Refused, NoNumber}] /\ \A c \in Services : num'[c] # Refused
  BY DEF ProcessEnds, NoNumber, Refused
<1>4. left' \in Nat /\ ends' \in Nat
  BY ReadersAreFinite DEF ProcessEnds, TypeOK
<1>5. QED
  BY <1>1, <1>2, <1>3, <1>4 DEF ProcessEnds, TypeOK

(* A message of a service has the type of the queue's messages, unless it   *)
(* is the all-zero packet.                                                  *)
LEMMA MessageType ==
  ASSUME TypeOK, NEW c \in Services, num[c] # NoNumber
  PROVE  Message(c) \in Messages
BY ConstantsAssumption DEF ConstantsAssumption, TypeOK, Message, Messages

(* Where the packing service can be, that only it packs, and that a request *)
(* has its number from the sequence stage until it is written.              *)
Places ==
  \A c \in Services :
    IF IsPacking(c)
    THEN pc[c] \in {"down", "create_queue", "can_write", "pack", "write"}
    ELSE /\ pc[c] # "pack"
         /\ pc[c] \in {"create_queue", "can_write", "write"} => num[c] # NoNumber

(* A step of one service to another place keeps the type of pc.             *)
LEMMA GotoType ==
  ASSUME TypeOK, NEW c \in Services, NEW l \in Labels, Goto(c, l)
  PROVE  pc' \in [Services -> Labels]
BY DEF TypeOK, Goto

(* A step that changes neither the queue nor a number keeps the types.      *)
LEMMA CheckType ==
  ASSUME TypeOK, NEW c \in Services, NEW l \in Labels, NEW next \in Labels,
         NEW passes \in BOOLEAN, Check(c, l, passes, next)
  PROVE  TypeOK'
<1>1. pc' \in [Services -> Labels]
  BY GotoType DEF Check, Labels
<1>2. QED
  BY <1>1 DEF Check, TypeOK, hist

(* Every step keeps the types.                                              *)
LEMMA TypeNext == TypeOK /\ Places /\ [Next]_vars => TypeOK'
<1> SUFFICES ASSUME TypeOK, Places, [Next]_vars PROVE TypeOK'
  OBVIOUS
<1> USE DEF hist, Labels
<1>1. ASSUME NEW c \in Services, Call(c) PROVE TypeOK'
  <2>1. pc' \in [Services -> Labels]
    BY <1>1, GotoType DEF Call
  <2>2. QED
    BY <1>1, <2>1 DEF Call, TypeOK
<1>2. ASSUME NEW c \in Services, EsrStatus(c) PROVE TypeOK'
  BY <1>2, CheckType DEF EsrStatus
<1>3. ASSUME NEW c \in Services, PasswordAge(c) PROVE TypeOK'
  BY <1>3, CheckType, ConstantsAssumption DEF ConstantsAssumption, PasswordAge
<1>4. ASSUME NEW c \in Services, LoginRow(c) PROVE TypeOK'
  BY <1>4, CheckType DEF LoginRow
<1>5. ASSUME NEW c \in Services, Masters(c) PROVE TypeOK'
  BY <1>5, CheckType DEF Masters
<1>6. ASSUME NEW c \in Services, LogOffRows(c) PROVE TypeOK'
  BY <1>6, CheckType, ConstantsAssumption DEF ConstantsAssumption, LogOffRows
<1>7. ASSUME NEW c \in Services, TakeNumber(c) PROVE TypeOK'
  <2>1. pc' \in [Services -> Labels]
    BY <1>7, GotoType DEF TakeNumber
  <2>2. PICK g \in GetResetSequence : seqRow' = g.row /\ num' = [num EXCEPT ![c] = g.num]
    BY <1>7 DEF TakeNumber
  <2>3. seqRow' \in Nat /\ num' \in [Services -> Nat \cup {Refused, NoNumber}]
    BY <2>2, GetResetSequenceType DEF TypeOK
  <2>4. \A d \in Services : IsPacking(d) => num'[d] # Refused
    BY <1>7, <2>2 DEF TakeNumber, Places, TypeOK
  <2>5. QED
    BY <1>7, <2>1, <2>3, <2>4 DEF TakeNumber, TypeOK
<1>8. ASSUME NEW c \in Services, CreateQueue(c) PROVE TypeOK'
  <2>1. pc' \in [Services -> Labels]
    BY <1>8, GotoType DEF CreateQueue
  <2>2. qOpen' \in BOOLEAN
    BY <1>8, Zenon DEF CreateQueue, TypeOK
  <2>3. QED
    BY <1>8, <2>1, <2>2 DEF CreateQueue, TypeOK
<1>9. ASSUME NEW c \in Services, FnCanWriteToQueue(c) PROVE TypeOK'
  <2>1. pc' \in [Services -> Labels]
    BY <1>9, GotoType DEF FnCanWriteToQueue
  <2>2. QED
    BY <1>9, <2>1 DEF FnCanWriteToQueue, TypeOK
<1>10. ASSUME NEW c \in Services, PackOrder(c) PROVE TypeOK'
  <2>1. pc' \in [Services -> Labels]
    BY <1>10, GotoType DEF PackOrder
  <2>2. CASE UNCHANGED <<seqRow, num>>
    BY <1>10, <2>1, <2>2 DEF PackOrder, TypeOK
  <2>3. CASE ~UNCHANGED <<seqRow, num>>
    <3>1. PICK g \in GetResetSequence :
             /\ seqRow' = g.row
             /\ num' = IF g.num = Refused THEN num ELSE [num EXCEPT ![c] = g.num]
      BY <1>10, <2>3 DEF PackOrder
    <3>2. seqRow' \in Nat /\ num' \in [Services -> Nat \cup {Refused, NoNumber}]
      BY <3>1, GetResetSequenceType DEF TypeOK
    <3>3. \A d \in Services : IsPacking(d) => num'[d] # Refused
      BY <3>1 DEF TypeOK
    <3>4. QED
      BY <1>10, <2>1, <3>2, <3>3 DEF PackOrder, TypeOK
  <2>4. QED
    BY <2>2, <2>3
<1>11. ASSUME NEW c \in Services, WriteOrder(c) PROVE TypeOK'
  <2>1. CASE ProcessEnds
    BY <2>1, ProcessEndsType
  <2>2. CASE ~ProcessEnds
    <3>1. /\ num[c] # NoNumber
          /\ queue' = Append(queue, Message(c))
          /\ orders' = orders + 1
          /\ Goto(c, "can_write")
          /\ UNCHANGED <<qOpen, seqRow, senderUp, num, calls, ends, stolen, strays, left>>
      BY <1>11, <2>2, Zenon DEF WriteOrder
    <3>2. pc' \in [Services -> Labels]
      BY <3>1, GotoType
    <3>3. queue' \in Seq(Messages)
      <4>1. Message(c) \in Messages
        BY <3>1, MessageType
      <4>2. QED
        BY <3>1, <4>1 DEF TypeOK
    <3>4. QED
      BY <3>1, <3>2, <3>3 DEF TypeOK
  <2>3. QED
    BY <2>1, <2>2
<1>12. ASSUME NEW c \in Services, WriteRequest(c) PROVE TypeOK'
  <2>1. pc' \in [Services -> Labels]
    BY <1>12, GotoType DEF WriteRequest
  <2>2. num[c] # NoNumber
    BY <1>12 DEF WriteRequest, Places
  <2>3. queue' \in Seq(Messages)
    BY <1>12, <2>2, MessageType DEF WriteRequest, TypeOK
  <2>4. QED
    BY <1>12, <2>1, <2>3 DEF WriteRequest, TypeOK
<1>13. ASSUME NEW c \in Services, ReadBack(c) PROVE TypeOK'
  <2>1. pc' \in [Services -> Labels]
    BY <1>13, GotoType DEF ReadBack, ReadHead, ReadInterrupted
  <2>2. CASE ReadHead(c)
    <3>1. queue' \in Seq(Messages)
      BY <2>2 DEF ReadHead, TypeOK
    <3>2. stolen' \in Nat
      BY <2>2 DEF ReadHead, TypeOK
    <3>3. QED
      BY <2>1, <2>2, <3>1, <3>2 DEF ReadHead, TypeOK
  <2>3. CASE ReadInterrupted(c)
    BY <2>1, <2>3 DEF ReadInterrupted, TypeOK
  <2>4. QED
    BY <1>13, <2>2, <2>3 DEF ReadBack
<1>14. CASE SendThrd
  <2>1. queue' \in Seq(Messages)
    BY <1>14 DEF SendThrd, TypeOK
  <2>2. QED
    BY <1>14, <2>1 DEF SendThrd, TypeOK
<1>15. CASE ProcessEnds
  BY <1>15, ProcessEndsType
<1>16. CASE Restart
  <2>1. pc' \in [Services -> Labels]
    BY <1>16 DEF Restart, Started
  <2>2. QED
    BY <1>16, <2>1 DEF Restart, TypeOK
<1>17. CASE UNCHANGED vars
  BY <1>17 DEF vars, TypeOK
<1>18. QED
  BY <1>1, <1>2, <1>3, <1>4, <1>5, <1>6, <1>7, <1>8, <1>9, <1>10, <1>11, <1>12, <1>13,
     <1>14, <1>15, <1>16, <1>17 DEF Next

(* Initially every service is at its start.                                 *)
LEMMA PlacesInit == Init => Places
BY DEF Init, Started, Places

(* No step takes a service to a place that is not its own.                  *)
LEMMA PlacesNext == TypeOK /\ Places /\ [Next]_vars => Places'
<1> SUFFICES ASSUME TypeOK, Places, [Next]_vars, NEW d \in Services
             PROVE  Places!(d)'
  BY DEF Places
<1> USE DEF Places, TypeOK, Goto
<1>1. ASSUME NEW c \in Services,
             \/ Call(c) \/ EsrStatus(c) \/ PasswordAge(c) \/ LoginRow(c)
             \/ Masters(c) \/ LogOffRows(c)
      PROVE  Places!(d)'
  BY <1>1 DEF Call, EsrStatus, PasswordAge, LoginRow, Masters, LogOffRows, Check
<1>2. ASSUME NEW c \in Services, TakeNumber(c) PROVE Places!(d)'
  <2>1. PICK g \in GetResetSequence : seqRow' = g.row /\ num' = [num EXCEPT ![c] = g.num]
    BY <1>2 DEF TakeNumber
  <2>2. g.num # NoNumber
    BY <2>1, GetResetSequenceType DEF NoNumber, Refused
  <2>3. QED
    BY <1>2, <2>1, <2>2 DEF TakeNumber
<1>3. ASSUME NEW c \in Services, CreateQueue(c) \/ FnCanWriteToQueue(c) PROVE Places!(d)'
  BY <1>3 DEF CreateQueue, FnCanWriteToQueue, IsPacking
<1>4. ASSUME NEW c \in Services, PackOrder(c) PROVE Places!(d)'
  <2>1. num'[d] = num[d] \/ d = c
    BY <1>4 DEF PackOrder
  <2>2. QED
    BY <1>4, <2>1 DEF PackOrder
<1>5. CASE ProcessEnds
  BY <1>5 DEF ProcessEnds
<1>6. ASSUME NEW c \in Services, WriteOrder(c) \/ WriteRequest(c) PROVE Places!(d)'
  BY <1>5, <1>6 DEF WriteOrder, WriteRequest
<1>7. ASSUME NEW c \in Services, ReadBack(c) PROVE Places!(d)'
  BY <1>7 DEF ReadBack, ReadHead, ReadInterrupted
<1>8. CASE SendThrd
  BY <1>8 DEF SendThrd
<1>9. CASE Restart
  BY <1>9 DEF Restart, Started
<1>10. CASE UNCHANGED vars
  BY <1>10 DEF vars
<1>11. QED
  BY <1>1, <1>2, <1>3, <1>4, <1>5, <1>6, <1>7, <1>8, <1>9, <1>10 DEF Next

(* Every variable of the services has its type in every reachable state.    *)
THEOREM TypeCorrect == Spec => []TypeOK
<1>1. QED
  BY TypeInit, TypeNext, PlacesInit, PlacesNext, PTL DEF Spec

(***************************************************************************)
(* The room seen by several services at once.                               *)
(***************************************************************************)

(* The services between their test of the queue and their write.            *)
RoomSeen == {c \in Services : pc[c] \in {"pack", "write"}}

(* Each of them may still add a message; the last one to pass the test found*)
(* a place, and it is one of all the services.                              *)
RoomInv ==
  Len(queue) + Cardinality(RoomSeen) <= QLimit + Cardinality(Services) - 1

(* RoomSeen is finite, and no larger than the set of all services.          *)
LEMMA RoomSeenIsFinite ==
  /\ Cardinality(Services) \in Nat /\ Cardinality(Services) # 0
  /\ IsFiniteSet(RoomSeen)
  /\ Cardinality(RoomSeen) \in Nat
  /\ Cardinality(RoomSeen) <= Cardinality(Services)
<1>1. RoomSeen \in SUBSET Services
  BY DEF RoomSeen
<1>2. IsFiniteSet(Services) /\ Services # {}
  BY ConstantsAssumption DEF ConstantsAssumption
<1>3. Cardinality(Services) \in Nat /\ Cardinality(Services) # 0
  BY <1>2, FS_CardinalityType, FS_EmptySet
<1>4. IsFiniteSet(RoomSeen) /\ Cardinality(RoomSeen) <= Cardinality(Services)
  BY <1>1, <1>2, FS_Subset
<1>5. QED
  BY <1>3, <1>4, FS_CardinalityType

(* The same in the next state.                                              *)
LEMMA RoomSeenIsFiniteNext ==
  /\ IsFiniteSet(RoomSeen')
  /\ Cardinality(RoomSeen') \in Nat
  /\ Cardinality(RoomSeen') <= Cardinality(Services)
<1>1. RoomSeen' \in SUBSET Services
  BY DEF RoomSeen
<1>2. IsFiniteSet(Services)
  BY ConstantsAssumption DEF ConstantsAssumption
<1>3. IsFiniteSet(RoomSeen') /\ Cardinality(RoomSeen') <= Cardinality(Services)
  BY <1>1, <1>2, FS_Subset
<1>4. QED
  BY <1>3, FS_CardinalityType

(* Of the steps of the services only the test takes one more of them to the *)
(* write, and only a write adds a message.                                  *)
LEMMA RoomUse ==
  ASSUME TypeOK, Places, [Next]_vars
  PROVE  \/ RoomSeen' \subseteq RoomSeen /\ Len(queue') <= Len(queue)
         \/ Len(queue) < QLimit /\ UNCHANGED queue
         \/ \E c \in RoomSeen : /\ RoomSeen' = RoomSeen \ {c}
                               /\ Len(queue') = Len(queue) + 1
<1> USE DEF TypeOK, Goto, RoomSeen
<1>0. queue # <<>> => Len(Tail(queue)) = Len(queue) - 1
  OBVIOUS
<1>1. ASSUME NEW c \in Services,
             \/ Call(c) \/ EsrStatus(c) \/ PasswordAge(c) \/ LoginRow(c)
             \/ Masters(c) \/ LogOffRows(c) \/ TakeNumber(c)
             \/ CreateQueue(c) \/ PackOrder(c)
      PROVE  RoomSeen' \subseteq RoomSeen /\ UNCHANGED queue
  BY <1>1 DEF Call, EsrStatus, PasswordAge, LoginRow, Masters, LogOffRows, Check, TakeNumber,
              CreateQueue, PackOrder
<1>2. ASSUME NEW c \in Services, FnCanWriteToQueue(c)
      PROVE  Len(queue) < QLimit /\ UNCHANGED queue
  BY <1>2 DEF FnCanWriteToQueue
<1>3. CASE ProcessEnds
  BY <1>3 DEF ProcessEnds
<1>4. ASSUME NEW c \in Services, WriteOrder(c) \/ WriteRequest(c), ~ProcessEnds, ~UNCHANGED queue
      PROVE  c \in RoomSeen /\ RoomSeen' = RoomSeen \ {c} /\ Len(queue') = Len(queue) + 1
  <2>1. /\ pc[c] = "write"
        /\ queue' = Append(queue, Message(c))
        /\ pc' = [pc EXCEPT ![c] = "can_write"] \/ pc' = [pc EXCEPT ![c] = "read_back"]
    BY <1>4, Zenon DEF WriteOrder, WriteRequest
  <2>2. Len(queue') = Len(queue) + 1
    BY <2>1
  <2>3. QED
    BY <2>1, <2>2
<1>5. ASSUME NEW c \in Services, WriteRequest(c), UNCHANGED queue
      PROVE  RoomSeen' \subseteq RoomSeen
  BY <1>5 DEF WriteRequest
<1>6. ASSUME NEW c \in Services, ReadBack(c)
      PROVE  RoomSeen' \subseteq RoomSeen /\ Len(queue') <= Len(queue)
  <2>1. RoomSeen' \subseteq RoomSeen
    BY <1>6 DEF ReadBack, ReadHead, ReadInterrupted
  <2>2. UNCHANGED queue \/ (queue # <<>> /\ queue' = Tail(queue))
    BY <1>6 DEF ReadBack, ReadHead, ReadInterrupted
  <2>3. QED
    BY <1>0, <2>1, <2>2
<1>7. CASE SendThrd
  <2>1. queue # <<>> /\ queue' = Tail(queue) /\ UNCHANGED pc
    BY <1>7 DEF SendThrd
  <2>2. QED
    BY <1>0, <2>1
<1>8. CASE Restart
  BY <1>8 DEF Restart, Started
<1>9. CASE UNCHANGED vars
  BY <1>9 DEF vars
<1>10. QED
  BY <1>1, <1>2, <1>3, <1>4, <1>5, <1>6, <1>7, <1>8, <1>9 DEF Next, WriteOrder

(* Every step keeps RoomInv.                                                *)
LEMMA RoomStep ==
  ASSUME TypeOK, Places, RoomInv, [Next]_vars
  PROVE  RoomInv'
<1> DEFINE n == Cardinality(Services)
           s == Cardinality(RoomSeen)
           t == Cardinality(RoomSeen')
<1>0. /\ n \in Nat /\ s \in Nat /\ t \in Nat
      /\ t <= n
      /\ Len(queue) \in Nat
      /\ QLimit \in Nat
  BY RoomSeenIsFinite, RoomSeenIsFiniteNext, ConstantsAssumption DEF ConstantsAssumption, TypeOK
<1>1. Len(queue') \in Nat
  BY TypeNext DEF TypeOK
<1>2. CASE RoomSeen' \subseteq RoomSeen /\ Len(queue') <= Len(queue)
  <2>1. t <= s
    BY <1>2, RoomSeenIsFinite, FS_Subset
  <2>2. QED
    BY <1>0, <1>1, <1>2, <2>1 DEF RoomInv
<1>3. CASE Len(queue) < QLimit /\ UNCHANGED queue
  BY <1>0, <1>3 DEF RoomInv
<1>4. ASSUME NEW c \in RoomSeen,
             RoomSeen' = RoomSeen \ {c}, Len(queue') = Len(queue) + 1
      PROVE  RoomInv'
  <2>1. t = s - 1
    BY <1>4, RoomSeenIsFinite, FS_RemoveElement
  <2>2. QED
    BY <1>0, <1>4, <2>1 DEF RoomInv
<1>5. QED
  BY <1>2, <1>3, <1>4, RoomUse

(* With n services the queue exceeds the limit of FnCanWriteToQueue by at   *)
(* most n - 1 messages.                                                     *)
THEOREM QueueOverrunIsBounded == Spec => []QueueOverrun
<1>1. Init => RoomInv
  <2> SUFFICES ASSUME Init PROVE RoomInv
    OBVIOUS
  <2>1. RoomSeen = {} /\ Len(queue) = 0
    BY DEF Init, Started, RoomSeen
  <2>2. QED
    BY <2>1, RoomSeenIsFinite, FS_EmptySet, ConstantsAssumption DEF ConstantsAssumption, RoomInv
<1>2. TypeOK /\ Places /\ RoomInv /\ [Next]_vars => RoomInv'
  BY RoomStep
<1>3. TypeOK /\ RoomInv => QueueOverrun
  BY RoomSeenIsFinite, ConstantsAssumption DEF ConstantsAssumption, RoomInv, QueueOverrun, TypeOK
<1>4. QED
  BY <1>1, <1>2, <1>3, TypeInit, TypeNext, PlacesInit, PlacesNext, PTL DEF Spec

(***************************************************************************)
(* Sequence numbers.                                                        *)
(***************************************************************************)

(* No number is ahead of the row, a message says who wrote it, and no two   *)
(* services hold the same number for a message still to be written.         *)
KnownNumbers ==
  /\ \A i \in 1 .. Len(queue) : queue[i].num <= seqRow
  /\ \A c \in Services : num[c] <= seqRow

Origins == \A i \in 1 .. Len(queue) : queue[i].kind = Kind[queue[i].by]

HeldApart ==
  \A c, d \in Services :
    c # d /\ Holding(c) /\ Holding(d) /\ num[c] = num[d] => num[c] \in {Refused, NoNumber}

NumbersInv == KnownNumbers /\ Origins /\ HeldApart /\ NumbersIdentify

(* The six kinds of steps the numbers can tell apart.                       *)
NoneHolds(S) == \A d \in Services \ S : Holding(d)' => Holding(d)

Quiet ==
  UNCHANGED <<queue, num>> /\ seqRow' \in {seqRow, seqRow + 1} /\ NoneHolds({})

GetsNumber(c) ==
  /\ UNCHANGED queue /\ NoneHolds({c})
  /\ seqRow' = seqRow + 1
  /\ num' = [num EXCEPT ![c] = seqRow + 1]

IsRefused(c) ==
  /\ UNCHANGED queue /\ NoneHolds({c})
  /\ seqRow' \in {seqRow, seqRow + 1}
  /\ num' = [num EXCEPT ![c] = Refused]

Reads ==
  queue # <<>> /\ queue' = Tail(queue) /\ UNCHANGED <<num, seqRow>> /\ NoneHolds({})

Writes(c) ==
  /\ Holding(c) /\ num[c] # NoNumber
  /\ queue' = Append(queue, Message(c)) /\ UNCHANGED <<num, seqRow>>
  /\ NoneHolds({})
  /\ ~IsPacking(c) => ~Holding(c)'

Forgets ==
  UNCHANGED <<queue, seqRow>> /\ num' = [c \in Services |-> NoNumber]

(* Every step is one of them.                                               *)
LEMMA NumberSteps ==
  ASSUME TypeOK, Places, [Next]_vars
  PROVE  \/ Quiet \/ Reads \/ Forgets
         \/ \E c \in Services : GetsNumber(c) \/ IsRefused(c) \/ Writes(c)
<1> USE DEF TypeOK, Goto, hist, NoneHolds, Holding
<1>1. ASSUME NEW c \in Services,
             \/ Call(c) \/ EsrStatus(c) \/ PasswordAge(c) \/ LoginRow(c)
             \/ Masters(c) \/ LogOffRows(c) \/ CreateQueue(c) \/ FnCanWriteToQueue(c)
      PROVE  Quiet
  BY <1>1 DEF Call, EsrStatus, PasswordAge, LoginRow, Masters, LogOffRows, Check,
              CreateQueue, FnCanWriteToQueue, Quiet
<1>2. ASSUME NEW c \in Services, TakeNumber(c) PROVE GetsNumber(c) \/ IsRefused(c)
  <2>1. PICK g \in GetResetSequence : seqRow' = g.row /\ num' = [num EXCEPT ![c] = g.num]
    BY <1>2 DEF TakeNumber
  <2>2. NoneHolds({c}) /\ UNCHANGED queue
    BY <1>2 DEF TakeNumber
  <2>3. QED
    BY <2>1, <2>2, GetResetSequenceType DEF GetsNumber, IsRefused
<1>3. ASSUME NEW c \in Services, PackOrder(c) PROVE Quiet \/ GetsNumber(c)
  <2>1. NoneHolds({}) /\ UNCHANGED queue
    BY <1>3 DEF PackOrder, Places
  <2>2. CASE UNCHANGED <<seqRow, num>>
    BY <2>1, <2>2 DEF Quiet
  <2>3. CASE ~UNCHANGED <<seqRow, num>>
    <3>1. PICK g \in GetResetSequence :
             /\ seqRow' = g.row
             /\ num' = IF g.num = Refused THEN num ELSE [num EXCEPT ![c] = g.num]
      BY <1>3, <2>3 DEF PackOrder
    <3>2. QED
      BY <2>1, <3>1, GetResetSequenceType DEF Quiet, GetsNumber
  <2>4. QED
    BY <2>2, <2>3
<1>4. CASE ProcessEnds
  BY <1>4 DEF ProcessEnds, Forgets
<1>5. ASSUME NEW c \in Services, WriteOrder(c), ~ProcessEnds PROVE Writes(c)
  <2>1. /\ pc[c] = "write" /\ IsPacking(c) /\ num[c] # NoNumber
        /\ queue' = Append(queue, Message(c))
        /\ pc' = [pc EXCEPT ![c] = "can_write"]
        /\ UNCHANGED <<num, seqRow>>
    BY <1>5, Zenon DEF WriteOrder
  <2>2. QED
    BY <2>1 DEF Writes
<1>6. ASSUME NEW c \in Services, WriteRequest(c) PROVE Quiet \/ Writes(c)
  <2>1. pc[c] = "write" /\ ~IsPacking(c) /\ num[c] # NoNumber /\ UNCHANGED <<num, seqRow>>
    BY <1>6 DEF WriteRequest, Places
  <2>2. pc' = [pc EXCEPT ![c] = "read_back"] \/ pc' = [pc EXCEPT ![c] = "idle"]
    BY <1>6, Zenon DEF WriteRequest
  <2>3. UNCHANGED queue \/ queue' = Append(queue, Message(c))
    BY <1>6, Zenon DEF WriteRequest
  <2>4. NoneHolds({}) /\ ~Holding(c)' /\ Holding(c)
    BY <2>1, <2>2
  <2>5. QED
    BY <2>1, <2>3, <2>4 DEF Quiet, Writes
<1>7. ASSUME NEW c \in Services, ReadBack(c) PROVE Quiet \/ Reads
  BY <1>7 DEF ReadBack, ReadHead, ReadInterrupted, Quiet, Reads
<1>8. CASE SendThrd
  BY <1>8 DEF SendThrd, Reads
<1>9. CASE Restart
  BY <1>9 DEF Restart, Started, Quiet
<1>10. CASE UNCHANGED vars
  BY <1>10 DEF vars, Quiet
<1>11. QED
  BY <1>1, <1>2, <1>3, <1>4, <1>5, <1>6, <1>7, <1>8, <1>9, <1>10 DEF Next

(* Initially there are no messages, and the numbers are all NoNumber.       *)
LEMMA NumbersInit == Init => NumbersInv
BY DEF Init, NumbersInv, KnownNumbers, Origins, HeldApart, NumbersIdentify, NoNumber

(* Numbers behind the row stay behind it.                                   *)
LEMMA RowGrows ==
  ASSUME TypeOK, KnownNumbers, UNCHANGED queue, seqRow' \in {seqRow, seqRow + 1},
         \A c \in Services : num'[c] \in {num[c], Refused, NoNumber, seqRow'}
  PROVE  KnownNumbers'
<1>1. seqRow \in Nat /\ seqRow' \in Nat /\ seqRow <= seqRow'
  BY DEF TypeOK
<1>2. ASSUME NEW i \in 1 .. Len(queue) PROVE queue[i].num <= seqRow'
  <2>1. queue[i] \in Messages
    BY DEF TypeOK
  <2>2. queue[i].num \in Int /\ queue[i].num <= seqRow
    BY <2>1 DEF Messages, Refused, KnownNumbers
  <2>3. QED
    BY <1>1, <2>2
<1>3. ASSUME NEW c \in Services PROVE num'[c] <= seqRow'
  <2>1. num[c] \in Int /\ num[c] <= seqRow
    BY DEF TypeOK, Refused, NoNumber, KnownNumbers
  <2>2. Refused <= seqRow' /\ NoNumber <= seqRow' /\ seqRow' <= seqRow'
    BY <1>1 DEF Refused, NoNumber
  <2>3. num[c] <= seqRow'
    BY <1>1, <2>1
  <2>4. QED
    BY <2>2, <2>3
<1>4. QED
  BY <1>2, <1>3 DEF KnownNumbers

(* A step that leaves the queue and the numbers alone keeps NumbersInv.     *)
LEMMA QuietKeeps == ASSUME TypeOK, NumbersInv, Quiet PROVE NumbersInv'
<1> USE DEF TypeOK, Messages, Refused, NoNumber, Quiet
<1>1. \A d \in Services : Holding(d)' => Holding(d)
  BY DEF NoneHolds
<1>2. KnownNumbers'
  BY RowGrows DEF NumbersInv
<1>3. Origins' /\ HeldApart'
  BY <1>1 DEF NumbersInv, Origins, HeldApart
<1>4. NumbersIdentify'
  BY <1>1 DEF NumbersInv, NumbersIdentify
<1>5. QED
  BY <1>2, <1>3, <1>4 DEF NumbersInv

(* A read shifts the messages that stay by one place.                       *)
LEMMA ReadsKeeps == ASSUME TypeOK, NumbersInv, Reads PROVE NumbersInv'
<1>1. \A i \in 1 .. Len(queue') : i + 1 \in 1 .. Len(queue) /\ queue'[i] = queue[i + 1]
  BY DEF Reads, TypeOK
<1>2. UNCHANGED <<num, seqRow>> /\ \A d \in Services : Holding(d)' => Holding(d)
  BY DEF Reads, NoneHolds
<1>3. KnownNumbers'
  BY <1>1, <1>2 DEF NumbersInv, KnownNumbers
<1>4. Origins'
  BY <1>1 DEF NumbersInv, Origins
<1>5. HeldApart'
  BY <1>2 DEF NumbersInv, HeldApart
<1>6. NumbersIdentify'
  <2>1. \A i, j \in 1 .. Len(queue') : i # j => i + 1 # j + 1
    OBVIOUS
  <2>2. QED
    BY <1>1, <1>2, <2>1 DEF NumbersInv, NumbersIdentify
<1>7. QED
  BY <1>3, <1>4, <1>5, <1>6 DEF NumbersInv

(* The end of the process leaves no number that a message has.              *)
LEMMA ForgetsKeeps == ASSUME TypeOK, NumbersInv, Forgets PROVE NumbersInv'
<1> USE DEF Forgets
<1>1. \A i \in 1 .. Len(queue) : queue[i].num # NoNumber
  <2>1. \A i \in 1 .. Len(queue) : queue[i] \in Messages
    BY DEF TypeOK
  <2>2. QED
    BY <2>1 DEF Messages, Refused, NoNumber
<1>2. KnownNumbers'
  <2>1. seqRow' \in {seqRow, seqRow + 1} /\ UNCHANGED queue
    OBVIOUS
  <2>2. \A c \in Services : num'[c] \in {num[c], Refused, NoNumber, seqRow'}
    OBVIOUS
  <2>3. QED
    BY <2>1, <2>2, RowGrows DEF NumbersInv
<1>3. Origins' /\ HeldApart'
  BY DEF NumbersInv, Origins, HeldApart
<1>4. NumbersIdentify'
  BY <1>1 DEF NumbersInv, NumbersIdentify
<1>5. QED
  BY <1>2, <1>3, <1>4 DEF NumbersInv

(* A number taken from the row is ahead of every other.                     *)
LEMMA GetsNumberKeeps ==
  ASSUME TypeOK, NumbersInv, NEW c \in Services, GetsNumber(c)
  PROVE  NumbersInv'
<1> DEFINE n == seqRow + 1
<1>1. /\ UNCHANGED queue /\ seqRow' = n /\ n \in Nat
      /\ num'[c] = n
      /\ \A d \in Services \ {c} : num'[d] = num[d] /\ (Holding(d)' => Holding(d))
  BY DEF GetsNumber, NoneHolds, TypeOK
<1>2. /\ \A i \in 1 .. Len(queue) : queue[i].num # n
      /\ \A d \in Services : num[d] # n
  <2>1. \A x \in Int : x <= seqRow => x # n
    BY DEF TypeOK
  <2>2. \A i \in 1 .. Len(queue) : queue[i].num \in Int
    <3>1. \A i \in 1 .. Len(queue) : queue[i] \in Messages
      BY DEF TypeOK
    <3>2. QED
      BY <3>1 DEF Messages, Refused
  <2>3. \A d \in Services : num[d] \in Int
    BY DEF TypeOK, Refused, NoNumber
  <2>4. QED
    BY <2>1, <2>2, <2>3 DEF NumbersInv, KnownNumbers
<1>3. KnownNumbers'
  BY <1>1, RowGrows DEF NumbersInv
<1>4. Origins'
  BY <1>1 DEF NumbersInv, Origins
<1>5. HeldApart'
  BY <1>1, <1>2 DEF NumbersInv, HeldApart
<1>6. NumbersIdentify'
  BY <1>1, <1>2 DEF NumbersInv, NumbersIdentify
<1>7. QED
  BY <1>3, <1>4, <1>5, <1>6 DEF NumbersInv

(* A failed GetResetSequence gives the one value that identifies nothing.   *)
LEMMA IsRefusedKeeps ==
  ASSUME TypeOK, NumbersInv, NEW c \in Services, IsRefused(c)
  PROVE  NumbersInv'
<1>1. /\ UNCHANGED queue /\ seqRow' \in {seqRow, seqRow + 1} /\ seqRow \in Nat
      /\ num'[c] = Refused
      /\ \A d \in Services \ {c} : num'[d] = num[d] /\ (Holding(d)' => Holding(d))
  BY DEF IsRefused, NoneHolds, TypeOK
<1>2. KnownNumbers'
  BY <1>1, RowGrows DEF NumbersInv
<1>3. Origins'
  BY <1>1 DEF NumbersInv, Origins
<1>4. HeldApart'
  BY <1>1 DEF NumbersInv, HeldApart
<1>5. NumbersIdentify'
  BY <1>1 DEF NumbersInv, NumbersIdentify
<1>6. QED
  BY <1>2, <1>3, <1>4, <1>5 DEF NumbersInv

(* A message written has a number that only copies of the same packet have. *)
LEMMA WritesKeeps ==
  ASSUME TypeOK, NumbersInv, NEW c \in Services, Writes(c)
  PROVE  NumbersInv'
<1> DEFINE m == Message(c)
           k == Len(queue) + 1
<1>1. /\ m.num = num[c] /\ m.by = c /\ m.kind = Kind[c]
      /\ num[c] # NoNumber
      /\ IsPacking(c) => num[c] # Refused /\ m.kind = "order"
      /\ m.kind = "order" => IsPacking(c)
  BY DEF Message, Writes, TypeOK, IsPacking
<1>2. /\ Len(queue') = k /\ queue'[k] = m
      /\ \A i \in 1 .. Len(queue') : i = k \/ (i \in 1 .. Len(queue) /\ queue'[i] = queue[i])
  BY MessageType DEF Writes, TypeOK
<1>3. /\ UNCHANGED <<num, seqRow>>
      /\ \A d \in Services : Holding(d)' => Holding(d)
      /\ Holding(c)
      /\ Holding(c)' => IsPacking(c)
  BY DEF Writes, NoneHolds
<1>4. KnownNumbers'
  BY <1>1, <1>2, <1>3 DEF NumbersInv, KnownNumbers
<1>5. Origins'
  BY <1>1, <1>2 DEF NumbersInv, Origins
<1>6. HeldApart'
  BY <1>3 DEF NumbersInv, HeldApart
<1>7. NumbersIdentify'
  <2>1. \A i \in 1 .. Len(queue) :
           queue[i].num = m.num /\ m.num # Refused
             => queue[i].by = c /\ IsPacking(c) /\ queue[i].kind = "order"
    BY <1>1, <1>3 DEF NumbersInv, NumbersIdentify, Origins, IsPacking
  <2>2. \A d \in Services :
           Holding(d)' /\ num[d] = m.num /\ num[d] # Refused => d = c /\ IsPacking(d)
    BY <1>1, <1>3 DEF NumbersInv, HeldApart
  <2>3. ASSUME NEW i \in 1 .. Len(queue'), NEW j \in 1 .. Len(queue'),
               queue'[i].num = queue'[j].num, i # j, queue'[i].num # Refused
        PROVE  queue'[i].by = queue'[j].by /\ queue'[i].kind = "order"
    BY <1>1, <1>2, <2>1, <2>3 DEF NumbersInv, NumbersIdentify
  <2>4. ASSUME NEW i \in 1 .. Len(queue'), NEW d \in Services,
               Holding(d)', num'[d] = queue'[i].num, num'[d] # Refused
        PROVE  queue'[i].by = d /\ IsPacking(d)
    BY <1>1, <1>2, <1>3, <2>2, <2>4 DEF NumbersInv, NumbersIdentify
  <2>5. ASSUME NEW i \in 1 .. Len(queue'), queue'[i].kind = "order"
        PROVE  queue'[i].num # Refused
    BY <1>1, <1>2, <2>5 DEF NumbersInv, NumbersIdentify
  <2>6. QED
    BY <2>3, <2>4, <2>5 DEF NumbersIdentify
<1>8. QED
  BY <1>4, <1>5, <1>6, <1>7 DEF NumbersInv

(* However the services interleave, and whichever statements fail, a        *)
(* sequence number names one message.                                       *)
THEOREM NumbersAreUnique == Spec => []NumbersIdentify
<1>1. TypeOK /\ Places /\ NumbersInv /\ [Next]_vars => NumbersInv'
  <2> SUFFICES ASSUME TypeOK, Places, NumbersInv, [Next]_vars PROVE NumbersInv'
    OBVIOUS
  <2>1. QED
    BY NumberSteps, QuietKeeps, ReadsKeeps, ForgetsKeeps, GetsNumberKeeps, IsRefusedKeeps,
       WritesKeeps
<1>2. NumbersInv => NumbersIdentify
  BY DEF NumbersInv
<1>3. QED
  BY <1>1, <1>2, NumbersInit, TypeInit, TypeNext, PlacesInit, PlacesNext, PTL DEF Spec

(***************************************************************************)
(* The orders the test reads take.                                          *)
(***************************************************************************)

(* The places of a queue q that hold requests.                              *)
RequestsIn(q) == {i \in 1 .. Len(q) : q[i].kind # "order"}

One(b) == IF b THEN 1 ELSE 0

(* They are finitely many.                                                  *)
LEMMA RequestsAreFinite ==
  ASSUME NEW q \in Seq(Messages)
  PROVE  IsFiniteSet(RequestsIn(q)) /\ Cardinality(RequestsIn(q)) \in Nat
<1>1. RequestsIn(q) \in SUBSET (1 .. Len(q))
  BY DEF RequestsIn
<1>2. IsFiniteSet(1 .. Len(q))
  BY FS_Interval
<1>3. QED
  BY <1>1, <1>2, FS_Subset, FS_CardinalityType

(* A message appended is one request more, or an order.                     *)
LEMMA RequestsAppend ==
  ASSUME NEW q \in Seq(Messages), NEW m \in Messages
  PROVE  Cardinality(RequestsIn(Append(q, m)))
           = Cardinality(RequestsIn(q)) + One(m.kind # "order")
<1> DEFINE k == Len(q) + 1
<1>1. k \notin RequestsIn(q)
  BY DEF RequestsIn
<1>2. CASE m.kind = "order"
  <2>1. RequestsIn(Append(q, m)) = RequestsIn(q)
    BY <1>2 DEF RequestsIn
  <2>2. QED
    BY <1>2, <2>1, RequestsAreFinite DEF One
<1>3. CASE m.kind # "order"
  <2>1. RequestsIn(Append(q, m)) = RequestsIn(q) \cup {k}
    BY <1>3 DEF RequestsIn
  <2>2. QED
    BY <1>1, <1>3, <2>1, RequestsAreFinite, FS_AddElement DEF One
<1>4. QED
  BY <1>2, <1>3

(* A message taken from the head is one request less, or an order.          *)
LEMMA RequestsTail ==
  ASSUME NEW q \in Seq(Messages), q # <<>>
  PROVE  Cardinality(RequestsIn(q))
           = Cardinality(RequestsIn(Tail(q))) + One(Head(q).kind # "order")
<1> DEFINE T == RequestsIn(Tail(q))
           R == RequestsIn(q) \ {1}
           f == [i \in T |-> i + 1]
<1>1. /\ Tail(q) \in Seq(Messages)
      /\ Len(q) \in Nat /\ Len(q) >= 1
      /\ Len(Tail(q)) = Len(q) - 1
      /\ \A i \in 1 .. Len(q) - 1 : Tail(q)[i] = q[i + 1]
      /\ Head(q) = q[1]
  OBVIOUS
<1>2. IsFiniteSet(T) /\ Cardinality(T) \in Nat
  BY <1>1, RequestsAreFinite
<1>3. f \in Bijection(T, R)
  <2>1. \A i \in T : i \in Int /\ i + 1 \in R
    BY <1>1 DEF RequestsIn
  <2>2. \A j \in R : j \in Int /\ j - 1 \in T
    BY <1>1 DEF RequestsIn
  <2>3. f \in [T -> R] /\ \A i \in T : f[i] = i + 1
    BY <2>1
  <2>4. \A i, j \in T : f[i] = f[j] => i = j
    BY <2>1, <2>3
  <2>5. \A j \in R : \E i \in T : f[i] = j
    <3> TAKE j \in R
    <3>1. j - 1 \in T /\ f[j - 1] = (j - 1) + 1 /\ j \in Int
      BY <2>2, <2>3
    <3>2. (j - 1) + 1 = j
      BY <3>1
    <3>3. QED
      BY <3>1, <3>2
  <2>6. QED
    BY <2>3, <2>4, <2>5 DEF Bijection, Injection, IsInjective, Surjection
<1>4. Cardinality(R) = Cardinality(T)
  BY <1>2, <1>3, FS_Bijection DEF ExistsBijection
<1>5. 1 \in RequestsIn(q) <=> Head(q).kind # "order"
  BY <1>1 DEF RequestsIn
<1>6. /\ IsFiniteSet(RequestsIn(q)) /\ Cardinality(RequestsIn(q)) \in Nat
      /\ Cardinality(R) = IF 1 \in RequestsIn(q)
                          THEN Cardinality(RequestsIn(q)) - 1 ELSE Cardinality(RequestsIn(q))
  BY RequestsAreFinite, FS_RemoveElement
<1>7. QED
  BY <1>2, <1>4, <1>5, <1>6 DEF One

(* The test reads under way are finitely many, before and after a step.     *)
LEMMA ReadersNext ==
  /\ IsFiniteSet(InReadBack) /\ Cardinality(InReadBack) \in Nat
  /\ IsFiniteSet(InReadBack') /\ Cardinality(InReadBack') \in Nat
<1>1. InReadBack \in SUBSET Services /\ InReadBack' \in SUBSET Services
  BY DEF InReadBack
<1>2. IsFiniteSet(Services)
  BY ConstantsAssumption DEF ConstantsAssumption
<1>3. QED
  BY <1>1, <1>2, FS_Subset, FS_CardinalityType

(* What a step does to the four counts of the balance.                      *)
Even ==
  /\ UNCHANGED <<queue, strays, stolen>>
  /\ left' = left + (Cardinality(InReadBack) - Cardinality(InReadBack'))

OrderWritten(m) ==
  /\ m \in Messages /\ m.kind = "order" /\ queue' = Append(queue, m)
  /\ UNCHANGED <<strays, stolen, left, InReadBack>>

RequestWritten(m) ==
  /\ m \in Messages /\ m.kind # "order" /\ queue' = Append(queue, m)
  /\ UNCHANGED <<strays, stolen, left>>
  /\ Cardinality(InReadBack') = Cardinality(InReadBack) + 1

ReadByTest ==
  /\ queue # <<>> /\ queue' = Tail(queue)
  /\ stolen' = stolen + One(Head(queue).kind = "order")
  /\ UNCHANGED <<strays, left>>
  /\ Cardinality(InReadBack') = Cardinality(InReadBack) - 1

ReadBySender ==
  /\ queue # <<>> /\ queue' = Tail(queue)
  /\ strays' = strays + One(Head(queue).kind # "order")
  /\ UNCHANGED <<stolen, left, InReadBack>>

(* Every step does one of these five things.                                *)
LEMMA BalanceSteps ==
  ASSUME TypeOK, Places, [Next]_vars
  PROVE  \/ Even \/ ReadByTest \/ ReadBySender
         \/ \E m \in Messages : OrderWritten(m) \/ RequestWritten(m)
<1> USE DEF TypeOK, Goto, hist
<1>0. ASSUME UNCHANGED <<queue, strays, stolen, left>>, InReadBack' = InReadBack
      PROVE  Even
  <2>1. left' = left + (Cardinality(InReadBack) - Cardinality(InReadBack'))
    BY <1>0, ReadersNext
  <2>2. QED
    BY <1>0, <2>1 DEF Even
<1>1. ASSUME NEW c \in Services,
             \/ Call(c) \/ EsrStatus(c) \/ PasswordAge(c) \/ LoginRow(c)
             \/ Masters(c) \/ LogOffRows(c) \/ TakeNumber(c)
             \/ CreateQueue(c) \/ FnCanWriteToQueue(c) \/ PackOrder(c)
      PROVE  Even
  <2>1. UNCHANGED <<queue, strays, stolen, left>> /\ InReadBack' = InReadBack
    BY <1>1 DEF Call, EsrStatus, PasswordAge, LoginRow, Masters, LogOffRows, Check, TakeNumber,
                CreateQueue, FnCanWriteToQueue, PackOrder, InReadBack
  <2>2. QED
    BY <1>0, <2>1
<1>2. CASE ProcessEnds
  <2>1. InReadBack' = {}
    BY <1>2 DEF ProcessEnds, InReadBack
  <2>2. Cardinality(InReadBack') = 0
    BY <2>1, FS_EmptySet
  <2>3. QED
    BY <1>2, <2>2, ReadersNext DEF ProcessEnds, Even
<1>3. ASSUME NEW c \in Services, WriteOrder(c), ~ProcessEnds
      PROVE  OrderWritten(Message(c))
  <2>1. /\ IsPacking(c) /\ pc[c] = "write" /\ num[c] # NoNumber
        /\ queue' = Append(queue, Message(c))
        /\ pc' = [pc EXCEPT ![c] = "can_write"]
        /\ UNCHANGED <<strays, stolen, left>>
    BY <1>3, Zenon DEF WriteOrder
  <2>2. InReadBack' = InReadBack
    BY <2>1 DEF InReadBack
  <2>3. Message(c) \in Messages /\ Message(c).kind = "order"
    BY <2>1, MessageType DEF Message, IsPacking
  <2>4. QED
    BY <2>1, <2>2, <2>3 DEF OrderWritten
<1>4. ASSUME NEW c \in Services, WriteRequest(c) PROVE Even \/ RequestWritten(Message(c))
  <2>1. /\ pc[c] = "write" /\ ~IsPacking(c) /\ num[c] # NoNumber
        /\ UNCHANGED <<strays, stolen, left>>
    BY <1>4 DEF WriteRequest, Places
  <2>2. CASE queue' = Append(queue, Message(c)) /\ Goto(c, "read_back")
    <3>1. InReadBack' = InReadBack \cup {c} /\ c \notin InReadBack
      BY <2>1, <2>2 DEF InReadBack
    <3>2. Cardinality(InReadBack') = Cardinality(InReadBack) + 1
      BY <3>1, ReadersNext, FS_AddElement
    <3>3. Message(c) \in Messages /\ Message(c).kind # "order"
      BY <2>1, MessageType DEF Message, IsPacking
    <3>4. QED
      BY <2>1, <2>2, <3>2, <3>3 DEF RequestWritten
  <2>3. CASE queue' = queue /\ Goto(c, "idle")
    <3>1. InReadBack' = InReadBack
      BY <2>1, <2>3 DEF InReadBack
    <3>2. QED
      BY <1>0, <2>1, <2>3, <3>1
  <2>4. QED
    BY <1>4, <2>2, <2>3, Zenon DEF WriteRequest
<1>5. ASSUME NEW c \in Services, pc[c] = "read_back", Goto(c, "idle")
      PROVE  Cardinality(InReadBack') = Cardinality(InReadBack) - 1
  <2>1. InReadBack' = InReadBack \ {c} /\ c \in InReadBack
    BY <1>5 DEF InReadBack
  <2>2. QED
    BY <2>1, ReadersNext, FS_RemoveElement
<1>6. ASSUME NEW c \in Services, ReadHead(c) PROVE ReadByTest
  <2>1. Cardinality(InReadBack') = Cardinality(InReadBack) - 1
    BY <1>5, <1>6 DEF ReadHead
  <2>2. stolen' = stolen + One(Head(queue).kind = "order")
    BY <1>6 DEF ReadHead, One
  <2>3. QED
    BY <1>6, <2>1, <2>2 DEF ReadHead, ReadByTest
<1>7. ASSUME NEW c \in Services, ReadInterrupted(c) PROVE Even
  <2>1. Cardinality(InReadBack') = Cardinality(InReadBack) - 1
    BY <1>5, <1>7 DEF ReadInterrupted
  <2>2. UNCHANGED <<queue, strays, stolen>> /\ left' = left + 1
    BY <1>7 DEF ReadInterrupted
  <2>3. left' = left + (Cardinality(InReadBack) - Cardinality(InReadBack'))
    BY <2>1, <2>2, ReadersNext
  <2>4. QED
    BY <2>2, <2>3 DEF Even
<1>8. CASE SendThrd
  <2>1. strays' = strays + One(Head(queue).kind # "order")
    BY <1>8 DEF SendThrd, One
  <2>2. InReadBack' = InReadBack
    BY <1>8 DEF SendThrd, InReadBack
  <2>3. QED
    BY <1>8, <2>1, <2>2 DEF SendThrd, ReadBySender
<1>9. CASE Restart
  <2>1. InReadBack' = InReadBack
    BY <1>9 DEF Restart, Started, InReadBack
  <2>2. QED
    BY <1>0, <1>9, <2>1 DEF Restart
<1>10. CASE UNCHANGED vars
  <2>1. InReadBack' = InReadBack
    BY <1>10 DEF vars, InReadBack
  <2>2. QED
    BY <1>0, <1>10, <2>1 DEF vars
<1>11. ASSUME NEW c \in Services, WriteOrder(c) \/ WriteRequest(c)
       PROVE  ProcessEnds \/ Even \/ \E m \in Messages : OrderWritten(m) \/ RequestWritten(m)
  <2>1. ProcessEnds \/ Even \/ OrderWritten(Message(c)) \/ RequestWritten(Message(c))
    BY <1>3, <1>4, <1>11
  <2>2. OrderWritten(Message(c)) \/ RequestWritten(Message(c)) => Message(c) \in Messages
    BY DEF OrderWritten, RequestWritten
  <2>3. QED
    BY <2>1, <2>2
<1>12. QED
  <2>1. CASE \E c \in Services :
               \/ Call(c) \/ EsrStatus(c) \/ PasswordAge(c) \/ LoginRow(c)
               \/ Masters(c) \/ LogOffRows(c) \/ TakeNumber(c) \/ CreateQueue(c)
               \/ FnCanWriteToQueue(c) \/ PackOrder(c)
    BY <1>1, <2>1
  <2>2. CASE \E c \in Services : WriteOrder(c) \/ WriteRequest(c)
    BY <1>2, <1>11, <2>2
  <2>3. CASE \E c \in Services : ReadBack(c)
    BY <1>6, <1>7, <2>3 DEF ReadBack
  <2>4. QED
    BY <1>2, <1>8, <1>9, <1>10, <2>1, <2>2, <2>3, Zenon DEF Next

(* However the services interleave, a test read that takes an order leaves  *)
(* a request for send_thrd, and one that never reads leaves its own.        *)
THEOREM ThievesLeaveRequests == Spec => []StolenOrdersLeaveRequests
<1>1. Init => StolenOrdersLeaveRequests
  <2> SUFFICES ASSUME Init PROVE StolenOrdersLeaveRequests
    OBVIOUS
  <2>1. Requests = {} /\ InReadBack = {}
    BY DEF Init, Started, Requests, InReadBack
  <2>2. QED
    BY <2>1, FS_EmptySet DEF Init, StolenOrdersLeaveRequests
<1>2. TypeOK /\ Places /\ StolenOrdersLeaveRequests /\ [Next]_vars
        => StolenOrdersLeaveRequests'
  <2> SUFFICES ASSUME TypeOK, Places, StolenOrdersLeaveRequests, [Next]_vars
               PROVE  StolenOrdersLeaveRequests'
    OBVIOUS
  <2> DEFINE r == Cardinality(RequestsIn(queue))
             s == Cardinality(RequestsIn(queue'))
             b == Cardinality(InReadBack)
             d == Cardinality(InReadBack')
  <2>1. r \in Nat /\ s \in Nat
    BY TypeNext, RequestsAreFinite DEF TypeOK
  <2>2. b \in Nat /\ d \in Nat
    BY ReadersNext
  <2>3. strays \in Nat /\ stolen \in Nat /\ left \in Nat /\ left' \in Nat
    BY TypeNext DEF TypeOK
  <2>4. r + strays = stolen + b + left
    BY DEF StolenOrdersLeaveRequests, Requests, RequestsIn
  <2>5. s + strays' = stolen' + d + left' => StolenOrdersLeaveRequests'
    BY DEF StolenOrdersLeaveRequests, Requests, RequestsIn
  <2> HIDE DEF r, s, b, d
  <2>6. CASE Even
    <3>1. s = r
      BY <2>6 DEF Even, r, s
    <3>2. left' = left + (b - d) /\ strays' = strays /\ stolen' = stolen
      BY <2>6 DEF Even, b, d
    <3>3. stolen + b + left = stolen + d + left'
      BY <2>2, <2>3, <3>2
    <3>4. QED
      BY <2>4, <2>5, <3>1, <3>2, <3>3
  <2>7. ASSUME NEW m \in Messages, OrderWritten(m) PROVE StolenOrdersLeaveRequests'
    <3>1. s = r
      BY <2>1, <2>7, RequestsAppend DEF OrderWritten, One, TypeOK, r, s
    <3>2. d = b /\ UNCHANGED <<strays, stolen, left>>
      BY <2>7 DEF OrderWritten, b, d
    <3>3. QED
      BY <2>4, <2>5, <3>1, <3>2
  <2>8. ASSUME NEW m \in Messages, RequestWritten(m) PROVE StolenOrdersLeaveRequests'
    <3>1. s = r + 1
      BY <2>8, RequestsAppend DEF RequestWritten, One, TypeOK, r, s
    <3>2. d = b + 1 /\ UNCHANGED <<strays, stolen, left>>
      BY <2>8 DEF RequestWritten, b, d
    <3>3. QED
      BY <2>1, <2>2, <2>3, <2>4, <2>5, <3>1, <3>2
  <2>9. queue # <<>> /\ queue' = Tail(queue) => r = s + One(Head(queue).kind # "order")
    BY RequestsTail DEF TypeOK, r, s
  <2>10. CASE ReadByTest
    <3>1. d = b - 1 /\ UNCHANGED <<strays, left>>
      BY <2>10 DEF ReadByTest, b, d
    <3>2. CASE Head(queue).kind = "order"
      <4>1. r = s /\ stolen' = stolen + 1
        BY <2>1, <2>9, <2>10, <3>2 DEF ReadByTest, One
      <4>2. QED
        BY <2>1, <2>2, <2>3, <2>4, <2>5, <3>1, <4>1
    <3>3. CASE Head(queue).kind # "order"
      <4>1. r = s + 1 /\ stolen' = stolen
        BY <2>3, <2>9, <2>10, <3>3 DEF ReadByTest, One
      <4>2. QED
        BY <2>1, <2>2, <2>3, <2>4, <2>5, <3>1, <4>1
    <3>4. QED
      BY <3>2, <3>3
  <2>11. CASE ReadBySender
    <3>1. d = b /\ UNCHANGED <<stolen, left>>
      BY <2>11 DEF ReadBySender, b, d
    <3>2. CASE Head(queue).kind = "order"
      <4>1. r = s /\ strays' = strays
        BY <2>1, <2>3, <2>9, <2>11, <3>2 DEF ReadBySender, One
      <4>2. QED
        BY <2>4, <2>5, <3>1, <4>1
    <3>3. CASE Head(queue).kind # "order"
      <4>1. r = s + 1 /\ strays' = strays + 1
        BY <2>9, <2>11, <3>3 DEF ReadBySender, One
      <4>2. QED
        BY <2>1, <2>2, <2>3, <2>4, <2>5, <3>1, <4>1
    <3>4. QED
      BY <3>2, <3>3
  <2>12. QED
    BY <2>6, <2>7, <2>8, <2>10, <2>11, BalanceSteps
<1>3. QED
  BY <1>1, <1>2, TypeInit, TypeNext, PlacesInit, PlacesNext, PTL DEF Spec

(***************************************************************************)
(* The test reads that find no message.                                     *)
(***************************************************************************)

(* The test reads that find no message are no more than the requests        *)
(* send_thrd dropped, less the orders stolen and the writers that never     *)
(* read: the balance leaves a request in the queue for every other one.     *)
THEOREM BlockedReadsAreOwed == Spec => []BlockedReadsHaveCauses
<1>1. TypeOK /\ StolenOrdersLeaveRequests => BlockedReadsHaveCauses
  <2> SUFFICES ASSUME TypeOK, StolenOrdersLeaveRequests PROVE BlockedReadsHaveCauses
    OBVIOUS
  <2>1. Requests \in SUBSET (1 .. Len(queue)) /\ Len(queue) \in Nat
    BY DEF TypeOK, Requests
  <2>2. Cardinality(Requests) <= Len(queue) /\ Cardinality(Requests) \in Nat
    <3>1. IsFiniteSet(1 .. Len(queue)) /\ Cardinality(1 .. Len(queue)) = Len(queue)
      BY <2>1, FS_Interval
    <3>2. IsFiniteSet(Requests) /\ Cardinality(Requests) <= Cardinality(1 .. Len(queue))
      BY <2>1, <3>1, FS_Subset
    <3>3. QED
      BY <3>1, <3>2, FS_CardinalityType
  <2>3. /\ Cardinality(InReadBack) \in Nat
        /\ stolen \in Nat /\ strays \in Nat /\ left \in Nat
    BY ReadersAreFinite DEF TypeOK
  <2>4. Cardinality(Requests) + strays = stolen + Cardinality(InReadBack) + left
    BY DEF StolenOrdersLeaveRequests
  <2>5. QED
    BY <2>1, <2>2, <2>3, <2>4 DEF BlockedReadsHaveCauses
<1>2. QED
  BY <1>1, TypeCorrect, ThievesLeaveRequests, PTL

(* Only send_thrd drops requests.                                           *)
NoStrays == senderUp \in BOOLEAN /\ (~senderUp => strays = 0)

(* send_thrd neither comes nor goes, and without it no request is dropped.  *)
LEMMA NoStraysStep == NoStrays /\ [Next]_vars => NoStrays'
<1> SUFFICES ASSUME NoStrays, [Next]_vars PROVE NoStrays'
  OBVIOUS
<1>1. CASE SendThrd
  BY <1>1 DEF SendThrd, NoStrays
<1>2. CASE UNCHANGED <<senderUp, strays>>
  BY <1>2 DEF NoStrays
<1>3. QED
  BY <1>1, <1>2
     DEF Next, vars, hist, Call, EsrStatus, PasswordAge, LoginRow, Masters, LogOffRows, Check,
         TakeNumber, CreateQueue, FnCanWriteToQueue, PackOrder, WriteOrder, WriteRequest,
         ReadBack, ReadHead, ReadInterrupted, ProcessEnds, Restart

(* Without send_thrd there is a message in the queue for every service in   *)
(* its test read, so that none of them blocks.                              *)
THEOREM TestReadsDoNotBlock == Spec => [](~senderUp => Len(queue) >= Cardinality(InReadBack))
<1>1. Init => NoStrays
  BY DEF Init, NoStrays
<1>2. TypeOK /\ NoStrays /\ BlockedReadsHaveCauses
        => (~senderUp => Len(queue) >= Cardinality(InReadBack))
  BY ReadersAreFinite DEF TypeOK, NoStrays, BlockedReadsHaveCauses
<1>3. QED
  BY <1>1, <1>2, NoStraysStep, TypeCorrect, BlockedReadsAreOwed, PTL DEF Spec
================================================================================
