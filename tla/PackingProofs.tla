----------------------------- MODULE PackingProofs -----------------------------
(***************************************************************************)
(* What a packet consists of, proved for any set of orders, any trader id   *)
(* and any number of calls.                                                 *)
(*                                                                          *)
(* The argument is about what a call has written when it gets to a stage:   *)
(* a call that reaches the end has written every part, and one that         *)
(* returned before leaves parts the next one writes before it can end.      *)
(***************************************************************************)
EXTENDS Packing, TLAPS

(* The stages from a given one on.                                          *)
FromSequence == {"sequence", "finish"}
FromAlgo     == {"algo"} \cup FromSequence
FromClient   == {"client"} \cup FromAlgo
FromFlags    == {"flags"} \cup FromClient
FromValidity == {"validity"} \cup FromFlags
FromDetails  == {"details"} \cup FromValidity
FromContract == {"contract"} \cup FromDetails

(* What this call has written when it gets to a stage.                      *)
HeaderWritten == pc \in FromContract => int_header = call

ContractWritten == pc \in FromDetails => \A f \in ContractParts : contract_desc[f] = call

BodyWritten ==
  /\ pc \in FromContract => oe_reqres["head"] = call
  /\ pc \in FromValidity =>
       \A f \in {"party", "order_number", "price", "side", "volumes"} : oe_reqres[f] = call
  /\ pc \in FromFlags => oe_reqres["entry"] = call
  /\ pc \in FromAlgo => \A f \in {"branch", "trader", "settlor"} : oe_reqres[f] = call
  /\ pc \in FromSequence => \A f \in {"algo", "rest"} : oe_reqres[f] = call

FlagsOfOrder(o) == {"SL"} \cup When(o.typ = "T", {"Day"}) \cup When(o.typ = "I", {"IOC"})

FlagsWritten == pc \in FromClient => order_flag = FlagsOfOrder(order)

(* Q_packet is of an earlier call while one runs, and what it has copied is *)
(* what the body still holds.                                               *)
PacketIsOlder ==
  /\ q_packet.call \in 0 .. call
  /\ pc # "idle" => q_packet.call # call
  /\ embedded = q_packet.copies

(* Every number taken belongs to a packet, to a lost answer or to the call  *)
(* that is about to finish; every call takes one at most.                   *)
NumbersCounted ==
  /\ fsp_seq_num = packed + lost + (IF pc = "finish" THEN 1 ELSE 0)
  /\ packed + lost + (IF pc = "idle" THEN 0 ELSE 1) <= call

IInv ==
  /\ TypeOK
  /\ HeaderWritten
  /\ ContractWritten
  /\ BodyWritten
  /\ FlagsWritten
  /\ PacketIsOlder
  /\ NumbersCounted
  /\ PacketIsOneOrder
  /\ FlagsOfTheOrder

(* A structure of calls stays one when the running call writes parts of it, *)
(* and just those parts become this call's.                                 *)
LEMMA WrittenParts ==
  ASSUME NEW S, NEW s \in [S -> 0 .. MaxCalls], call \in 0 .. MaxCalls, NEW parts
  PROVE  /\ Written(s, parts) \in [S -> 0 .. MaxCalls]
         /\ \A f \in S : Written(s, parts)[f] = IF f \in parts THEN call ELSE s[f]
  BY DEF Written

(* What OrderFlags leaves in the word does not depend on what was in it.    *)
LEMMA FlagsAreRewritten ==
  ASSUME NEW o, NEW old \in SUBSET Flags
  PROVE  FlagsOf(o.typ, old) = FlagsOfOrder(o)
<1>1. (old \ ClearedFlags) \cup {"SL"} \subseteq {"SL", "Day", "IOC"}
  BY DEF Flags, ClearedFlags
<1>2. ASSUME NEW kept \in SUBSET {"SL", "Day", "IOC"}, "SL" \in kept
      PROVE  SetFlagIf(o.typ = "I", "IOC", SetFlagIf(o.typ = "T", "Day", kept)) = FlagsOfOrder(o)
  <2>1. CASE o.typ = "I"
    BY <1>2, <2>1 DEF SetFlagIf, FlagsOfOrder, When
  <2>2. CASE o.typ = "T"
    BY <1>2, <2>2 DEF SetFlagIf, FlagsOfOrder, When
  <2>3. CASE o.typ \notin {"I", "T"}
    BY <1>2, <2>3 DEF SetFlagIf, FlagsOfOrder, When
  <2>4. QED
    BY <2>1, <2>2, <2>3
<1>3. QED
  BY <1>1, <1>2 DEF FlagsOf

(* The flags of an order are flags.                                         *)
LEMMA FlagsOfOrderType ==
  ASSUME NEW o
  PROVE  FlagsOfOrder(o) \in SUBSET Flags
  BY DEF FlagsOfOrder, Flags, When

(***************************************************************************)
(* The invariant.                                                           *)
(***************************************************************************)

(* Zeroed structures and an empty packet satisfy the invariant.             *)
LEMMA InvInit == Init => IInv
<1> SUFFICES ASSUME Init PROVE IInv
  OBVIOUS
<1> USE ConstantsAssumption DEF ConstantsAssumption, Init
<1> USE DEF FromSequence, FromAlgo, FromClient, FromFlags, FromValidity, FromDetails, FromContract
<1>1. TypeOK
  BY DEF TypeOK, Stages
<1>2. HeaderWritten /\ ContractWritten /\ BodyWritten /\ FlagsWritten
  BY DEF HeaderWritten, ContractWritten, BodyWritten, FlagsWritten
<1>3. PacketIsOlder
  BY DEF PacketIsOlder, NoPacket
<1>4. NumbersCounted
  BY DEF NumbersCounted
<1>5. PacketIsOneOrder /\ FlagsOfTheOrder
  BY DEF PacketIsOneOrder, FlagsOfTheOrder, JustPacked, NoPacket
<1>6. QED
  BY <1>1, <1>2, <1>3, <1>4, <1>5 DEF IInv

(* Every step keeps the invariant.                                          *)
LEMMA InvNext == IInv /\ [Next]_vars => IInv'
<1> SUFFICES ASSUME IInv, [Next]_vars PROVE IInv'
  OBVIOUS
<1> USE DEF structs, outer, numbers, Proceed
<1>1. ASSUME NEW o \in Orders, FnPackOrdnryOrdToNse(o) PROVE IInv'
  <2> USE <1>1 DEF IInv, FnPackOrdnryOrdToNse
  <2>1. TypeOK'
    BY ConstantsAssumption DEF ConstantsAssumption, TypeOK, Stages
  <2>2. (HeaderWritten /\ ContractWritten /\ BodyWritten /\ FlagsWritten)'
    BY DEF HeaderWritten, ContractWritten, BodyWritten, FlagsWritten, FromSequence, FromAlgo,
           FromClient, FromFlags, FromValidity, FromDetails, FromContract
  <2>3. (PacketIsOlder /\ NumbersCounted)'
    BY DEF PacketIsOlder, NumbersCounted, TypeOK
  <2>4. (PacketIsOneOrder /\ FlagsOfTheOrder)'
    BY DEF PacketIsOneOrder, FlagsOfTheOrder, JustPacked
  <2>5. QED
    BY <2>1, <2>2, <2>3, <2>4
<1>2. CASE Header
  <2> USE <1>2 DEF IInv, Header
  <2>1. /\ oe_reqres' \in [BodyParts -> 0 .. MaxCalls]
        /\ \A f \in BodyParts :
             oe_reqres'[f] = IF f \in When(TraderId # "other", {"head"}) THEN call ELSE oe_reqres[f]
    BY WrittenParts DEF TypeOK
  <2>2. TypeOK'
    BY <2>1 DEF TypeOK, Stages
  <2>3. (HeaderWritten /\ ContractWritten /\ BodyWritten /\ FlagsWritten)'
    BY <2>1 DEF HeaderWritten, ContractWritten, BodyWritten, FlagsWritten, FromSequence, FromAlgo,
           FromClient, FromFlags, FromValidity, FromDetails, FromContract, When, BodyParts
  <2>4. (PacketIsOlder /\ NumbersCounted)'
    BY DEF PacketIsOlder, NumbersCounted, TypeOK
  <2>5. (PacketIsOneOrder /\ FlagsOfTheOrder)'
    BY DEF PacketIsOneOrder, FlagsOfTheOrder, JustPacked, PacketIsOlder
  <2>6. QED
    BY <2>2, <2>3, <2>4, <2>5
<1>3. CASE Fn_orstonse_cntrct_desc
  <2> USE <1>3 DEF IInv, Fn_orstonse_cntrct_desc
  <2>1. /\ contract_desc' \in [ContractParts -> 0 .. MaxCalls]
        /\ pc' = "details" => \A f \in ContractParts : contract_desc'[f] = call
    BY WrittenParts DEF TypeOK, When, ContractParts
  <2>2. TypeOK'
    BY <2>1 DEF TypeOK, Stages
  <2>3. (HeaderWritten /\ ContractWritten /\ BodyWritten /\ FlagsWritten)'
    BY <2>1 DEF HeaderWritten, ContractWritten, BodyWritten, FlagsWritten, FromSequence, FromAlgo,
           FromClient, FromFlags, FromValidity, FromDetails, FromContract
  <2>4. (PacketIsOlder /\ NumbersCounted)'
    BY DEF PacketIsOlder, NumbersCounted, TypeOK
  <2>5. (PacketIsOneOrder /\ FlagsOfTheOrder)'
    BY DEF PacketIsOneOrder, FlagsOfTheOrder, JustPacked, PacketIsOlder
  <2>6. QED
    BY <2>2, <2>3, <2>4, <2>5
<1>4. CASE Details
  <2> USE <1>4 DEF IInv, Details
  <2>1. /\ oe_reqres' \in [BodyParts -> 0 .. MaxCalls]
        /\ oe_reqres'["head"] = oe_reqres["head"]
        /\ pc' = "validity" =>
             \A f \in {"party", "order_number", "price", "side", "volumes"} : oe_reqres'[f] = call
    BY WrittenParts DEF TypeOK, When, BodyParts
  <2>2. TypeOK'
    BY <2>1 DEF TypeOK, Stages
  <2>3. (HeaderWritten /\ ContractWritten /\ BodyWritten /\ FlagsWritten)'
    BY <2>1 DEF HeaderWritten, ContractWritten, BodyWritten, FlagsWritten, FromSequence, FromAlgo,
           FromClient, FromFlags, FromValidity, FromDetails, FromContract
  <2>4. (PacketIsOlder /\ NumbersCounted)'
    BY DEF PacketIsOlder, NumbersCounted, TypeOK
  <2>5. (PacketIsOneOrder /\ FlagsOfTheOrder)'
    BY DEF PacketIsOneOrder, FlagsOfTheOrder, JustPacked, PacketIsOlder
  <2>6. QED
    BY <2>2, <2>3, <2>4, <2>5
<1>5. CASE Validity
  <2> USE <1>5 DEF IInv, Validity
  <2>1. /\ oe_reqres' \in [BodyParts -> 0 .. MaxCalls]
        /\ \A f \in BodyParts \ {"entry"} : oe_reqres'[f] = oe_reqres[f]
        /\ pc' = "flags" => oe_reqres'["entry"] = call
    BY WrittenParts DEF TypeOK, When, BodyParts
  <2>2. good_till' \in 0 .. MaxCalls
    BY ConstantsAssumption DEF ConstantsAssumption, TypeOK, TimeArrToLong, C_valid_dt, OrderData
  <2>3. TypeOK'
    BY <2>1, <2>2 DEF TypeOK, Stages
  <2>4. (HeaderWritten /\ ContractWritten /\ BodyWritten /\ FlagsWritten)'
    BY <2>1 DEF HeaderWritten, ContractWritten, BodyWritten, FlagsWritten, FromSequence, FromAlgo,
           FromClient, FromFlags, FromValidity, FromDetails, FromContract, BodyParts
  <2>5. (PacketIsOlder /\ NumbersCounted)'
    BY DEF PacketIsOlder, NumbersCounted, TypeOK
  <2>6. (PacketIsOneOrder /\ FlagsOfTheOrder)'
    BY DEF PacketIsOneOrder, FlagsOfTheOrder, JustPacked, PacketIsOlder
  <2>7. QED
    BY <2>3, <2>4, <2>5, <2>6
<1>6. CASE OrderFlags
  <2> USE <1>6 DEF IInv, OrderFlags
  <2>1. order_flag' \in SUBSET Flags
    BY FlagsAreRewritten, FlagsOfOrderType DEF TypeOK
  <2>2. pc' = "client" => order_flag' = FlagsOfOrder(order)
    BY FlagsAreRewritten DEF TypeOK
  <2>3. TypeOK'
    BY <2>1 DEF TypeOK, Stages
  <2>4. (HeaderWritten /\ ContractWritten /\ BodyWritten /\ FlagsWritten)'
    BY <2>2 DEF HeaderWritten, ContractWritten, BodyWritten, FlagsWritten, FromSequence, FromAlgo,
           FromClient, FromFlags, FromValidity, FromDetails, FromContract, FlagsOfOrder
  <2>5. (PacketIsOlder /\ NumbersCounted)'
    BY DEF PacketIsOlder, NumbersCounted, TypeOK
  <2>6. (PacketIsOneOrder /\ FlagsOfTheOrder)'
    BY DEF PacketIsOneOrder, FlagsOfTheOrder, JustPacked, PacketIsOlder
  <2>7. QED
    BY <2>3, <2>4, <2>5, <2>6
<1>7. CASE Client
  <2> USE <1>7 DEF IInv, Client
  <2>1. /\ oe_reqres' \in [BodyParts -> 0 .. MaxCalls]
        /\ \A f \in BodyParts \ {"branch", "trader", "settlor"} : oe_reqres'[f] = oe_reqres[f]
        /\ pc' = "algo" => \A f \in {"branch", "trader", "settlor"} : oe_reqres'[f] = call
    BY WrittenParts DEF TypeOK, When, BodyParts
  <2>2. TypeOK'
    BY <2>1 DEF TypeOK, Stages
  <2>3. (HeaderWritten /\ ContractWritten /\ BodyWritten /\ FlagsWritten)'
    BY <2>1 DEF HeaderWritten, ContractWritten, BodyWritten, FlagsWritten, FromSequence, FromAlgo,
           FromClient, FromFlags, FromValidity, FromDetails, FromContract, BodyParts, FlagsOfOrder
  <2>4. (PacketIsOlder /\ NumbersCounted)'
    BY DEF PacketIsOlder, NumbersCounted, TypeOK
  <2>5. (PacketIsOneOrder /\ FlagsOfTheOrder)'
    BY DEF PacketIsOneOrder, FlagsOfTheOrder, JustPacked, PacketIsOlder
  <2>6. QED
    BY <2>2, <2>3, <2>4, <2>5
<1>8. CASE Algo
  <2> USE <1>8 DEF IInv, Algo
  <2>1. /\ oe_reqres' \in [BodyParts -> 0 .. MaxCalls]
        /\ \A f \in BodyParts \ {"algo", "rest"} : oe_reqres'[f] = oe_reqres[f]
        /\ pc' = "sequence" => \A f \in {"algo", "rest"} : oe_reqres'[f] = call
    BY WrittenParts DEF TypeOK, When, BodyParts
  <2>2. TypeOK'
    BY <2>1 DEF TypeOK, Stages
  <2>3. (HeaderWritten /\ ContractWritten /\ BodyWritten /\ FlagsWritten)'
    BY <2>1 DEF HeaderWritten, ContractWritten, BodyWritten, FlagsWritten, FromSequence, FromAlgo,
           FromClient, FromFlags, FromValidity, FromDetails, FromContract, BodyParts, FlagsOfOrder
  <2>4. (PacketIsOlder /\ NumbersCounted)'
    BY DEF PacketIsOlder, NumbersCounted, TypeOK
  <2>5. (PacketIsOneOrder /\ FlagsOfTheOrder)'
    BY DEF PacketIsOneOrder, FlagsOfTheOrder, JustPacked, PacketIsOlder
  <2>6. QED
    BY <2>2, <2>3, <2>4, <2>5
<1>9. CASE Sequence
  <2> USE <1>9 DEF IInv, Sequence
  <2>1. TypeOK'
    BY DEF TypeOK, Stages, NumbersCounted
  <2>2. (HeaderWritten /\ ContractWritten /\ BodyWritten /\ FlagsWritten)'
    BY DEF HeaderWritten, ContractWritten, BodyWritten, FlagsWritten, FromSequence, FromAlgo,
           FromClient, FromFlags, FromValidity, FromDetails, FromContract, FlagsOfOrder
  <2>3. (PacketIsOlder /\ NumbersCounted)'
    BY DEF PacketIsOlder, NumbersCounted, TypeOK
  <2>4. (PacketIsOneOrder /\ FlagsOfTheOrder)'
    BY DEF PacketIsOneOrder, FlagsOfTheOrder, JustPacked, PacketIsOlder
  <2>5. QED
    BY <2>1, <2>2, <2>3, <2>4
<1>10. CASE Finish
  <2> USE <1>10 DEF IInv, Finish
  <2>1. TypeOK'
    BY DEF TypeOK, Stages, NumbersCounted
  <2>2. (HeaderWritten /\ ContractWritten /\ BodyWritten /\ FlagsWritten)'
    BY DEF HeaderWritten, ContractWritten, BodyWritten, FlagsWritten, FromSequence, FromAlgo,
           FromClient, FromFlags, FromValidity, FromDetails, FromContract
  <2>3. PacketIsOlder'
    BY DEF PacketIsOlder, TypeOK
  <2>4. NumbersCounted'
    BY DEF NumbersCounted, TypeOK
  <2>5. PacketIsOneOrder'
    <3>1. \A f \in BodyParts : oe_reqres[f] = call
      BY DEF BodyWritten, FromSequence, FromAlgo,
           FromClient, FromFlags, FromValidity, FromDetails, FromContract, BodyParts
    <3>2. int_header = call /\ \A f \in ContractParts : contract_desc[f] = call
      BY DEF HeaderWritten, ContractWritten, FromSequence, FromAlgo,
           FromClient, FromFlags, FromValidity, FromDetails, FromContract
    <3>3. QED
      BY <3>1, <3>2 DEF PacketIsOneOrder, Copies
  <2>6. FlagsOfTheOrder'
    BY DEF FlagsWritten, FlagsOfOrder, FlagsOfTheOrder, Copies, FromSequence, FromAlgo, FromClient
  <2>7. QED
    BY <2>1, <2>2, <2>3, <2>4, <2>5, <2>6
<1>11. CASE UNCHANGED vars
  BY <1>11 DEF IInv, vars, TypeOK, HeaderWritten, ContractWritten, BodyWritten, FlagsWritten,
       FlagsOfOrder, PacketIsOlder, NumbersCounted, PacketIsOneOrder, FlagsOfTheOrder, JustPacked
<1>12. QED
  BY <1>1, <1>2, <1>3, <1>4, <1>5, <1>6, <1>7, <1>8, <1>9, <1>10, <1>11 DEF Next

(* The invariant holds in every state.                                      *)
LEMMA InvAlways == Spec => []IInv
<1>1. QED
  BY InvInit, InvNext, PTL DEF Spec

(***************************************************************************)
(* The theorems.                                                            *)
(***************************************************************************)

(* Every structure of the packing holds what calls have written, and no     *)
(* call takes more than one sequence number.                                *)
THEOREM TypeCorrect == Spec => []TypeOK
<1>1. IInv => TypeOK
  BY DEF IInv
<1>2. QED
  BY <1>1, InvAlways, PTL

(* Whatever orders fail and wherever, the packet is of one order: no part   *)
(* of the structures FnPackOrdnryOrdToNse shares between its calls is left  *)
(* over from another one.                                                   *)
THEOREM PacketsAreWhole == Spec => []PacketIsOneOrder
<1>1. IInv => PacketIsOneOrder
  BY DEF IInv
<1>2. QED
  BY <1>1, InvAlways, PTL

(* The flags of a packet are those of its order, although every order sets  *)
(* and clears them in the same word.                                        *)
THEOREM FlagsAreOfTheOrder == Spec => []FlagsOfTheOrder
<1>1. IInv => FlagsOfTheOrder
  BY DEF IInv
<1>2. QED
  BY <1>1, InvAlways, PTL

(* The sequence numbers of the packets have no gap but for the answers of   *)
(* GetResetSequence that got lost.                                          *)
THEOREM NoGaps == Spec => []NumbersWithoutGaps
<1>1. IInv => NumbersWithoutGaps
  BY DEF IInv, NumbersCounted, NumbersWithoutGaps, TypeOK
<1>2. QED
  BY <1>1, InvAlways, PTL

(* The checksum of a packet is over its own body and the header, contract   *)
(* and flags of the packet before it.                                       *)
THEOREM ChecksumLags == Spec => ChecksumLagsOnePacket
<1>1. IInv /\ [Next]_vars =>
        [q_packet' # q_packet =>
           q_packet'.sum = [oe |-> q_packet'.oe, copies |-> q_packet.copies]]_vars
  <2> SUFFICES ASSUME IInv, Next, q_packet' # q_packet
               PROVE  q_packet'.sum = [oe |-> q_packet'.oe, copies |-> q_packet.copies]
    BY DEF vars, outer
  <2>1. Finish
    BY DEF Next, FnPackOrdnryOrdToNse, Header, Fn_orstonse_cntrct_desc, Details, Validity,
         OrderFlags, Client, Algo, Sequence, outer
  <2>2. QED
    BY <2>1 DEF Finish, IInv, PacketIsOlder
<1>2. QED
  BY <1>1, InvAlways, PTL DEF Spec, ChecksumLagsOnePacket

(***************************************************************************)
(* Which orders get that far.                                               *)
(***************************************************************************)

(* The tests a call has passed when it gets to a stage.  Two of them are of *)
(* the trader id: the header takes it trimmed, the client stage as it is.   *)
TestsPassed ==
  /\ pc \in FromDetails => order.prd # "other" /\ order.indstk # "other" /\ order.expiry # "other"
  /\ pc \in FromValidity => order.slm # "other" /\ order.flw # "other"
  /\ pc \in FromFlags => order.typ # "other" /\ order.req = "N"
  /\ pc \in FromAlgo => TraderId = "number"
  /\ pc \in FromSequence => order.prgm # "other"

(* A stage goes on only when its own tests are passed, and no stage changes *)
(* the order.                                                               *)
LEMMA TestsPassedStep == TestsPassed /\ [Next]_vars => TestsPassed'
<1> SUFFICES ASSUME TestsPassed, [Next]_vars PROVE TestsPassed'
  OBVIOUS
<1> USE DEF TestsPassed, Proceed, FromSequence, FromAlgo, FromClient, FromFlags, FromValidity,
            FromDetails
<1>1. CASE \E o \in Orders : FnPackOrdnryOrdToNse(o)
  BY <1>1 DEF FnPackOrdnryOrdToNse
<1>2. CASE Header
  BY <1>2 DEF Header
<1>3. CASE Fn_orstonse_cntrct_desc
  BY <1>3 DEF Fn_orstonse_cntrct_desc
<1>4. CASE Details
  BY <1>4 DEF Details
<1>5. CASE Validity
  BY <1>5 DEF Validity
<1>6. CASE OrderFlags
  BY <1>6 DEF OrderFlags
<1>7. CASE Client
  BY <1>7 DEF Client
<1>8. CASE Algo
  BY <1>8 DEF Algo
<1>9. CASE Sequence
  BY <1>9 DEF Sequence
<1>10. CASE Finish
  BY <1>10 DEF Finish
<1>11. CASE UNCHANGED vars
  BY <1>11 DEF vars
<1>12. QED
  BY <1>1, <1>2, <1>3, <1>4, <1>5, <1>6, <1>7, <1>8, <1>9, <1>10, <1>11 DEF Next

(* No order the library does not support gets into Q_packet, although its   *)
(* tests are spread over the stages and each only returns.                  *)
THEOREM OnlySupportedOrders == Spec => OnlyPackableArePacked
<1>1. Init => TestsPassed
  BY DEF Init, TestsPassed, FromSequence, FromAlgo, FromClient, FromFlags, FromValidity, FromDetails
<1>2. TestsPassed /\ [Next]_vars => [q_packet' # q_packet => Packable(order) /\ TraderId = "number"]_vars
  <2> SUFFICES ASSUME TestsPassed, Next, q_packet' # q_packet
               PROVE  Packable(order) /\ TraderId = "number"
    BY DEF vars, outer
  <2>1. Finish
    BY DEF Next, FnPackOrdnryOrdToNse, Header, Fn_orstonse_cntrct_desc, Details, Validity,
         OrderFlags, Client, Algo, Sequence, outer
  <2>2. pc = "finish"
    BY <2>1 DEF Finish
  <2>3. QED
    BY <2>2 DEF TestsPassed, Packable, FromSequence, FromAlgo, FromClient, FromFlags, FromValidity,
         FromDetails
<1>3. QED
  BY <1>1, <1>2, TestsPassedStep, PTL DEF Spec, OnlyPackableArePacked
================================================================================
