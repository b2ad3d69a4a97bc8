-------------------------------- MODULE Packing --------------------------------
(***************************************************************************)
(* FnPackOrdnryOrdToNse: an order becomes a packet                          *)
(* (internal/app/packing_service/fo_exg_pack_lib.go).  The structures it    *)
(* fills are allocated once per process and used for every order, a call    *)
(* returns -1 from the middle and leaves what it has written so far, and    *)
(* its caller goes on with the next order.  The model tracks, for each part *)
(* of the structures, the call that wrote it last: 0 is the zero value.     *)
(***************************************************************************)
EXTENDS Naturals

CONSTANTS
  Orders,    (* what the books may say of an order, a subset of OrderData         *)
  TraderId,  (* opm_trdr_id of the pipe: "number", "padded" with blanks, "other"  *)
  MaxCalls   (* bound on the calls                                                *)

OrderData ==
  [prd    : {"F", "O", "other"},            (* C_prd_typ                        *)
   indstk : {"I", "S", "other"},            (* C_ctgry_indstk                   *)
   expiry : {"RFC3339", "other"},           (* the format of C_expry_dt         *)
   req    : {"N", "acked", "other"},        (* C_req_typ; the acknowledgement of*)
                                            (* an "acked" order is a number     *)
   slm    : {"M", "other"},                 (* C_slm_flg                        *)
   flw    : {"B", "S", "other"},            (* C_ordr_flw                       *)
   typ    : {"T", "I", "D", "other"},       (* C_ord_typ                        *)
   prgm   : {"A", "T", "Z", "G", "other"}]  (* cPrgmFlg                         *)

ASSUME ConstantsAssumption ==
  /\ Orders \subseteq OrderData
  /\ TraderId \in {"number", "padded", "other"}
  /\ MaxCalls \in Nat

VARIABLES
  pc,           (* "idle", or the stage of the call that runs                  *)
  call,         (* the number of the call that runs or ran last                *)
  order,        (* its order                                                   *)
  int_header,   (* St_int_header                                               *)
  contract_desc,(* St_contract_desc                                            *)
  order_flag,   (* St_order_flags: the flags that are set                      *)
  oe_reqres,    (* St_oe_reqres, but for the next two                          *)
  good_till,    (* its Li_good_till_date: the call whose date it is, or 0      *)
  embedded,     (* its copies St_hdr, St_con_desc and St_ord_flg               *)
  net_seq,      (* I_seq_num of St_net_hdr                                     *)
  q_packet,     (* Q_packet                                                    *)
  fsp_seq_num,  (* the row GetResetSequence increments                         *)
  packed,       (* history: the calls that returned 0                          *)
  lost          (* history: numbers whose answer never came back               *)

structs == <<int_header, contract_desc, order_flag, oe_reqres, good_till, embedded, net_seq>>
outer   == <<q_packet, packed>>
numbers == <<fsp_seq_num, lost>>
vars    == <<pc, call, order, structs, outer, numbers>>

Flags == {"ATO", "Market", "SL", "MIT", "Day", "GTC", "IOC", "AON", "MF",
          "MatchedInd", "Traded", "Modified", "Frozen", "OrderFiller1"}

(* The fields of St_con_desc and of St_oe_reqres, grouped by the places     *)
(* where a call may return between them.                                    *)
ContractParts == {"symbol", "expiry", "strike", "option"}
BodyParts == {"head", "party", "order_number", "price", "side", "volumes",
              "entry", "branch", "trader", "settlor", "algo", "rest"}

Stages == {"idle", "header", "contract", "details", "validity", "flags",
           "client", "algo", "sequence", "finish"}

NoCopies == [hdr |-> 0, con |-> [f \in ContractParts |-> 0], flg |-> {}]
NoPacket == [call |-> 0, oe |-> [f \in BodyParts |-> 0], copies |-> NoCopies,
             good_till |-> 0, seq |-> 0,
             sum |-> [oe |-> [f \in BodyParts |-> 0], copies |-> NoCopies]]

(* An operator named X_Bug is X with a planted bug: the README says which   *)
(* property each of them breaks.  None of them is part of Next.             *)

(* The structures of the container: all zeros.                              *)
Init ==
  /\ pc = "idle"
  /\ call = 0
  /\ order \in Orders
  /\ int_header = 0
  /\ contract_desc = [f \in ContractParts |-> 0]
  /\ order_flag = {}
  /\ oe_reqres = [f \in BodyParts |-> 0]
  /\ good_till = 0
  /\ embedded = NoCopies
  /\ net_seq = 0
  /\ q_packet = NoPacket
  /\ fsp_seq_num = 0
  /\ packed = 0
  /\ lost = 0

(* The call goes on with the next stage, or returns -1.                     *)
Proceed(continues, stage) == pc' = IF continues THEN stage ELSE "idle"

(* The parts of s that this call writes.                                    *)
Written(s, parts) == [f \in DOMAIN s |-> IF f \in parts THEN call ELSE s[f]]

When(reached, parts) == IF reached THEN parts ELSE {}

(* fnGetNxtRec calls it with the order it has fetched.                      *)
FnPackOrdnryOrdToNse(o) ==
  /\ pc = "idle"
  /\ call < MaxCalls
  /\ call' = call + 1
  /\ order' = o
  /\ pc' = "header"
  /\ UNCHANGED <<structs, outer, numbers>>

Header_CopiedAtOnce ==
  /\ pc = "header"
  /\ int_header' = IF TraderId # "other" THEN call ELSE int_header
  /\ embedded' = [embedded EXCEPT !.hdr = int_header']
  /\ oe_reqres' = Written(oe_reqres, When(TraderId # "other", {"head"}))
  /\ Proceed(TraderId # "other", "contract")
  /\ UNCHANGED <<call, order, contract_desc, order_flag, good_till, net_seq, outer, numbers>>

(* The header and the first fields of the body.  The user type is always 0: *)
(* the configuration has no key of the name Fn_bat_init asks for.           *)
Header ==
  /\ pc = "header"
  /\ int_header' = IF TraderId # "other" THEN call ELSE int_header
  /\ oe_reqres' = Written(oe_reqres, When(TraderId # "other", {"head"}))
  /\ Proceed(TraderId # "other", "contract")
  /\ UNCHANGED <<call, order, contract_desc, order_flag, good_till, embedded, net_seq,
                 outer, numbers>>

Fn_orstonse_cntrct_desc_NoFuturesStrike ==
  LET known == order.prd # "other" /\ order.indstk # "other"
      dated == known /\ order.expiry = "RFC3339"
  IN
  /\ pc = "contract"
  /\ contract_desc' = Written(contract_desc,
       When(known, {"symbol"}) \cup When(dated, {"expiry", "option"})
         \cup When(dated /\ order.prd = "O", {"strike"}))
  /\ Proceed(dated, "details")
  /\ UNCHANGED <<call, order, int_header, order_flag, oe_reqres, good_till, embedded,
                 net_seq, outer, numbers>>

(* The contract descriptor: the symbol is written before the expiry date is *)
(* parsed.                                                                  *)
Fn_orstonse_cntrct_desc ==
  LET known == order.prd # "other" /\ order.indstk # "other"
      dated == known /\ order.expiry = "RFC3339"
  IN
  /\ pc = "contract"
  /\ contract_desc' = Written(contract_desc,
       When(known, {"symbol"}) \cup When(dated, {"expiry", "strike", "option"}))
  /\ Proceed(dated, "details")
  /\ UNCHANGED <<call, order, int_header, order_flag, oe_reqres, good_till, embedded,
                 net_seq, outer, numbers>>

(* The order number, the price, the side and the volumes.                   *)
Details ==
  LET numbered == order.req # "other"
      priced   == numbered /\ order.slm = "M"
      sided    == priced /\ order.flw # "other"
  IN
  /\ pc = "details"
  /\ oe_reqres' = Written(oe_reqres,
       {"party"} \cup When(numbered, {"order_number"}) \cup When(priced, {"price"})
         \cup When(sided, {"side", "volumes"}))
  /\ Proceed(sided, "validity")
  /\ UNCHANGED <<call, order, int_header, contract_desc, order_flag, good_till, embedded,
                 net_seq, outer, numbers>>

(* fnSeqToOmd reads the date as 'DD-Mon-YYYY', for every order.             *)
C_valid_dt == "DD-Mon-YYYY"

(* TimeArrToLong sets the date only when it parses.                         *)
TimeArrToLong(format, old) == IF format = "RFC3339" THEN call ELSE old

Validity_AnyRequest ==
  LET valid == order.typ # "other"
      new   == valid /\ order.req = "N"
  IN
  /\ pc = "validity"
  /\ good_till' = IF order.typ \in {"T", "I"} THEN 0
                  ELSE IF order.typ = "D" THEN TimeArrToLong(C_valid_dt, good_till)
                  ELSE good_till
  /\ oe_reqres' = Written(oe_reqres, When(new, {"entry"}))
  /\ Proceed(valid, "flags")
  /\ UNCHANGED <<call, order, int_header, contract_desc, order_flag, embedded, net_seq,
                 outer, numbers>>

(* The validity of the order; its caller ignores what TimeArrToLong says.   *)
Validity ==
  LET valid == order.typ # "other"
      new   == valid /\ order.req = "N"
  IN
  /\ pc = "validity"
  /\ good_till' = IF order.typ \in {"T", "I"} THEN 0
                  ELSE IF order.typ = "D" THEN TimeArrToLong(C_valid_dt, good_till)
                  ELSE good_till
  /\ oe_reqres' = Written(oe_reqres, When(new, {"entry"}))
  /\ Proceed(new, "flags")
  /\ UNCHANGED <<call, order, int_header, contract_desc, order_flag, embedded, net_seq,
                 outer, numbers>>

ClearedFlags == Flags \ {"SL", "Day", "IOC"}

SetFlagIf(on, flag, flags) == IF on THEN flags \cup {flag} ELSE flags \ {flag}

FlagsOf_NeverCleared(typ, old) ==
  {"SL"} \cup (old \ ClearedFlags) \cup When(typ = "T", {"Day"}) \cup When(typ = "I", {"IOC"})

(* The flags after the stage, from what they were.                          *)
FlagsOf(typ, old) ==
  SetFlagIf(typ = "I", "IOC",
    SetFlagIf(typ = "T", "Day", (old \ ClearedFlags) \cup {"SL"}))

OrderFlags ==
  /\ pc = "flags"
  /\ order_flag' = IF order.slm = "M" THEN FlagsOf(order.typ, order_flag)
                   ELSE order_flag \ {"ATO", "Market"}
  /\ Proceed(order.slm = "M", "client")
  /\ UNCHANGED <<call, order, int_header, contract_desc, oe_reqres, good_till, embedded,
                 net_seq, outer, numbers>>

Client_NumberFirst ==
  /\ pc = "client"
  /\ fsp_seq_num' = fsp_seq_num + 1
  /\ \E icdCustTypeRead \in BOOLEAN :
       /\ oe_reqres' = Written(oe_reqres, {"branch", "trader", "settlor"})
       /\ Proceed(icdCustTypeRead, "algo")
  /\ UNCHANGED <<call, order, int_header, contract_desc, order_flag, good_till, embedded,
                 net_seq, outer, lost>>

(* The trader, parsed a second time without trimming, and the client, whose *)
(* type is queried after the settlor has been cleared.                      *)
Client ==
  /\ pc = "client"
  /\ \E icdCustTypeRead \in BOOLEAN :
       /\ oe_reqres' = Written(oe_reqres,
            {"branch"} \cup When(TraderId = "number", {"trader", "settlor"}))
       /\ Proceed(TraderId = "number" /\ icdCustTypeRead, "algo")
  /\ UNCHANGED <<call, order, int_header, contract_desc, order_flag, good_till, embedded,
                 net_seq, outer, numbers>>

(* The algorithm, and the fields without a condition.  An order without a   *)
(* known program flag is to be taken by its cAlgoID, which as a padded      *)
(* array is neither "*" nor a number: the call returns.                     *)
Algo ==
  LET known == order.prgm # "other" IN
  /\ pc = "algo"
  /\ oe_reqres' = Written(oe_reqres, When(known, {"algo", "rest"}))
  /\ Proceed(known, "sequence")
  /\ UNCHANGED <<call, order, int_header, contract_desc, order_flag, good_till, embedded,
                 net_seq, outer, numbers>>

(* The sequence number.  A failure may be one of the update or of its answer.*)
Sequence ==
  /\ pc = "sequence"
  /\ \/ /\ fsp_seq_num' = fsp_seq_num + 1
        /\ net_seq' = fsp_seq_num'
        /\ pc' = "finish"
        /\ UNCHANGED lost
     \/ /\ fsp_seq_num' = fsp_seq_num + 1
        /\ lost' = lost + 1
        /\ pc' = "idle"
        /\ UNCHANGED net_seq
     \/ /\ pc' = "idle"
        /\ UNCHANGED <<numbers, net_seq>>
  /\ UNCHANGED <<call, order, int_header, contract_desc, order_flag, oe_reqres, good_till,
                 embedded, outer>>

Copies == [hdr |-> int_header, con |-> contract_desc, flg |-> order_flag]

(***************************************************************************)
(* The checksum is taken over the body before the header, the contract and  *)
(* the flags are copied into it; then the body goes into the message and    *)
(* the message into the packet.                                             *)
(***************************************************************************)
Finish ==
  /\ pc = "finish"
  /\ embedded' = Copies
  /\ q_packet' = [call |-> call, oe |-> oe_reqres, copies |-> Copies,
                  good_till |-> good_till, seq |-> net_seq,
                  sum |-> [oe |-> oe_reqres, copies |-> embedded]]
  /\ packed' = packed + 1
  /\ pc' = "idle"
  /\ UNCHANGED <<call, order, int_header, contract_desc, order_flag, oe_reqres, good_till,
                 net_seq, numbers>>

Next ==
  \/ \E o \in Orders : FnPackOrdnryOrdToNse(o)
  \/ Header \/ Fn_orstonse_cntrct_desc \/ Details \/ Validity \/ OrderFlags
  \/ Client \/ Algo \/ Sequence \/ Finish

Spec == Init /\ [][Next]_vars

(***************************************************************************)
(* Invariants and action properties.                                        *)
(***************************************************************************)

(* Every structure holds what calls have written, and a call takes one      *)
(* sequence number at most.                                                 *)
TypeOK ==
  LET Calls == 0 .. MaxCalls IN
  /\ pc \in Stages /\ call \in Calls /\ order \in OrderData
  /\ int_header \in Calls /\ good_till \in Calls
  /\ contract_desc \in [ContractParts -> Calls]
  /\ oe_reqres \in [BodyParts -> Calls]
  /\ order_flag \subseteq Flags
  /\ fsp_seq_num \in 0 .. call /\ net_seq \in 0 .. fsp_seq_num
  /\ packed \in 0 .. call /\ lost \in 0 .. call

(* A packet is of one order: whatever calls failed before it, and wherever, *)
(* no part of it was left behind by an earlier order.  Q_packet keeps this  *)
(* through the calls that fail after it.                                    *)
PacketIsOneOrder ==
  q_packet.call # 0 =>
    /\ \A f \in BodyParts : q_packet.oe[f] = q_packet.call
    /\ q_packet.copies.hdr = q_packet.call
    /\ \A f \in ContractParts : q_packet.copies.con[f] = q_packet.call

(* The last call returned 0, and Q_packet is its packet.                    *)
JustPacked == pc = "idle" /\ call # 0 /\ q_packet.call = call

(* The flags of a packet, set and cleared one by one in a word that every   *)
(* order shares, are those of its own order.                                *)
FlagsOfTheOrder ==
  JustPacked =>
    q_packet.copies.flg =
      {"SL"} \cup When(order.typ = "T", {"Day"}) \cup When(order.typ = "I", {"IOC"})

(* The checksum is of this packet's body with the header, contract and      *)
(* flags of the previous packet in it, and not of those of an order that    *)
(* failed in between: what a receiver who checks it has to know.            *)
ChecksumLagsOnePacket ==
  [][q_packet' # q_packet =>
       q_packet'.sum = [oe |-> q_packet'.oe, copies |-> q_packet.copies]]_vars

(* Q_packet changes only to the packet of an order the library supports:    *)
(* what PackClient calls unpackable, a modification among others, fails one *)
(* of the tests spread over the stages, and a trader id padded with blanks  *)
(* passes only one of its two.                                              *)
Packable(o) ==
  /\ "other" \notin {o.prd, o.indstk, o.expiry, o.slm, o.flw, o.typ, o.prgm}
  /\ o.req = "N"

OnlyPackableArePacked ==
  [][q_packet' # q_packet => Packable(order) /\ TraderId = "number"]_vars

(* The numbers of the packets have no gap: a call that fails takes none,    *)
(* whichever stage it fails in, but for an answer of the database that got  *)
(* lost.                                                                    *)
NumbersWithoutGaps == pc = "idle" => fsp_seq_num = packed + lost

(* What util/docs/IgnoreThis/description.txt:826 says and the code does not *)
(* do: an order that is good till a date carries the date of its book row.  *)
GoodTillDateIsSet == JustPacked /\ order.typ = "D" => q_packet.good_till = call
================================================================================
