------------------------------ MODULE PackClient ------------------------------
(***************************************************************************)
(* The packing service ("cln_pack_clnt"): one goroutine that, for ever,     *)
(* waits for room in the System V queue, opens a transaction, picks the     *)
(* oldest requested order of the exchange book, marks it queued in both     *)
(* order books, packs it into Q_packet, commits and writes Q_packet to the  *)
(* queue (internal/app/pack_clnt/cln_pack_clnt.go, util/tux_lib.go).        *)
(*                                                                          *)
(* The order books live in PostgreSQL and the queue in the kernel: both     *)
(* survive the process.  Every statement runs on cpcm.Db, never on the      *)
(* handle Transaction_manager.Tran, so each UPDATE is durable at once and   *)
(* other sessions interleave between any two statements.                    *)
(*                                                                          *)
(* Environment actions: the order management system (OMS) inserts and       *)
(* modifies orders, the exchange client takes messages off the queue, the   *)
(* process may crash and an operator may start it again.                    *)
(***************************************************************************)
EXTENDS Naturals, Sequences, FiniteSets

CONSTANTS
  Refs,         (* order references (fxb_ordr_rfrnc = fod_ordr_rfrnc)              *)
  OmsKinds,     (* the kinds of new order the OMS inserts, a subset of Kinds       *)
  MaxSeq,       (* bound on the rows of the exchange book                          *)
  QLimit,       (* messages FnCanWriteToQueue tolerates in the queue: 10 in the code*)
  MaxRestarts,  (* bound on the number of restarts                                 *)
  MayModify,    (* BOOLEAN: the OMS modifies orders it has inserted                *)
  MayFail,      (* BOOLEAN: statements, transactions and queue calls may fail      *)
  MayCrash,     (* BOOLEAN: the process may be killed at any point                 *)
  PipeIsNFO     (* BOOLEAN: the exchange of the pipe (opm_xchng_cd) is "NFO"       *)

(***************************************************************************)
(* What the handlers tell apart in an order:                                *)
(*   clean       a new ordinary order with a contract and a token           *)
(*   processed   fxb_rms_prcsd_flg = 'P'                                    *)
(*   special     fxb_ex_ordr_typ is not 'O'                                 *)
(*   noContract  fnGetExtCnt finds no symbol, series or token row           *)
(*   noToken     the token row exists and its ftq_token_no is NULL or 0     *)
(*   unpackable  FnPackOrdnryOrdToNse returns -1: not a new order, not 'M', *)
(*               unknown order flow or validity, or a program flag that is  *)
(*               not A, T, Z or G (module Packing has the stages)           *)
(*   blankFlag   fod_source_flg is blank: indexing the trimmed string       *)
(*               panics in NewExchngPackLibMaster                           *)
(***************************************************************************)
Kinds == {"clean", "processed", "special", "noContract", "noToken",
          "unpackable", "blankFlag"}

(* Rows the service steps over: committed, never marked, never packed.      *)
SkippedKinds == {"processed", "special"}

ASSUME ConstantsAssumption ==
  /\ MaxSeq \in Nat
  /\ QLimit \in Nat \ {0}
  /\ MaxRestarts \in Nat
  /\ OmsKinds \subseteq Kinds
  /\ {MayModify, MayFail, MayCrash, PipeIsNFO} \subseteq BOOLEAN

VARIABLES
  fxb,       (* exchange book FXB_FO_XCHNG_BOOK, by fxb_ordr_sqnc          *)
  nRows,     (* its rows are 1..nRows                                      *)
  fod,       (* order book fod_fo_ordr_dtls, by order reference            *)
  queue,     (* the System V queue: the orders its messages carry          *)
  pc,        (* where the service goroutine is                             *)
  qOpen,     (* *GlobalQId holds the id of the queue (it starts as 0)      *)
  tranType,  (* Transaction_manager.TranType: 0, LOCAL or REMOTE           *)
  txOpen,    (* the database has an open transaction of ours               *)
  rec,       (* the row this iteration read into Xchngbook, 0 before       *)
  pkt,       (* the order packed in Q_packet, 0 while it is all zeros      *)
  fresh,     (* Q_packet was packed by this iteration                      *)
  packs,     (* history: times each order was packed (2 = twice or more)   *)
  writes,    (* history: times each order was queued (2 = twice or more)   *)
  lastRead,  (* history: the last order taken off the queue                *)
  deaths,    (* history: times the process ended                           *)
  packFails  (* history: failed calls of FnPackOrdnryOrdToNse              *)

book   == <<fxb, nRows, fod>>
memory == <<qOpen, tranType, rec, pkt, fresh>>
hist   == <<packs, writes, lastRead, deaths, packFails>>
vars   == <<fxb, nRows, fod, queue, pc, qOpen, tranType, txOpen, rec, pkt,
            fresh, packs, writes, lastRead, deaths, packFails>>

Seqs  == 1 .. MaxSeq
NoRef == "no reference"
NoRow == [ref |-> NoRef, ctr |-> 0, kind |-> "clean", stts |-> "none"]
Rows  == [ref : Refs \cup {NoRef}, ctr : Nat, kind : Kinds,
          stts : {"none", "R", "Q", "J"}]

Labels == {"down", "create_queue", "bat_init", "can_write", "begin",
           "seq_to_omd", "ref_to_ord", "upd_xchngbk", "upd_ordrbk",
           "get_ext_cnt", "rjct_rcrd", "pack", "commit", "write", "abort"}

(* The two transaction types of tux_lib.go: LOCAL_TRNSCTN, REMOTE_TRNSCTN.  *)
LocalTran  == 1
RemoteTran == 2

AtMostTwo(n) == IF n < 2 THEN n + 1 ELSE 2

(* An operator named X_Bug is X with a planted bug: the README says which   *)
(* property each of them breaks.  None of them is part of Next.             *)

(***************************************************************************)
(* Initial state: an empty database and queue, the process just started.    *)
(***************************************************************************)
Init ==
  /\ fxb = [s \in Seqs |-> NoRow]
  /\ nRows = 0
  /\ fod = [r \in Refs |-> [ctr |-> 0, stts |-> "none"]]
  /\ queue = <<>>
  /\ pc = "create_queue"
  /\ qOpen = FALSE
  /\ tranType = 0
  /\ txOpen = FALSE
  /\ rec = 0
  /\ pkt = 0
  /\ fresh = FALSE
  /\ packs = [s \in Seqs |-> 0]
  /\ writes = [s \in Seqs |-> 0]
  /\ lastRead = 0
  /\ deaths = 0
  /\ packFails = 0

(***************************************************************************)
(* The process ends: the service returned -1 and main calls Fatalf, it      *)
(* panicked, or it was killed.  Its memory is gone and the database rolls   *)
(* back the transaction of the dead session, in which nothing was written.  *)
(***************************************************************************)
Die ==
  /\ pc' = "down"
  /\ qOpen' = FALSE
  /\ tranType' = 0
  /\ txOpen' = FALSE
  /\ rec' = 0
  /\ pkt' = 0
  /\ fresh' = FALSE
  /\ deaths' = deaths + 1
  /\ UNCHANGED <<book, queue, packs, writes, lastRead, packFails>>

Goto(l) == pc' = l

(***************************************************************************)
(* Fn_bat_init.  A failed CreateQueue is only logged: the service goes on   *)
(* with *GlobalQId = 0.  A failed query of the pipe, the trader or the      *)
(* trade date ends the service.                                             *)
(***************************************************************************)
CreateQueue ==
  /\ pc = "create_queue"
  /\ qOpen' \in IF MayFail THEN BOOLEAN ELSE {TRUE}
  /\ Goto("bat_init")
  /\ UNCHANGED <<book, queue, tranType, txOpen, rec, pkt, fresh, hist>>

Fn_bat_init ==
  /\ pc = "bat_init"
  /\ \/ /\ Goto("can_write")
        /\ UNCHANGED <<book, queue, memory, txOpen, hist>>
     \/ MayFail /\ Die

FnCanWriteToQueue_OneTooMany ==
  /\ pc = "can_write" /\ qOpen /\ Len(queue) <= QLimit
  /\ Goto("begin")
  /\ UNCHANGED <<book, queue, memory, txOpen, hist>>

FnCanWriteToQueue_Inverted ==
  /\ pc = "can_write" /\ qOpen /\ Len(queue) >= QLimit
  /\ Goto("begin")
  /\ UNCHANGED <<book, queue, memory, txOpen, hist>>

(***************************************************************************)
(* CLN_PACK_CLNT, top of the loop.  While the queue is full, or its count   *)
(* cannot be read, the loop spins on this test: that is stuttering here.    *)
(***************************************************************************)
FnCanWriteToQueue ==
  /\ pc = "can_write"
  /\ qOpen
  /\ Len(queue) < QLimit
  /\ Goto("begin")
  /\ UNCHANGED <<book, queue, memory, txOpen, hist>>

(***************************************************************************)
(* FnBeginTran: a live database gives a LOCAL transaction, a failed ping    *)
(* sets REMOTE and still returns 0.                                         *)
(***************************************************************************)
FnBeginTran ==
  /\ pc = "begin"
  /\ \/ /\ tranType' = LocalTran
        /\ txOpen' = TRUE
        /\ Goto("seq_to_omd")
        /\ UNCHANGED <<book, queue, qOpen, rec, pkt, fresh, hist>>
     \/ /\ MayFail
        /\ tranType' = RemoteTran
        /\ Goto("seq_to_omd")
        /\ UNCHANGED <<book, queue, txOpen, qOpen, rec, pkt, fresh, hist>>
     \/ MayFail /\ Die

(***************************************************************************)
(* fnSeqToOmd and the tests of fnGetNxtRec that follow it: take the row of  *)
(* the smallest sequence number among the requested ones.  No such row is   *)
(* an error like any other.  A row already processed by the RMS and a row   *)
(* that is not an ordinary order are left as they are and return 0.         *)
(***************************************************************************)
Requested == {s \in 1 .. nRows : fxb[s].stts = "R"}

IsNextRequested_Largest(s) == s \in Requested /\ \A t \in Requested : t <= s

IsNextRequested(s) == s \in Requested /\ \A t \in Requested : s <= t

fnSeqToOmd ==
  /\ pc = "seq_to_omd"
  /\ \/ \E s \in Requested :
          /\ IsNextRequested(s)
          /\ rec' = s
          /\ Goto(IF fxb[s].kind \in SkippedKinds THEN "commit" ELSE "ref_to_ord")
     \/ /\ Requested = {} \/ MayFail
        /\ rec' = rec
        /\ Goto("abort")
  /\ UNCHANGED <<book, queue, qOpen, tranType, txOpen, pkt, fresh, hist>>

(***************************************************************************)
(* fnRefToOrd reads the order book (the row lock of FOR UPDATE NOWAIT is    *)
(* released when its one-statement transaction ends) and the client master; *)
(* fnGetNxtRec then compares the modification counters of the two books.    *)
(***************************************************************************)
CountersMatch(s) == fxb[s].ctr = fod[fxb[s].ref].ctr

fnRefToOrd ==
  /\ pc = "ref_to_ord"
  /\ \/ CountersMatch(rec) /\ Goto("upd_xchngbk")
     \/ (~CountersMatch(rec) \/ MayFail) /\ Goto("abort")
  /\ UNCHANGED <<book, queue, memory, txOpen, hist>>

(***************************************************************************)
(* fnUpdXchngbk writes a status in every row that carries the reference and *)
(* the modification counter of the record, whatever its status is.          *)
(***************************************************************************)
SetPlcdStts(st) ==
  fxb' = [s \in Seqs |->
            IF s <= nRows /\ fxb[s].ref = fxb[rec].ref /\ fxb[s].ctr = fxb[rec].ctr
            THEN [fxb[s] EXCEPT !.stts = st]
            ELSE fxb[s]]

fnUpdXchngbk_NoRow ==
  /\ pc = "upd_xchngbk"
  /\ Goto("upd_ordrbk")
  /\ UNCHANGED <<book, queue, memory, txOpen, hist>>

fnUpdXchngbk ==
  /\ pc = "upd_xchngbk"
  /\ \/ SetPlcdStts("Q") /\ Goto("upd_ordrbk")
     \/ MayFail /\ UNCHANGED fxb /\ Goto("abort")
  /\ UNCHANGED <<nRows, fod, queue, memory, txOpen, hist>>

fnUpdOrdrbk_NoRow ==
  /\ pc = "upd_ordrbk"
  /\ Goto("get_ext_cnt")
  /\ UNCHANGED <<book, queue, memory, txOpen, hist>>

fnUpdOrdrbk ==
  /\ pc = "upd_ordrbk"
  /\ \/ /\ fod' = [fod EXCEPT ![fxb[rec].ref].stts = "Q"]
        /\ Goto("get_ext_cnt")
     \/ MayFail /\ UNCHANGED fod /\ Goto("abort")
  /\ UNCHANGED <<fxb, nRows, queue, memory, txOpen, hist>>

(***************************************************************************)
(* The contract: only "NFO" pipes are served, and the three lookups of      *)
(* fnGetExtCnt must find their rows.  Both order books say Q by now.         *)
(***************************************************************************)
fnGetExtCnt ==
  /\ pc = "get_ext_cnt"
  /\ \/ /\ PipeIsNFO
        /\ fxb[rec].kind # "noContract"
        /\ Goto(IF fxb[rec].kind = "noToken" THEN "rjct_rcrd" ELSE "pack")
     \/ /\ ~PipeIsNFO \/ fxb[rec].kind = "noContract" \/ MayFail
        /\ Goto("abort")
  /\ UNCHANGED <<book, queue, memory, txOpen, hist>>

(* fnRjctRcrd rejects the row, and fnGetNxtRec goes on to pack it.          *)
fnRjctRcrd ==
  /\ pc = "rjct_rcrd"
  /\ \/ SetPlcdStts("J") /\ Goto("pack")
     \/ MayFail /\ UNCHANGED fxb /\ Goto("abort")
  /\ UNCHANGED <<nRows, fod, queue, memory, txOpen, hist>>

FnPackOrdnryOrdToNse_FillFirst ==
  /\ pc = "pack"
  /\ pkt' = rec
  /\ \/ /\ fxb[rec].kind \notin {"unpackable", "blankFlag"}
        /\ fresh' = TRUE
        /\ packs' = [packs EXCEPT ![rec] = AtMostTwo(@)]
        /\ UNCHANGED packFails
     \/ /\ fxb[rec].kind = "unpackable" \/ MayFail
        /\ packFails' = packFails + 1
        /\ UNCHANGED <<fresh, packs>>
  /\ Goto("commit")
  /\ UNCHANGED <<book, queue, qOpen, tranType, txOpen, rec, writes, lastRead, deaths>>

(***************************************************************************)
(* FnPackOrdnryOrdToNse fills Q_packet last, so a failure leaves it as it   *)
(* was, and fnGetNxtRec logs the failure and returns 0.                     *)
(***************************************************************************)
FnPackOrdnryOrdToNse ==
  /\ pc = "pack"
  /\ \/ /\ fxb[rec].kind \notin {"unpackable", "blankFlag"}
        /\ pkt' = rec
        /\ fresh' = TRUE
        /\ packs' = [packs EXCEPT ![rec] = AtMostTwo(@)]
        /\ Goto("commit")
        /\ UNCHANGED <<book, queue, qOpen, tranType, txOpen, rec, writes,
                       lastRead, deaths, packFails>>
     \/ /\ fxb[rec].kind # "blankFlag"
        /\ fxb[rec].kind = "unpackable" \/ MayFail
        /\ packFails' = packFails + 1
        /\ Goto("commit")
        /\ UNCHANGED <<book, queue, memory, txOpen, packs, writes, lastRead, deaths>>
     \/ fxb[rec].kind = "blankFlag" /\ Die

FnCommitTran_GoesOn ==
  /\ pc = "commit"
  /\ txOpen' = FALSE
  /\ Goto("write") \/ (tranType = LocalTran /\ MayFail /\ Goto("can_write"))
  /\ UNCHANGED <<book, queue, memory, hist>>

(***************************************************************************)
(* FnCommitTran: a LOCAL transaction may fail to commit, a REMOTE one is    *)
(* skipped.  FnAbortTran: whether its rollback succeeds or not, the service *)
(* returns -1.                                                              *)
(***************************************************************************)
FnCommitTran ==
  /\ pc = "commit"
  /\ \/ /\ txOpen' = FALSE
        /\ Goto("write")
        /\ UNCHANGED <<book, queue, memory, hist>>
     \/ tranType = LocalTran /\ MayFail /\ Die

FnAbortTran == pc = "abort" /\ Die

WriteToQueue_EmptyPacket ==
  /\ pc = "write"
  /\ queue' = Append(queue, pkt)
  /\ writes' = [s \in Seqs |-> IF s = pkt THEN AtMostTwo(writes[s]) ELSE writes[s]]
  /\ rec' = 0
  /\ fresh' = FALSE
  /\ Goto("can_write")
  /\ UNCHANGED <<book, qOpen, tranType, txOpen, pkt, packs, lastRead, deaths, packFails>>

(***************************************************************************)
(* WriteToQueue sends Q_packet, whoever packed it.  An all-zero packet has  *)
(* message type 0, which msgsnd refuses; any failure ends the service.      *)
(***************************************************************************)
WriteToQueue ==
  /\ pc = "write"
  /\ \/ /\ pkt # 0
        /\ queue' = Append(queue, pkt)
        /\ writes' = [writes EXCEPT ![pkt] = AtMostTwo(@)]
        /\ rec' = 0
        /\ fresh' = FALSE
        /\ Goto("can_write")
        /\ UNCHANGED <<book, qOpen, tranType, txOpen, pkt, packs, lastRead,
                       deaths, packFails>>
     \/ (pkt = 0 \/ MayFail) /\ Die

(***************************************************************************)
(* The environment.                                                         *)
(***************************************************************************)
Crash == MayCrash /\ pc # "down" /\ Die

Restart ==
  /\ pc = "down"
  /\ deaths <= MaxRestarts
  /\ Goto("create_queue")
  /\ UNCHANGED <<book, queue, memory, txOpen, hist>>

(* The OMS inserts one row in both books, requested, with the next sequence *)
(* number and the first modification counter.                               *)
PlaceOrder(r, k) ==
  /\ nRows < MaxSeq
  /\ fod[r].stts = "none"
  /\ nRows' = nRows + 1
  /\ fxb' = [fxb EXCEPT ![nRows + 1] =
               [ref |-> r, ctr |-> 1, kind |-> k, stts |-> "R"]]
  /\ fod' = [fod EXCEPT ![r] = [ctr |-> 1, stts |-> "R"]]
  /\ UNCHANGED <<queue, pc, memory, txOpen, hist>>

(* The OMS asks for a modification: a new exchange book row with the next   *)
(* counter and a request type that is not NEW, and the order book follows.  *)
ModifyOrder(r) ==
  /\ MayModify
  /\ nRows < MaxSeq
  /\ fod[r].stts # "none"
  /\ nRows' = nRows + 1
  /\ fxb' = [fxb EXCEPT ![nRows + 1] =
               [ref |-> r, ctr |-> fod[r].ctr + 1, kind |-> "unpackable", stts |-> "R"]]
  /\ fod' = [fod EXCEPT ![r] = [ctr |-> fod[r].ctr + 1, stts |-> "R"]]
  /\ UNCHANGED <<queue, pc, memory, txOpen, hist>>

(* The exchange client receives the message at the head of the queue.       *)
Receive ==
  /\ queue # <<>>
  /\ lastRead' = Head(queue)
  /\ queue' = Tail(queue)
  /\ UNCHANGED <<book, pc, memory, txOpen, packs, writes, deaths, packFails>>

(***************************************************************************)
(* Specification.                                                           *)
(***************************************************************************)
Service ==
  \/ CreateQueue \/ Fn_bat_init \/ FnCanWriteToQueue \/ FnBeginTran
  \/ fnSeqToOmd \/ fnRefToOrd \/ fnUpdXchngbk \/ fnUpdOrdrbk
  \/ fnGetExtCnt \/ fnRjctRcrd \/ FnPackOrdnryOrdToNse
  \/ FnCommitTran \/ FnAbortTran \/ WriteToQueue

Oms ==
  \/ \E r \in Refs, k \in OmsKinds : PlaceOrder(r, k)
  \/ \E r \in Refs : ModifyOrder(r)

Next == Service \/ Crash \/ Restart \/ Oms \/ Receive

Spec == Init /\ [][Next]_vars

(* The goroutine keeps running while its process does, and the exchange     *)
(* client keeps taking messages.                                            *)
FairSpec == Spec /\ WF_vars(Service) /\ WF_vars(Receive)

(***************************************************************************)
(* Invariants.                                                              *)
(***************************************************************************)

(* The type of every variable: the statuses of fxb_plcd_stts and            *)
(* fod_ordr_stts the service knows, the queue a sequence of orders.         *)
TypeOK ==
  /\ fxb \in [Seqs -> Rows]
  /\ nRows \in 0 .. MaxSeq
  /\ fod \in [Refs -> [ctr : Nat, stts : {"none", "R", "Q"}]]
  /\ queue \in Seq(Seqs)
  /\ pc \in Labels
  /\ qOpen \in BOOLEAN
  /\ tranType \in {0, LocalTran, RemoteTran}
  /\ txOpen \in BOOLEAN
  /\ rec \in Seqs \cup {0}
  /\ pkt \in Seqs \cup {0}
  /\ fresh \in BOOLEAN
  /\ packs \in [Seqs -> 0 .. 2]
  /\ writes \in [Seqs -> 0 .. 2]
  /\ lastRead \in Seqs \cup {0}
  /\ deaths \in Nat
  /\ packFails \in Nat

Marked(s) == fxb[s].stts \in {"Q", "J"}

(* An order is packed at most once in the life of the database, whatever    *)
(* crashes, failed commits, modifications and restarts come between: its    *)
(* row is marked by fnUpdXchngbk before FnPackOrdnryOrdToNse sees it.       *)
PackedAtMostOnce == \A s \in Seqs : packs[s] <= 1

(* The count tested by FnCanWriteToQueue at the top of the loop is stale    *)
(* when WriteToQueue runs, a transaction later; with this service as the    *)
(* only writer the queue still never holds more than the limit.             *)
QueueBounded == Len(queue) <= QLimit

(* Orders reach the exchange client in the order of fxb_ordr_sqnc, with     *)
(* repetitions and gaps but never an older order after a newer one.         *)
OrderPreserved ==
  /\ \A i \in 1 .. Len(queue) : lastRead <= queue[i]
  /\ \A i, j \in 1 .. Len(queue) : i <= j => queue[i] <= queue[j]

(* When Q_packet is about to be written, it was packed by this iteration    *)
(* exactly when it was never queued before: the second and later copies of  *)
(* an order in the queue all come from iterations that packed nothing.      *)
OnlyStalePacketsRepeat ==
  pc = "write" /\ pkt # 0 => (fresh <=> writes[pkt] = 0)

(* An order marked in the exchange book, no longer in the hands of the      *)
(* service and never queued is lost.  Every lost order has a cause of its   *)
(* own: the process ended once, or packing failed once.                     *)
Lost == {s \in Seqs : Marked(s) /\ writes[s] = 0 /\ s # rec}

LossBounded == Cardinality(Lost) <= deaths + packFails

(* The books disagree on an order when its last row is marked in the        *)
(* exchange book and the order book does not say so; between fnUpdXchngbk   *)
(* and fnUpdOrdrbk, or the abort in place of the latter, they have to.      *)
(* Nothing repairs a disagreement, so each one that lasts has a cause of    *)
(* its own, an end of the process, and one end causes at most one.          *)
Disagreeing ==
  {s \in 1 .. nRows : /\ Marked(s) /\ CountersMatch(s)
                      /\ fod[fxb[s].ref].stts # "Q"
                      /\ ~(rec = s /\ pc \in {"upd_ordrbk", "abort"})}

DisagreementsHaveCauses == Cardinality(Disagreeing) <= deaths

(***************************************************************************)
(* Liveness.                                                                *)
(***************************************************************************)

(* A requested order is eventually picked up, or the process ends, or the   *)
(* order waits behind an older row that the service steps over: such a row  *)
(* stays requested, is the smallest again, and starves every later one.     *)
Blocked(s) == \E t \in 1 .. nRows :
                t <= s /\ fxb[t].stts = "R" /\ fxb[t].kind \in SkippedKinds

RequestedIsPickedUp ==
  \A s \in Seqs :
    (pc # "down" /\ qOpen /\ fxb[s].stts = "R")
      ~> (fxb[s].stts # "R" \/ pc = "down" \/ Blocked(s))

(* Starvation is for good: an order that waits behind such a row is never   *)
(* marked, and so never packed, whatever fails, dies, restarts or is        *)
(* modified.  That holds of every order placed after the row.               *)
Starved(s) == fxb[s].stts = "R" /\ Blocked(s)

StarvedForEver == [][\A s \in Seqs : Starved(s) => Starved(s)']_vars

(***************************************************************************)
(* What the documentation promises and the code does not do: each of these  *)
(* is refuted by a run of its own.                                          *)
(***************************************************************************)

(* cln_pack_clnt.go:237, "an infinite loop to keep the service running".    *)
ServiceKeepsRunning == pc # "down"

(* tux_lib.go:32, "FnAbortTran: Rolls back the transaction": the record of  *)
(* an aborted iteration is requested again.                                 *)
AbortUndoesTheUpdates ==
  [][pc = "abort" /\ pc' = "down" /\ rec # 0 => fxb'[rec].stts = "R"]_vars

(* tux_lib.go:68, the transaction maintains the isolation: what fnRefToOrd  *)
(* read and the counter test accepted still holds when the updates run.     *)
ReadsStayValid == pc \in {"upd_xchngbk", "upd_ordrbk"} => CountersMatch(rec)

(* cln_pack_clnt.go:459, "If not, the record will be rejected": a rejected  *)
(* order is not sent to the exchange.                                       *)
RejectedIsNotSent == \A i \in 1 .. Len(queue) : fxb[queue[i]].stts # "J"

(* cln_pack_clnt.go:227, "Writes the fetched data to the system queue": the *)
(* packet written holds the record this iteration fetched.                  *)
WritesTheFetchedRecord == pc = "write" => pkt = rec
================================================================================
