# Verification of the TAP data forwarder

The program takes the orders an order management system (OMS) has put in
PostgreSQL, packs each into the exchange's binary format, hands the packets
through a System V message queue to a second goroutine, and writes them to the
exchange gateway (TAP) over TCP. This directory holds TLA+ models of that code,
the TLC runs that check them and TLAPS proofs of what matters most. Paths below
are relative to `src/`.

## 1. Inventory

| Component | Source | State it keeps | Operations |
|---|---|---|---|
| Process | `cmd/main/main.go`, `internal/initializers/Service_initializer.go` | `GlobalQId`, `InitialQId`, `mtype*`, shared by pointer | starts two goroutines; a non-zero result of either calls `Fatalf`, which ends both |
| Packing service | `internal/app/pack_clnt/cln_pack_clnt.go` | `Xchngbook`, `Orderbook`, `Pipe_mstr`, `Nse_contract`, `Q_packet` and the other message structures, one of each for the whole life of the process | `Fn_bat_init`, `CLN_PACK_CLNT`, `fnGetNxtRec`, `fnSeqToOmd`, `fnRefToOrd`, `fnUpdXchngbk`, `fnUpdOrdrbk`, `fnGetExtCnt`, `fnRjctRcrd` |
| Transaction manager | `util/tux_lib.go` | `TranType`, `Tran` | `FnBeginTran`, `FnCommitTran`, `FnAbortTran` |
| Packing library | `internal/app/packing_service/fo_exg_pack_lib.go` | writes the structures of the packing service | `FnPackOrdnryOrdToNse`, `Fn_orstonse_cntrct_desc` |
| Sequence numbers | `util/TypeConversionUtil/type_conversion_util.go` | a row of `fsp_fo_seq_plcd` per pipe and trade date | `GetResetSequence`; conversions |
| Message queue | `util/MessageQueue/MessageQueue.go`, `message_queue.c` | the kernel's queue: survives the process | `CreateQueue`, `WriteToQueue`, `ReadFromQueue`, `FnCanWriteToQueue`; `FnFlushQueue`, `DestroyQueue` have no caller |
| Exchange client | `internal/app/exchange_service/cln_esr_clnt.go` | a TCP connection, `wg`, `exitcount` | `ClnEsrClnt`, `crt_tap_con`, `send_thrd` / `fn_writen`, `rcv_thrd` / `readXchngSocket` / `readNBytes` |
| Log on, log off | `internal/app/exchange_connection/` | the message structures of one call; where it is in its checks | `LogOnToTap`: exchange status, password, login row, masters, sequence number, queue, write, test read. `Fn_logoff_from_TAP`: pipe and trade date, sequence number, queue, write, test read. `Service_initializer.go` offers both, `main` calls neither |
| Database tables | PostgreSQL | `FXB_FO_XCHNG_BOOK` (exchange book), `fod_fo_ordr_dtls` (order book), masters | SQL of the services and of the OMS |
| Rest | `util/OrderConversion`, `internal/models`, `util/password_utils.go`, `internal/database`, `util/environment.go`, loggers, containers | none that changes | conversions, layout, configuration, output |

`esr_lib.go`, `xchng_logon.go`, `sign_on_request_out.go` and `sys_info_out.go`
are commented out from the first line to the last. `CPP_Server/server.cpp`
stands in for the exchange in tests.

**How they interact.** The packing service reads and marks rows of both books,
packs one order at a time into `Q_packet` and sends it to the queue. `send_thrd`
receives from the same queue, which it finds through `*GlobalQId`: the packing
goroutine writes that variable and `send_thrd` reads it, unsynchronised.
`rcv_thrd` shares the connection with `send_thrd`. Packing, log on and log off
take sequence numbers from the same row and write to the same queue; log on and
log off end with a read of that queue, as a test, and so compete with
`send_thrd`. The process is one unit of failure: whatever ends one service ends
all of them.

**What is hard here.** Statements run on `cpcm.Db`, not on the transaction
`FnBeginTran` opens, so every update is durable at once and the OMS interleaves
between any two. Rows are marked before the packet exists. The room in the queue
is tested long before it is used. The message structures outlive an order, and a
packing that fails leaves them half written. Reads and writes of the socket may
be partial; the queue is destructive, and the test reads of log on and log off take whatever is
at its head; goroutines end without telling each other; nothing has a deadline. `PROJECT.json` lists these as hazards, at their lines,
each with the properties that would catch it going wrong.

**What makes each component correct.** Packing service: no order is packed
twice, orders keep their sequence, an order is lost only with a cause, the books
agree, every requested order is picked up. Queue: bounded, first in first out.
Packing library: a packet is of one order. Sequence numbers: no gap, no early
reuse, no row that gets stuck. Exchange client: whole orders on the wire, frames
kept in step, bounded loss, no goroutine that waits on one that is gone. The
services that share the queue: a bounded overrun of the limit, one message per
sequence number, no order taken by a test read without a trace. The whole
program: a requested order is forwarded once or lost with a cause.

## 2. Modules

| Module | Models | Runs | Proofs |
|---|---|---|---|
| `PackClient` | packing service, transactions, the queue's writing side, the OMS, crash and restart | `pack_client` and five refuted claims | `PackClientProofs`, `PackClientLossProofs` |
| `Packing` | the stages of `FnPackOrdnryOrdToNse` on the shared structures | `packing`, one refuted claim | `PackingProofs` |
| `Counter` | the counter `GetResetSequence` promises its callers: an abstract specification | as a property of `sequence_number` | |
| `SequenceNumber` | `GetResetSequence` called by several sessions; implements `Counter` | `sequence_number` | `SequenceNumberProofs` |
| `EsrClient` | `ClnEsrClnt`, `send_thrd`, `rcv_thrd`, both byte streams, the exchange | `esr_client` | `EsrClientProofs` |
| `TapServices` | packing, log on and log off as writers of one queue, with `send_thrd` as its reader | `tap_services` | `TapServicesProofs` |
| `Delivery` | what the program promises an order: an abstract specification | as a property of `data_forward` | |
| `DataForward` | the program `main` starts: `PackClient` and `EsrClient` in one process; implements `Delivery` | `data_forward` | `DataForwardProofs`, `DataForwardLossProofs` |

`MC*.tla` only give constants their values. In every module an operator named
`X_Bug` is the operator `X` with a planted bug; no specification uses one.

### PackClient

One iteration of `CLN_PACK_CLNT` is split at every database statement and queue
call, since that is where other sessions interleave; the label `pc` names the
handler about to run.

| Code | Model |
|---|---|
| rows of the exchange book, `fxb_ordr_sqnc` | `fxb[1..nRows]`: reference, modification counter, kind, status |
| rows of the order book | `fod[reference]`: counter, status |
| the kernel's queue | `queue`, the orders its messages carry |
| `*GlobalQId` set or still 0 | `qOpen` |
| `TranType`, the open transaction | `tranType`, `txOpen` |
| `Xchngbook`, `Q_packet` | `rec`, `pkt` (0 while all zeros), `fresh`: packed by this iteration |
| `return -1` up to `Fatalf`, a panic, `kill -9` | `Die`: memory and transaction go, books and queue stay |

An order's *kind* stands for the columns the handlers test: processed, not
ordinary, without contract, without token, not packable, with a blank flag, or
clean. A modification by the OMS adds a row with the next counter and a request
type the packing library refuses, so its kind is unpackable. Spinning on a full
queue is stuttering. `packs`, `writes`, `lastRead`, `deaths` and `packFails` are
history: no guard reads `packs`, `writes`, `lastRead` or `packFails`, and
`deaths` only bounds the restarts.

Abstractions: a failed `CreateQueue` leaves `*GlobalQId` 0, which the model
treats as no queue, although the kernel may give the id 0 to a queue of another
program. Rows of other pipes and dates are not in the model: every query
excludes them.

### Packing

A call is a sequence of stages, cut where it may return -1. Field values copied
without a test are abstracted to *the number of the call that wrote them*, so a
value left behind by an earlier order is visible as an older number. Flags, the
date of a D order, the copies inside the body and the checksum's input are
tracked as the code builds them. A missing trader id or client type, a failed
`GetResetSequence` with and without its update, and every refusal by an order's
columns are there. `TraderId` is a constant because the pipe's row is read once
per process; with a padded id no order of the process is packed, since it is
trimmed at line 198 and not at line 371.

### Counter and SequenceNumber

Each of the two `UPDATE ... RETURNING` statements is one atomic step and nothing
joins them. `Abort` and `LoseNumber` are the failures after which the row has
changed and the caller has no number. `Capacity` is the largest number the
column holds: `util/docs/Tables Used in this Application.txt` declares it
`NUMBER(8)`, below `MAX_SEQ_NUM`, in which case the reset is out of reach and
the increment fails when the column is full; the proofs cover every capacity.

`Counter` does in one step what a call does in two: it takes the next number or,
after the last, 0. `Shown` maps the row to it: the row, but the last number while
a session that has taken the row to the maximum is about to reset it, and the
maximum (used up) when that session was aborted. An increment below the maximum
is then a `Take`, an increment to it a stutter, the reset `StartAgain`, an abort a
`Fail`.

### EsrClient

Bytes are counted in units: an order is `MsgLen` units, a frame announces its
length in its first unit. `WriteSome(n)` and `readNBytes(n)` move any number of
units `conn.Write` or `conn.Read` may accept. `wire` is the last two orders of
units the exchange has received on this connection, `inbox` what it has sent and
nobody has read. The
messages of the queue are orders, logins, logoffs and messages of unknown type.
`send_thrd` starts with the label "no_id": until `ReadGlobalQId` it reads the old 0
from `*GlobalQId`, which the packing goroutine writes without synchronisation.
The one *temporary* error of a write is the connection's time-out
(`WriteTimesOut`): units accepted with it may arrive uncounted and the write is
retried, on a connection that is gone. A 300-byte sign-on response ends
`rcv_thrd`, since `binary.Read` wants the 308 bytes of its structure; frames of
338 bytes are the only known ones.
`exitcount` never becomes 1, so the branch that tests it is not there. An order
the socket has accepted counts as sent, as it does for the code, even if the
peer is already gone.

### TapServices

| Code | Model |
|---|---|
| a goroutine per service `Service_initializer.go` offers | `c \in Services`, `Kind[c]`, `pc[c]` ("idle": not called) |
| the steps of `LogOnToTap` before the number | `EsrStatus`, `PasswordAge`, `LoginRow`, `Masters` |
| the queries of `Fn_logoff_from_TAP` before it | `LogOffRows` |
| `GetResetSequence` and the field it goes to | `TakeNumber`, `PackOrder`: `seqRow`, `num[c]`, -1 where it failed |
| `CreateQueue`, `FnCanWriteToQueue`, `WriteToQueue` | `CreateQueue`, `FnCanWriteToQueue`, `WriteOrder`, `WriteRequest` |
| the `ReadFromQueue` at the end of both | `ReadBack`: takes the head of `queue`, whosever it is, or is interrupted |
| `send_thrd` | `SendThrd`; `senderUp` says whether it runs at all |

Only the steps another service can see are there of the packing service:
`PackClient` has the rest. A check whose outcome depends on database rows passes
or fails by choice. Three facts of the code shape the model. A query without a
row is no error of `Scan`, so the branch of an expired password, which waits for
`gorm.ErrRecordNotFound`, is never taken. `opm_login_stts` is read and never
set, so a second log on is not kept out by the first. Log on and log off take
their number *before* they wait for room and use it unchecked, the packing
service after.

Abstractions: fields without a test (trader id, versions, time stamps, the
password) and byte order are left out; a missing row of `fsp_fo_seq_plcd`, which
gives the number 0 for ever, is not in the model, and `seqRow` stays far from
its maximum (module `SequenceNumber`). Writers in other processes that use the
same queue key are not modelled. `orders`, `stolen`, `strays` and `left` are
history; only `orders` is read by a guard, as a bound.

### Delivery and DataForward

`DataForward` has the variables of both services and instantiates their modules.
An action of the program is an action of one module with the other's variables
unchanged, or one of each where they meet:

| Code | Model |
|---|---|
| the queue, `*GlobalQId`, the process | `queue`, `qOpen`, `deaths`, variables of both modules |
| `msgrcv` in `send_thrd` | `Pack!Receive /\ Client!TakeOrder` |
| `Fatalf` after a `return -1` of the packing service, a panic | `Pack!Service` to "down" with `Client!Die` |
| `Fatalf` after a failed dial | `Client!Dial` with `Pack!Die` |
| `kill -9`, a new start | `Crash`, `Restart`, of both modules at once |

What `PackClient` and `EsrClient` leave to an environment is here the other
service: the reader of the queue, the creation of the queue, the messages in it,
the death that comes from elsewhere. `main` does not start log on and log off, so
the messages are orders.

`Delivery` gives every order a status: none, requested, in flight, forwarded or
lost. Only the oldest requested order is taken, only an order in flight is
forwarded or lost, and no order is forwarded after a newer one. `Statuses` maps
the program to it: forwarded if `fn_writen` has returned for it; in flight while
the queue, `fn_writen` or, once marked, `Xchngbook` or `Q_packet` holds it; lost
if it is marked and nowhere. An order is forwarded when the socket first accepts
all of it. A stale `Q_packet` sent again is a stutter: its order is forwarded
already, or still in flight. `Delivery` is therefore silent about second copies on
the wire; `CopiesFollowTheirOrder` is about them.

## 3. Runs and bounds

| Run | Bounds | Why they are enough |
|---|---|---|
| `pack_client` | 2 orders, 3 rows, queue limit 2, 1 restart, all failures | a modification of an order and a third row; a queue that is full while an iteration runs; a death before, between and after every mark, with a life after it |
| five `V*` runs of PackClient | 2 rows, queue limit 1 | one step more than each counterexample needs |
| `packing` | 4 calls, 14 kinds of order | a packed order, up to two failed ones at different stages and a packed one, of every product and validity |
| `good_till_date_is_set` | 3 calls | one D order |
| `sequence_number` | 3 sessions, maximum 8, capacity 12, 2 aborts | the row passes the maximum, gets stuck after an abort, runs into the capacity |
| `esr_client` | 3 messages, orders of 2 units, header of 2, frames of 1, 3 and 4 units, 2 frames, 1 restart | an order split in two between two others; a short, an unknown and a known frame, each after another; a reconnect |
| `tap_services` | one service of each kind, queue limit 2, 3 sequence numbers, 2 calls, 3 orders, 1 end of the process, with and without `send_thrd` | all three see the last free place; a log on and a log off overlap or follow each other; a copy of an order next to a new one; a test read that meets an order, its own message, or nothing; a restart on a queue that is not empty |
| `data_forward` | 2 orders, clean, stepped over or not packable, queue limit 1, an order of 2 units, 1 short frame, 1 restart | an order in `fn_writen`, written in part, while another is marked and packed; a copy of an order on the wire; a full queue; a client that has returned; two lives of the process. Modifications, longer frames and other messages have their own runs |

No symmetry is used: the runs with liveness could not use it and the others do
not need it. `CHECK_DEADLOCK FALSE` is set everywhere, because each model stops
at its bounds (no more rows, messages, calls or restarts) and the real client
stops for ever once `ClnEsrClnt` has returned.

### What the passing runs show

`pack_client`
- `PackedAtMostOnce`: no order is packed twice, across crashes and restarts.
- `QueueBounded`: the stale room test still bounds the queue, as long as the
  packing service is its only writer.
- `OrderPreserved`: orders arrive by sequence number; repetitions and gaps are
  possible, an older order after a newer one is not.
- `OnlyStalePacketsRepeat`: an order is in the queue a second time only because
  an iteration that packed nothing wrote the old `Q_packet` again.
- `LossBounded`: every lost order has its own death of the process or its own
  failed packing.
- `DisagreementsHaveCauses`: apart from the order between its two updates, the
  books disagree on no more orders than the process has ended times. A failure
  there ends the process, nothing repairs what it leaves, and no restart adds to it.
- `RequestedIsPickedUp`: a requested order is picked up unless the process ends
  or a row the service steps over comes first.
- `StarvedForEver`: such a row starves all later ones for good. Nothing that fails,
  dies, restarts or is modified ever marks one of them.

`packing`
- `PacketIsOneOrder`, `FlagsOfTheOrder`: no part of a packet is left over from
  an order before it, packed or failed.
- `NumbersWithoutGaps`: a failed packing takes no sequence number.
- `ChecksumLagsOnePacket`: the checksum covers the body of this order with the
  header, contract and flags of the *previous packet*, never of a failed order.
  A receiver that checks it over the message it got will not find it right.
- `OnlyPackableArePacked`: the tests are spread over all stages, and no order that
  fails one of them becomes a packet: what `PackClient` calls unpackable is.

`sequence_number`
- `OneResetAtATime`, `NoEarlyReuse`: test and reset are separate statements, and
  still no interleaving resets twice or restarts the numbers early, because the
  test is for equality and only one session sees the maximum.
- `FullRowIsBeingReset`: the price of that test. The row is stuck past the
  maximum only if the one session that saw it was aborted.
- `ActsAsOneStep`: the two statements implement `Counter`. Without an aborted call
  the numbers have no gap; with one they may skip a number or end for good.

`esr_client`
- `Framing`: however writes are split, whole orders in queue order.
- `LostOrdersBounded`: one order per death and one per write error.
- `AtMostOneMoreOrder`: after `ClnEsrClnt` has returned, `send_thrd` destroys at
  most one more order.
- `SentOnceInOrder`: no order is handed to the socket twice or after a newer one,
  from one connection to the next; what a write error or a death took is gone.
- `StaysInStep`: the receiver never takes the middle of a frame for a header.
- `QueueIsServed`: every message leaves the queue while `send_thrd` runs, whatever
  the type and however late `send_thrd` sees the id in `*GlobalQId`. It holds because
  the loop reads the variable anew each time. `ClientReturns`: see fairness.

`tap_services`
- `QueueOverrun`: with n services the queue exceeds the limit by at most n - 1
  messages. `QueueBounded` of `PackClient` is the case n = 1.
- `StolenOrdersLeaveRequests`: a test read that takes an order leaves a log on or
  log off message for `send_thrd`, which drops it. The two balance exactly: how
  many orders the test reads destroyed can be read off the dropped requests.
- `NumbersIdentify`: a number in the queue names one message, or copies of one
  `Q_packet`; the -1 of a failed `GetResetSequence` reaches the queue, in requests
  only.
- `BlockedReadsHaveCauses`: a test read for which there is no message has lost it to
  `send_thrd`: such reads, less the messages in the queue, are no more than the
  requests dropped less those the balance has already accounted for.
- `ReadBackReturns`: a blocking test read returns, or finds the queue emptied by a
  `send_thrd` that has dropped more requests than orders were stolen. It always
  returns without `send_thrd`; with it it may wait for ever, and this is why.

`data_forward`
- `KeepsItsPromise`: the program implements `Delivery`: an order once lost is
  never forwarded, a forwarded one never taken from the book again, no order overtakes another,
  through every failure, crash and restart of both services.
- `OneEndCostsTwoOrders`: one `Fatalf` costs at most two orders, the one between
  its mark and its packet and the one in `fn_writen`; what is in the queue
  survives. Every other lost order was refused by the packing library or was in
  the write that ended `send_thrd`.
- `CopiesFollowTheirOrder`: the exchange reads whole orders by ascending number.
  `Framing` of `EsrClient`, where every order is new, does not hold here: a stale
  `Q_packet` reaches the wire. But a copy only ever follows its own order directly.
- `RequestedIsSettled`: end to end, a requested order is forwarded or lost,
  unless a goroutine it needs is gone or it waits behind a row the service steps
  over.
- `HaltsWithoutClient`: after `ClnEsrClnt` has returned the packing service ends
  the process or waits for room in a queue nobody reads.

### What the code does not do

Each of these runs checks one sentence of a comment or document and TLC refutes
it; `PROJECT.json` quotes the sentence and tells the counterexample.

| Run | The claim | The code |
|---|---|---|
| `service_keeps_running` | the service keeps running | an empty book ends the process |
| `abort_undoes_the_updates` | the transaction is rolled back | the updates ran outside it |
| `writes_the_fetched_record` | the fetched data is written | a skipped or unpackable record sends the previous packet |
| `reads_stay_valid` | the transaction isolates | the OMS modifies the order between test and update |
| `rejected_is_not_sent` | a record without token is rejected | it is rejected and sent |
| `good_till_date_is_set` | a D order carries its date | the date never parses, the error is ignored |

### Planted bugs

| Property | Broken by |
|---|---|
| PackClient `TypeOK` | `WriteToQueue_EmptyPacket` |
| `PackedAtMostOnce` | `fnUpdXchngbk_NoRow` |
| `QueueBounded` | `FnCanWriteToQueue_OneTooMany` |
| `OrderPreserved` | `IsNextRequested_Largest` |
| `OnlyStalePacketsRepeat` | `FnPackOrdnryOrdToNse_FillFirst` |
| `LossBounded` | `FnCommitTran_GoesOn` |
| `DisagreementsHaveCauses` | `fnUpdOrdrbk_NoRow` |
| `RequestedIsPickedUp` | `FnCanWriteToQueue_Inverted` |
| `StarvedForEver` | `IsNextRequested_Largest` |
| EsrClient `TypeOK` | `FinishOrder_OffsetKept` |
| `Framing` | `FinishOrder_StartsOver` |
| `LostOrdersBounded` | `WriteFails_GoesOn` |
| `AtMostOneMoreOrder` | `WriteSome_NotClosed` |
| `SentOnceInOrder` | `WriteFails_PutsBack` |
| `StaysInStep` | `Need_HeaderTwice` |
| `QueueIsServed` | `ReadGlobalQId_CopiedAtStart` |
| `ClientReturns` | `ClnEsrClnt_WaitsForBoth` |
| SequenceNumber `TypeOK`, `FullRowIsBeingReset` | `Reached_OneLate` |
| `OneResetAtATime`, `NoEarlyReuse`, `ActsAsOneStep` | `Increment_ScansWide` |
| Packing `TypeOK`, `NumbersWithoutGaps` | `Client_NumberFirst` |
| `PacketIsOneOrder` | `Fn_orstonse_cntrct_desc_NoFuturesStrike` |
| `FlagsOfTheOrder` | `FlagsOf_NeverCleared` |
| `ChecksumLagsOnePacket` | `Header_CopiedAtOnce` |
| `OnlyPackableArePacked` | `Validity_AnyRequest` |
| TapServices `TypeOK` | `WriteOrder_EmptyPacket` |
| `QueueOverrun` | `FnCanWriteToQueue_OneTooMany` |
| `StolenOrdersLeaveRequests`, `BlockedReadsHaveCauses`, `ReadBackReturns` | `WriteRequest_ReadsAnyway` |
| `NumbersIdentify` | `PackOrder_Unchecked` |
| `KeepsItsPromise`, `CopiesFollowTheirOrder` | `IsNextRequested_Largest` of `PackClient` |
| `OneEndCostsTwoOrders` | `WriteFails_GoesOn` of `EsrClient` |
| `RequestedIsSettled`, `HaltsWithoutClient` | `FnCanWriteToQueue_Inverted` of `PackClient` |

### Fairness

`PackClient`: weak fairness of the service (a goroutine of a running process is
scheduled) and of `Receive`. The latter stands for an exchange client that keeps
reading; without it a full queue stops the service, which is what happens once
`ClnEsrClnt` has returned. No fairness of the OMS, of crashes or of restarts.

`EsrClient`: weak fairness of the two goroutines and of `ClnEsrClnt`. For
`send_thrd` it also assumes that an exchange that is up reads its socket: there
is no write deadline; and that the id written to `*GlobalQId` is seen in the end by
a loop that keeps reading it, which a data race does not promise formally but every
build does, as each iteration reads memory again. No fairness of the exchange: it may send nothing for ever.
`ClientReturns` therefore speaks only of an exchange that is gone.

`TapServices`: weak fairness of `ReadHead`: the kernel wakes a goroutine blocked
in `msgrcv` when there is a message. Nothing is assumed of interruptions, of the
steps before the read or of `send_thrd`.

`DataForward`: weak fairness of the packing service, `send_thrd`, `rcv_thrd` and
`ClnEsrClnt`, for the reasons above. That the queue is read, an assumption of
`PackClient`, is here the fairness of `send_thrd`: it fails once that has ended.

`Packing` and `SequenceNumber` are checked for safety only.

## 4. Proofs

Every safety property the passing runs check is a theorem, for every value of the
constants, and so are the refinements of `Counter` and `Delivery`; the runs show on
small instances that none of them holds for want of behaviours. What is proved of the two services
alone is then carried into the program that runs both (see `DataForwardProofs`).

### PackClient

`PackClientProofs` proves, for every set of orders, number of rows, queue limit
and number of restarts, with and without each kind of failure:

- `TypeCorrect`: `TypeOK` is inductive by itself.
- `QueueIsBounded`: `RoomSeen` says that from the room test to the write the
  queue has room, because no other step lengthens it.
- `NoOrderIsPackedTwice` and `OrdersKeepTheirSequence`, from the invariant
  `IInv`. `PackedAtMostOnce` alone is not inductive: it does not exclude that
  the record in hand was packed before. The argument is about marks. Reference
  and counter identify a row (`KeyOfXchngbook`), so the update by reference and
  counter marks the record in hand and no other. It is the smallest requested
  row, and new rows come last, so marked rows always precede requested ones
  (`MarkedFirst`); the record in hand is the last marked row and not packed
  (`RecordInHand`); what was packed, queued or received is marked
  (`PackedIsMarked`, `QueuedIsMarked`). A mark is never taken back, hence no
  second packing; and the newly marked row is the largest, hence the order.
- `StarvationIsForGood`: `NotSteppedOver` says that the record in hand is not a row
  the service steps over. It is the smallest requested one, so it is neither the
  row that blocks an order nor an order behind it, and only the record in hand is
  marked. `StarvedStaysRequested` says the same of whole behaviours.

The assumptions are `ConstantsAssumption` of the module: naturals, a positive
queue limit, kinds of order among those listed.

`PackClientLossProofs` adds `RepetitionsAreStale`, `LossesHaveCauses` and
`OneDisagreementPerEnd`. `PacketInHand` says what `Q_packet` is at each label: fresh from its
packing to its write, and then the record in hand, never written; otherwise
written. `LossBounded` is not inductive, since an order whose packing has failed
is lost only when the packet before it is written: `Losing` counts it from the
failure on, and a step adds at most the record in hand to it, at the price of one
death or one failed packing (`LosingStep`). `DisagreementsHaveCauses` is inductive given `IInv`: a
step adds at most the record in hand to the disagreements, and only when the
process ends (`DisagreeingStep`); a modification by the OMS raises the counter of
the order book, so that older rows no longer match it.

### SequenceNumber

`SequenceNumberProofs` proves, for any set of sessions, maximum and capacity,
`TypeCorrect`, `OnlyOneResets`, `NotStuckWithoutAnAbort` and `NumbersAreNotReusedEarly`. The
invariant adds that the row of a session about to reset is at or past the
maximum (`ResettingIsFull`) and that no number was returned that the row has not
reached (`LastIsReached`): a session gets to the reset only by taking the row to
the maximum itself, when no other can be there.

`ImplementsCounter` is the refinement, one lemma per kind of step. That an
increment at the maximum is no second `Take`, and that an aborted session leaves
the counter used up and not at its last number, both need that only one session
is about to reset. `NumbersHaveNoGap` is proved of `Counter` alone and inherited.

### Packing

`PackingProofs` proves, for any set of orders, trader id and number of calls,
`PacketsAreWhole`, `FlagsAreOfTheOrder`, `NoGaps` and `ChecksumLags` (and
`TypeCorrect`). `PacketIsOneOrder` says nothing of a call that runs; the
invariant adds what such a call has written when it gets to a stage
(`HeaderWritten`, `ContractWritten`, `BodyWritten`, `FlagsWritten`: all that is
written before the stage is of this call, whatever earlier ones left), that the
copies in the body are those of the last packet (`PacketIsOlder`), and that the
row is ahead of the packets and lost answers by the one number of a call about
to finish (`NumbersCounted`). That the flags do not depend on the word's earlier
value is the lemma `FlagsAreRewritten`. `OnlySupportedOrders` has an invariant of
its own, `TestsPassed`: which tests an order has behind it at each stage.

### EsrClient

`EsrClientProofs` proves, for any lengths of orders, headers and frames and any
number of messages, six theorems, each from an invariant of its own.
`OneMoreOrderAtMost`: `DrainInv` adds that a second order would need a `send_thrd`
that reads, and the only way back to reading is a finished write, which needs the
connection. `LossesHaveCauses`: a step adds at most the order in hand to the taken
and not sent ones, and then the process or the thread ends. `HeadersStartFrames`:
`StepInv` says that what is left of the stream, once the rest of the frame being
read is cut off, is a sequence of whole frames. `StreamIsFramed`: `WireInv` says
that the last unit on the wire is the end of an older order or unit `off` of the
order in hand, and `QueueInv` that the queue ascends and is ahead of both.
`OrdersAreSentOnce`: `SentInv` puts what was sent before the order in `fn_writen`,
before the whole queue, and before all that will be put there.

### TapServices

`TapServicesProofs` proves, for any finite set of services of any kinds and every
bound:

- `QueueOverrunIsBounded`, by counting: messages in the queue and services that
  have seen a free place are together at most the limit plus n - 1 (`RoomInv`). A
  test that succeeds finds the queue below the limit and at most n - 1 others that
  have seen room; a write turns one of these into a message.
- `NumbersAreUnique`: every number in the queue or in a structure that may still
  be written is at most the row's, no two services hold the same, and a held
  number not yet written is in no message (`NumbersInv`).
- `ThievesLeaveRequests`: each kind of step changes both sides of the equation by
  the same amount; that the tail of the queue has one request less exactly when
  its head is one is a bijection.
- `BlockedReadsAreOwed`, from that balance, since the requests in the queue are no
  more than its messages. This is the safety part of `ReadBackReturns`. Without
  `send_thrd` no request is dropped (`NoStrays`), and no test read waits
  (`TestReadsDoNotBlock`).
- `TypeCorrect`.

### DataForward

`DataForwardProofs` proves `ImplementsDelivery`, the refinement, from
`ConstantsAssumption`, the assumptions of both parts. It reuses the proofs about
the packing service: every step of the program is a step of `PackClient` with the
exchange client as its environment (`PackStep`), so `IInv` of `PackClientProofs`
holds here too. Stated for itself this is `ImplementsPackClient`: the program
implements the packing service, a failed dial being one more crash; and
`ServiceKeepsItsPromises` lists what the program inherits by it, all safety
properties of `pack_client` but the type invariant.

`HandedOver` adds that the order in `fn_writen` is the last one received and that
nothing sent is newer. All held or sent orders are then marked, and the row of an
order decides its status (`StatusIs`). Three steps do more than lose orders:
marking takes the oldest requested order, the OMS requests the next, a finished
write forwards; all others are a `Lose` of the orders they drop, possibly none
(`QuietStep`).

`DataForwardLossProofs` proves four theorems. `TwoOrdersPerEnd`: an order is
`Losing` once nothing will send it any more, which may be before its status is lost: a failed packing
whose record is still in hand, a failed write whose packet is still in `Q_packet`.
`Allowance` is two per end of the process, one per failed packing and one for an
ended `send_thrd`. Every step adds no more to the first than to the second
(`StepCosts`); an end of the process after a failed write adds two and takes one
back, and then `fn_writen` holds no order.

`CopiesAreInOrder`: the last unit on the wire is unit `off` of the order in
`fn_writen`, or ends an order not newer than the last one received (`EndOfWire`),
and by `OrderPreserved` of the packing service the next one received is not older
than that. The words about the wire (`Follows`, `InOrder`) are those of
`EsrClientProofs`, with a gap of 0 for 1.

`ClientKeepsItsPromises` carries the theorems on the exchange client over. The
program is no refinement of `EsrClient`, whose queue gets every message once: here
the packing service fills the queue and may repeat a packet. But every step of
the program is a step of `EsrClient` or leaves all but the queue as it is
(`ClientStep`), and the invariants behind `LostOrdersBounded`, `AtMostOneMoreOrder`
and `StaysInStep` say nothing of the queue but its type (`StreamInv`). `Framing` and
`SentOnceInOrder` rest on a queue without copies. Here `Framing` is false, and
`CopiesFollowTheirOrder` is what takes its place; `SentOnceInOrder` holds and has a
proof of its own, `NoOrderIsSentLate`.

### What is not proved

Only model-checked: liveness (`RequestedIsPickedUp`, `QueueIsServed`,
`ClientReturns`, `ReadBackReturns`, `RequestedIsSettled`, `HaltsWithoutClient`;
temporal reasoning under fairness is outside the prover), and what the code does
not do, where a counterexample is the proof.

## 5. Not modelled

- The commented-out handlers of exchange responses: not part of the program.
- Order conversion, password utilities, configuration, logging, containers: no
  state, or state fixed before the services start. Log on calls the password
  utilities in a branch that is never entered.
- Field values that no test looks at, byte order, wording and layout of messages.
  `S_message_length` is the constant 16 where `models.go:203-206` documents 22
  plus the data: a constant needs no model checker.
- `FnFlushQueue` and `DestroyQueue`: nothing calls them.
- What the exchange does with an order. The code tracks no acknowledgement, so an
  order is forwarded when the socket has accepted it.
- Other programs that use the same queue key.

## 6. State of the plan

Done: the component modules, the two abstract specifications and the composition,
proofs of every safety property the passing runs check, and of what the
composition keeps of those of its parts.

Left: packing, log on, log off and the exchange client composed as
`Service_initializer.go` could start them, should `main` come to do so. The
claims of `TapServices` are about the queue and carry over; those of `Delivery` do
not, since a test read loses orders that no end of the process explains.
