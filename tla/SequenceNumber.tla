---------------------------- MODULE SequenceNumber ----------------------------
(***************************************************************************)
(* GetResetSequence: the sequence number of an outgoing message is a row of *)
(* fsp_fo_seq_plcd, incremented by one UPDATE and, when it has reached      *)
(* MAX_SEQ_NUM, set back to 0 by a second one                               *)
(* (util/TypeConversionUtil/type_conversion_util.go).  Packing, log on and  *)
(* log off call it for the same pipe, in sessions of their own; no          *)
(* transaction holds the two statements together.                           *)
(***************************************************************************)
EXTENDS Integers

CONSTANTS
  Callers,     (* the sessions that call GetResetSequence                      *)
  MaxSeqNum,   (* MAX_SEQ_NUM, the largest int32: 2147483647 in the code       *)
  Capacity,    (* the largest number the column fsp_seq_num can hold           *)
  MaxAborts    (* bound on the calls that fail or die                          *)

(* An operator named X_Bug is X with a planted bug: the README says which   *)
(* property each of them breaks.  None of them is part of Next.             *)

ASSUME ConstantsAssumption ==
  /\ MaxSeqNum \in Nat \ {0}
  /\ Capacity \in Nat
  /\ MaxAborts \in Nat

VARIABLES
  fsp_seq_num,  (* the row of the pipe and the trade date                  *)
  pc,           (* a session is "idle" or about to "reset"                 *)
  last,         (* history: the number returned last, -1 before            *)
  aborts        (* history: calls that failed or died after changing the row*)

vars == <<fsp_seq_num, pc, last, aborts>>

Init ==
  /\ fsp_seq_num = 0
  /\ pc = [c \in Callers |-> "idle"]
  /\ last = -1
  /\ aborts = 0

Reached_OneLate(n) == n = MaxSeqNum + 1

(* The test for the maximum.                                                *)
Reached(n) == n = MaxSeqNum

Increment_ScansWide(c) ==
  /\ pc[c] = "idle"
  /\ fsp_seq_num < Capacity
  /\ fsp_seq_num' = fsp_seq_num + 1
  /\ IF fsp_seq_num' >= MaxSeqNum
     THEN pc' = [pc EXCEPT ![c] = "reset"] /\ last' = last
     ELSE pc' = pc /\ last' = fsp_seq_num'
  /\ UNCHANGED aborts

(***************************************************************************)
(* The first statement.  It fails without effect when the column is full.   *)
(* A number beyond the int32 it is scanned into is an error after the       *)
(* update, which stays.  Otherwise the number is returned, or MAX_SEQ_NUM   *)
(* calls for the second statement.                                          *)
(***************************************************************************)
Increment(c) ==
  /\ pc[c] = "idle"
  /\ fsp_seq_num < Capacity
  /\ fsp_seq_num' = fsp_seq_num + 1
  /\ \/ /\ Reached(fsp_seq_num')
        /\ pc' = [pc EXCEPT ![c] = "reset"]
        /\ UNCHANGED last
     \/ /\ ~Reached(fsp_seq_num')
        /\ last' = IF fsp_seq_num' <= MaxSeqNum THEN fsp_seq_num' ELSE last
        /\ UNCHANGED pc
  /\ UNCHANGED aborts

(* The second statement: the row starts again and 0 is returned.            *)
Reset(c) ==
  /\ pc[c] = "reset"
  /\ fsp_seq_num' = 0
  /\ last' = 0
  /\ pc' = [pc EXCEPT ![c] = "idle"]
  /\ UNCHANGED aborts

(* A call fails, or its process dies, between or after its statements: the  *)
(* caller gets -1 or nothing and the row stays as it is.                    *)
Abort(c) ==
  /\ pc[c] = "reset"
  /\ aborts < MaxAborts
  /\ pc' = [pc EXCEPT ![c] = "idle"]
  /\ aborts' = aborts + 1
  /\ UNCHANGED <<fsp_seq_num, last>>

(* The first update is done, and its answer does not come back.             *)
LoseNumber(c) ==
  /\ pc[c] = "idle"
  /\ fsp_seq_num < Capacity
  /\ aborts < MaxAborts
  /\ fsp_seq_num' = fsp_seq_num + 1
  /\ aborts' = aborts + 1
  /\ UNCHANGED <<pc, last>>

Next == \E c \in Callers : Increment(c) \/ Reset(c) \/ Abort(c) \/ LoseNumber(c)

Spec == Init /\ [][Next]_vars

(***************************************************************************)
(* Invariants and action properties.                                        *)
(***************************************************************************)

(* The row stays within the column, and every number returned within int32  *)
(* below the maximum.                                                       *)
TypeOK ==
  /\ fsp_seq_num \in 0 .. Capacity
  /\ pc \in [Callers -> {"idle", "reset"}]
  /\ last \in -1 .. MaxSeqNum - 1
  /\ aborts \in Nat

Resetting == {c \in Callers : pc[c] = "reset"}

(* The numbers start again only when the row has gone through all of them:  *)
(* a reset never runs on a row that other sessions have already restarted,  *)
(* although the test of the maximum and the reset are separate statements.  *)
NoEarlyReuse == [][last' < last => fsp_seq_num >= MaxSeqNum]_vars

(* A row at or past the maximum hands out no more numbers.  As long as no   *)
(* call was aborted, the one session that is to reset it is still there.    *)
FullRowIsBeingReset ==
  fsp_seq_num >= MaxSeqNum => Resetting # {} \/ aborts > 0

(* Two sessions never wait to reset the row at once.                        *)
OneResetAtATime == \A c, d \in Resetting : c = d

(* The two statements of GetResetSequence act as one: module Counter, where *)
(* a call takes the next number, or 0 after the last, in a single step.     *)
(* The reset is that step for the session that took the row to the maximum; *)
(* until then the counter still shows the last number, and a row left full  *)
(* by an aborted call is a counter that is used up.                         *)
Shown ==
  IF fsp_seq_num < MaxSeqNum THEN fsp_seq_num
  ELSE IF Resetting # {} THEN MaxSeqNum - 1
  ELSE MaxSeqNum

Atomic == INSTANCE Counter WITH count <- Shown

ActsAsOneStep == Atomic!Spec
================================================================================
