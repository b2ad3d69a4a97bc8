------------------------- MODULE SequenceNumberProofs -------------------------
(***************************************************************************)
(* The properties of SequenceNumber, proved for any set of sessions, any    *)
(* maximum and any capacity of the column.                                  *)
(***************************************************************************)
EXTENDS SequenceNumber, TLAPS

(* The inductive invariant: the row of a session that is to reset it is at  *)
(* or past the maximum, and no number was returned that the row has not     *)
(* reached.                                                                 *)
ResettingIsFull == \A c \in Callers : pc[c] = "reset" => fsp_seq_num >= MaxSeqNum

LastIsReached == last <= fsp_seq_num

IInv ==
  /\ TypeOK
  /\ ResettingIsFull
  /\ LastIsReached
  /\ OneResetAtATime
  /\ FullRowIsBeingReset

(* The invariant holds of an unused row.                                    *)
LEMMA InvInit == Init => IInv
BY ConstantsAssumption
   DEF ConstantsAssumption, Init, IInv, TypeOK, ResettingIsFull, LastIsReached,
       OneResetAtATime, FullRowIsBeingReset, Resetting

(* Every step preserves it.  A session only gets to the reset when it takes *)
(* the row to the maximum itself, and then no other session is there.       *)
LEMMA InvNext == IInv /\ [Next]_vars => IInv'
<1> SUFFICES ASSUME IInv, [Next]_vars PROVE IInv'
  OBVIOUS
<1> USE ConstantsAssumption DEF ConstantsAssumption, IInv, TypeOK
<1>1. CASE UNCHANGED vars
  BY <1>1 DEF vars, ResettingIsFull, LastIsReached, OneResetAtATime,
              FullRowIsBeingReset, Resetting
<1>2. ASSUME NEW c \in Callers, Increment(c) PROVE IInv'
  <2>1. TypeOK'
    BY <1>2 DEF Increment, Reached
  <2>2. ResettingIsFull' /\ LastIsReached'
    BY <1>2 DEF Increment, Reached, ResettingIsFull, LastIsReached
  <2>3. OneResetAtATime'
    BY <1>2 DEF Increment, Reached, OneResetAtATime, Resetting, ResettingIsFull
  <2>4. FullRowIsBeingReset'
    BY <1>2 DEF Increment, Reached, FullRowIsBeingReset, Resetting
  <2> QED  BY <2>1, <2>2, <2>3, <2>4
<1>3. ASSUME NEW c \in Callers, Reset(c) PROVE IInv'
  <2>1. TypeOK' /\ LastIsReached'
    BY <1>3 DEF Reset, LastIsReached
  <2>2. \A d \in Callers : pc'[d] = "idle"
    BY <1>3 DEF Reset, OneResetAtATime, Resetting
  <2>3. OneResetAtATime' /\ ResettingIsFull' /\ FullRowIsBeingReset'
    BY <1>3, <2>2 DEF Reset, OneResetAtATime, Resetting, ResettingIsFull, FullRowIsBeingReset
  <2> QED  BY <2>1, <2>3
<1>4. ASSUME NEW c \in Callers, Abort(c) \/ LoseNumber(c) PROVE IInv'
  BY <1>4 DEF Abort, LoseNumber, ResettingIsFull, LastIsReached, OneResetAtATime,
              FullRowIsBeingReset, Resetting
<1> QED  BY <1>1, <1>2, <1>3, <1>4 DEF Next

(* In every reachable state the row is within the column, one session at    *)
(* most is to reset it, and a full row without one has lost an answer.      *)
THEOREM InvHolds == Spec => []IInv
<1>1. Init => IInv  BY InvInit
<1>2. IInv /\ [Next]_vars => IInv'  BY InvNext
<1> QED  BY <1>1, <1>2, PTL DEF Spec

(* The row stays within its column and every number returned below the      *)
(* maximum, in every reachable state.                                       *)
THEOREM TypeCorrect == Spec => []TypeOK
<1>1. IInv => TypeOK
  BY DEF IInv
<1>2. QED
  BY <1>1, InvHolds, PTL

(* Two sessions are never about to reset the row at once.                   *)
THEOREM OnlyOneResets == Spec => []OneResetAtATime
<1>1. IInv => OneResetAtATime  BY DEF IInv
<1> QED  BY <1>1, InvHolds, PTL

(* A row that hands out no more numbers is being reset, or a call was       *)
(* aborted: no interleaving of complete calls makes it stuck.               *)
THEOREM NotStuckWithoutAnAbort == Spec => []FullRowIsBeingReset
<1>1. IInv => FullRowIsBeingReset  BY DEF IInv
<1> QED  BY <1>1, InvHolds, PTL

(* The numbers start again only from a row that has gone through them all.  *)
THEOREM NumbersAreNotReusedEarly == Spec => NoEarlyReuse
<1>1. IInv /\ [Next]_vars => [last' < last => fsp_seq_num >= MaxSeqNum]_vars
  <2> SUFFICES ASSUME IInv, Next, last' < last PROVE fsp_seq_num >= MaxSeqNum
    BY DEF vars
  <2> USE ConstantsAssumption DEF ConstantsAssumption, IInv, TypeOK
  <2>1. ASSUME NEW c \in Callers, Increment(c) PROVE FALSE
    BY <2>1 DEF Increment, Reached, LastIsReached
  <2>2. ASSUME NEW c \in Callers, Reset(c) PROVE fsp_seq_num >= MaxSeqNum
    BY <2>2 DEF Reset, ResettingIsFull
  <2>3. ASSUME NEW c \in Callers, Abort(c) \/ LoseNumber(c) PROVE FALSE
    BY <2>3 DEF Abort, LoseNumber
  <2> QED  BY <2>1, <2>2, <2>3 DEF Next
<1> QED  BY <1>1, InvHolds, PTL DEF Spec, NoEarlyReuse

(***************************************************************************)
(* The refinement: the two statements of a call act as one step.            *)
(***************************************************************************)

(* Who is to reset the row tells apart a full row and one that is used up.  *)
LEMMA FullRowIsReset ==
  ASSUME IInv
  PROVE  /\ Shown \in 0 .. MaxSeqNum
         /\ fsp_seq_num < MaxSeqNum => Shown = fsp_seq_num /\ Resetting = {}
         /\ fsp_seq_num >= MaxSeqNum /\ Resetting # {} => Shown = MaxSeqNum - 1
         /\ fsp_seq_num >= MaxSeqNum /\ Resetting = {} => Shown = MaxSeqNum
BY ConstantsAssumption
   DEF ConstantsAssumption, IInv, TypeOK, ResettingIsFull, Resetting, Shown

(* An unused row shows an unused counter.                                   *)
LEMMA CounterInit == Init => Atomic!Init
BY ConstantsAssumption DEF ConstantsAssumption, Init, Atomic!Init, Shown

(* The first statement takes the next number, or the last one, which shows  *)
(* only when the row is reset, or finds the row full.                       *)
LEMMA IncrementTakes ==
  ASSUME IInv, IInv', NEW c \in Callers, Increment(c)
  PROVE  Atomic!Take \/ UNCHANGED <<Shown, last, aborts>>
<1> USE ConstantsAssumption DEF ConstantsAssumption, IInv, TypeOK
<1>1. CASE fsp_seq_num + 1 < MaxSeqNum
  <2>1. last' = fsp_seq_num + 1 /\ fsp_seq_num' = fsp_seq_num + 1
    BY <1>1 DEF Increment, Reached
  <2>2. Shown = fsp_seq_num /\ Shown' = fsp_seq_num + 1
    BY <1>1, <2>1 DEF Shown
  <2>3. QED
    BY <1>1, <2>1, <2>2 DEF Atomic!Take, Increment
<1>2. CASE fsp_seq_num + 1 = MaxSeqNum
  <2>1. pc' = [pc EXCEPT ![c] = "reset"] /\ fsp_seq_num' = MaxSeqNum
    BY <1>2 DEF Increment, Reached
  <2>2. c \in Resetting'
    BY <2>1 DEF Resetting
  <2>3. Shown = MaxSeqNum - 1 /\ Shown' = MaxSeqNum - 1
    BY <1>2, <2>1, <2>2 DEF Shown
  <2>4. QED
    BY <1>2, <2>3 DEF Increment, Reached
<1>3. CASE fsp_seq_num >= MaxSeqNum
  <2>1. UNCHANGED <<pc, last, aborts>> /\ fsp_seq_num' = fsp_seq_num + 1
    BY <1>3 DEF Increment, Reached
  <2>2. UNCHANGED Shown
    BY <1>3, <2>1 DEF Shown, Resetting
  <2>3. QED
    BY <2>1, <2>2
<1>4. QED
  BY <1>1, <1>2, <1>3

(* The second statement starts the counter again: nobody else was to.       *)
LEMMA ResetStartsAgain ==
  ASSUME IInv, IInv', NEW c \in Callers, Reset(c)
  PROVE  Atomic!StartAgain
<1> USE ConstantsAssumption DEF ConstantsAssumption, IInv, TypeOK
<1>1. c \in Resetting /\ fsp_seq_num >= MaxSeqNum
  BY DEF Reset, ResettingIsFull, Resetting
<1>2. Shown = MaxSeqNum - 1
  BY <1>1, FullRowIsReset
<1>3. Shown' = 0
  BY DEF Reset, Shown
<1>4. QED
  BY <1>2, <1>3 DEF Reset, Atomic!StartAgain

(* An aborted call costs nothing, one number, or the counter.               *)
LEMMA AbortFails ==
  ASSUME IInv, IInv', NEW c \in Callers, Abort(c) \/ LoseNumber(c)
  PROVE  Atomic!Fail
<1> USE ConstantsAssumption DEF ConstantsAssumption, IInv, TypeOK
<1>1. aborts' = aborts + 1 /\ UNCHANGED last
  BY DEF Abort, LoseNumber
<1>2. CASE Abort(c)
  <2>1. c \in Resetting /\ fsp_seq_num >= MaxSeqNum /\ UNCHANGED fsp_seq_num
    BY <1>2 DEF Abort, ResettingIsFull, Resetting
  <2>2. \A d \in Callers : pc'[d] = "idle"
    BY <1>2, <2>1 DEF Abort, OneResetAtATime, Resetting
  <2>3. Shown = MaxSeqNum - 1 /\ Shown' = MaxSeqNum
    BY <2>1, <2>2 DEF Shown, Resetting
  <2>4. QED
    BY <1>1, <2>3 DEF Atomic!Fail
<1>3. CASE LoseNumber(c)
  <2>1. UNCHANGED pc /\ fsp_seq_num' = fsp_seq_num + 1
    BY <1>3 DEF LoseNumber
  <2>2. Shown' \in {Shown, Shown + 1}
    BY <2>1 DEF Shown, Resetting, ResettingIsFull
  <2>3. Shown' <= MaxSeqNum
    BY DEF Shown
  <2>4. QED
    BY <1>1, <2>2, <2>3 DEF Atomic!Fail
<1>4. QED
  BY <1>2, <1>3

(* Whatever the sessions interleave, GetResetSequence is a counter with one *)
(* step per call.                                                           *)
THEOREM ImplementsCounter == Spec => ActsAsOneStep
<1>1. Init => Atomic!Init
  BY CounterInit
<1>2. IInv /\ IInv' /\ [Next]_vars => [Atomic!Next]_<<Shown, last, aborts>>
  <2> SUFFICES ASSUME IInv, IInv', [Next]_vars
               PROVE  [Atomic!Next]_<<Shown, last, aborts>>
    OBVIOUS
  <2>1. ASSUME NEW c \in Callers, Increment(c)
        PROVE  [Atomic!Next]_<<Shown, last, aborts>>
    BY <2>1, IncrementTakes DEF Atomic!Next
  <2>2. ASSUME NEW c \in Callers, Reset(c) PROVE Atomic!Next
    BY <2>2, ResetStartsAgain DEF Atomic!Next
  <2>3. ASSUME NEW c \in Callers, Abort(c) \/ LoseNumber(c) PROVE Atomic!Next
    BY <2>3, AbortFails DEF Atomic!Next
  <2>4. CASE UNCHANGED vars
    BY <2>4 DEF vars, Shown, Resetting
  <2>5. QED
    BY <2>1, <2>2, <2>3, <2>4 DEF Next
<1>3. QED
  BY <1>1, <1>2, InvHolds, PTL DEF Spec, ActsAsOneStep, Atomic!Spec

(* What the callers get from it: as long as no call was aborted, each       *)
(* number returned is the successor of the one before, or 0 after the last. *)
THEOREM NumbersHaveNoGap == Spec => Atomic!NoGaps
<1> DEFINE OnLast == aborts \in Nat /\ (aborts = 0 => last = -1 \/ last = Shown)
<1>1. Atomic!Init => OnLast
  BY DEF Atomic!Init
<1>2. OnLast /\ [Atomic!Next]_<<Shown, last, aborts>> => OnLast'
  BY DEF Atomic!Next, Atomic!Take, Atomic!StartAgain, Atomic!Fail
<1>3. OnLast /\ [Atomic!Next]_<<Shown, last, aborts>>
        => [aborts = 0 /\ last # -1 /\ last' # last
              => last' = IF last + 1 < MaxSeqNum THEN last + 1 ELSE 0]_<<Shown, last, aborts>>
  <2> SUFFICES ASSUME OnLast, Atomic!Next, aborts = 0, last # -1, last' # last
               PROVE  last' = IF last + 1 < MaxSeqNum THEN last + 1 ELSE 0
    BY DEF Atomic!Next
  <2>1. last = Shown
    OBVIOUS
  <2>2. CASE Atomic!Take
    BY <2>1, <2>2 DEF Atomic!Take
  <2>3. CASE Atomic!StartAgain
    <3>1. last + 1 = MaxSeqNum /\ last' = 0
      BY <2>1, <2>3 DEF Atomic!StartAgain
    <3>2. QED
      BY <3>1, ConstantsAssumption DEF ConstantsAssumption
  <2>4. QED
    BY <2>2, <2>3 DEF Atomic!Next, Atomic!Fail
<1>4. Atomic!Spec => Atomic!NoGaps
  BY <1>1, <1>2, <1>3, PTL DEF Atomic!Spec, Atomic!NoGaps
<1>5. QED
  BY <1>4, ImplementsCounter DEF ActsAsOneStep
================================================================================
