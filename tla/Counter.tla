-------------------------------- MODULE Counter --------------------------------
(***************************************************************************)
(* What GetResetSequence promises its callers: one counter that all of them *)
(* share.  A call takes the next number or, after the last one, starts      *)
(* again at 0, in a single step.  A call that fails may cost a number, or   *)
(* use the counter up; nothing else does.  Module SequenceNumber, with its  *)
(* two statements per call, is checked and proved to implement this one.    *)
(***************************************************************************)
EXTENDS Integers

CONSTANT MaxSeqNum   (* the numbers are 0 .. MaxSeqNum - 1 *)

VARIABLES
  count,  (* the number taken last, returned or not; MaxSeqNum: used up    *)
  last,   (* the number returned last, -1 before                           *)
  aborts  (* the calls that failed with an effect on the row               *)

Init == count = 0 /\ last = -1 /\ aborts = 0

Take ==
  /\ count + 1 < MaxSeqNum
  /\ count' = count + 1
  /\ last' = count'
  /\ UNCHANGED aborts

StartAgain ==
  /\ count + 1 = MaxSeqNum
  /\ count' = 0
  /\ last' = 0
  /\ UNCHANGED aborts

(* A failed call: it has no effect on the counter, or the number it would   *)
(* have taken is gone.  Gone in place of a new start, it uses the counter up.*)
Fail ==
  /\ count' \in {count, count + 1}
  /\ count' <= MaxSeqNum
  /\ aborts' = aborts + 1
  /\ UNCHANGED last

Next == Take \/ StartAgain \/ Fail

Spec == Init /\ [][Next]_<<count, last, aborts>>

(* Without a failed call the numbers have no gap: each is followed by the   *)
(* next one, the last one by 0.                                             *)
NoGaps ==
  [][aborts = 0 /\ last # -1 /\ last' # last
       => last' = IF last + 1 < MaxSeqNum THEN last + 1 ELSE 0]_<<count, last, aborts>>
================================================================================
