----------------------------- MODULE MCPackClient -----------------------------
(* Constants for the runs of PackClient.                                    *)
EXTENDS PackClient

CONSTANTS r1, r2

TwoRefs == {r1, r2}

CleanOnly == {"clean"}
AllKinds  == Kinds
===============================================================================
