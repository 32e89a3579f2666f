----------------------------- MODULE RunningSums -----------------------------
(***************************************************************************)
(* The sums of the first members of a sequence of numbers, as a function   *)
(* of how many they are.                                                   *)
(***************************************************************************)
EXTENDS Integers, Sequences

RunningSum(a) ==
  LET sum[n \in 0..Len(a)] == IF n = 0 THEN 0 ELSE sum[n - 1] + a[n]
  IN  sum
=============================================================================
