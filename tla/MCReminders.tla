---------------------------- MODULE MCReminders ----------------------------
(***************************************************************************)
(* TLC instance of Reminders: one appointment on the hour and one at half  *)
(* past, and a long reminder of two hours instead of 24.                 *)
(***************************************************************************)
EXTENDS Reminders, TLC

CONSTANTS a1, a2, j1, j2

MCStartOf == [a \in Appts |-> IF a = a1 THEN 6 ELSE 7]

MCSymmetry == Permutations(Runs)
=============================================================================
