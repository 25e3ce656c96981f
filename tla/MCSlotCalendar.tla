--------------------------- MODULE MCSlotCalendar ---------------------------
(***************************************************************************)
(* TLC instance of SlotCalendar: slots of one prestataire, to be created   *)
(* in a window of three ticks, and one on a second day.                    *)
(***************************************************************************)
EXTENDS SlotCalendar, TLC

CONSTANT p1

MCOwner == [s \in Slots |-> p1]

MCInitSlots == {[s \in Slots |-> NoRow]}

MCIntervals ==
    {[date |-> 0, start |-> a, end |-> b] :
        <<a, b>> \in {<<0, 2>>, <<0, 3>>, <<1, 2>>, <<2, 3>>}}
    \cup {[date |-> 1, start |-> 0, end |-> 1]}

MCSymmetry == Permutations(Slots)
=============================================================================
