----------------------------- MODULE MCBooking ------------------------------
(***************************************************************************)
(* TLC instance of Booking: one prestataire with two slots, s2 to be       *)
(* created or already there, and two slot requests.                        *)
(***************************************************************************)
EXTENDS Booking, TLC

CONSTANTS s1, s2, p1, c1, r1, r2, q1, q2, a1, a2

MCOwner == [s \in Slots |-> p1]

MCSlot(st, a, b) == [row |-> "live", status |-> st, date |-> 0,
                     start |-> a, end |-> b]

\* Each slot is there or is still to be created.
MCInitSlots == [Slots -> {NoRow, MCSlot("AVAILABLE", 0, 1)}]

MCIntervals == {[date |-> 0, start |-> a, end |-> b] :
                  <<a, b>> \in {<<0, 1>>, <<0, 2>>, <<1, 2>>}}

MCServes == [r \in Requests |-> {c1}]

MCSymmetry == Permutations(Appts) \cup Permutations(SlotRequests)
=============================================================================
