--------------------------- MODULE MCAppointments ---------------------------
(***************************************************************************)
(* TLC instance of Appointments: two prestataires whose slots s1 and s2    *)
(* start together, and a request for each of two clients.                  *)
(***************************************************************************)
EXTENDS Appointments, TLC

CONSTANTS s1, s2, p1, p2, c1, c2, r1, r2, r3, a1, a2, a3

MCOwner == s1 :> p1 @@ s2 :> p2

MCSlot(st, a, b) == [row |-> "live", status |-> st, date |-> 0,
                     start |-> a, end |-> b]

\* s1 open and s2 open or blocked; both from tick 2 to tick 3.
MCInitSlots == {s1 :> MCSlot("AVAILABLE", 2, 3) @@ s2 :> MCSlot(st, 2, 3) :
                  st \in {"AVAILABLE", "BLOCKED"}}

\* One open slot, for a request of each client and one of the prestataire's.
MCOneSlot == {s1 :> MCSlot("AVAILABLE", 2, 3)}

MCOneOwner == s1 :> p1

MCServesThree == r1 :> {c1} @@ r2 :> {c2} @@ r3 :> {}

MCServes == r1 :> {c1} @@ r2 :> {c2}

\* Both requests may be the same client's: two tabs of one browser.
MCServesAll == r1 :> {c1, c2} @@ r2 :> {c1, c2}

MCNotice == {0, 1}

MCSymmetry == Permutations(Appts)
=============================================================================
