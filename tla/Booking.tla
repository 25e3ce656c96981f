------------------------------ MODULE Booking -------------------------------
(***************************************************************************)
(* The two services together, on one database: clients book and cancel     *)
(* (Appointments.tla) while prestataires manage their slots                *)
(* (SlotCalendar.tla).                                                     *)
(***************************************************************************)
EXTENDS Appointments, SlotCalendar

\* History variable: the slots some slot request had already read, and had
\* not yet saved, at the moment their appointment was committed.
VARIABLE raced

vars == <<apptVars, sreq, raced>>

ASSUME RequestsDistinct == Requests \cap SlotRequests = {}

TypeOK ==
    /\ ApptTypeOK
    /\ SlotsTypeOK
    /\ raced \subseteq Slots

Init ==
    /\ ApptInit
    /\ SlotsInit
    /\ raced = {}

\* The slots that slot requests are holding copies of.
InFlight == UNION {sreq[q].ids : q \in SlotRequests}

NewlyBooked ==
    {s \in Slots : \E a \in Appts : appt[a] = NoAppt /\ appt'[a].slot = s}

ApptStep ==
    /\ ApptRequestNext \/ AutoComplete \/ Tick
    /\ raced' = raced \cup (NewlyBooked \cap InFlight)
    /\ UNCHANGED sreq

SlotStep ==
    /\ SlotsNext
    /\ UNCHANGED <<areq, raced>>

CrashAll ==
    /\ Crash
    /\ sreq' = [q \in SlotRequests |-> Quiet]
    /\ UNCHANGED raced

Next == ApptStep \/ SlotStep \/ CrashAll

Spec == Init /\ [][Next]_vars

-----------------------------------------------------------------------------
(* Properties *)

\* A CONFIRMED appointment keeps its slot in place and RESERVED against
\* every operation of the prestataire, except one whose handler had read the
\* slot before the booking and saves it afterwards.
UnracedBookingHoldsSlot ==
    \A a \in Appts :
        appt[a].status = "CONFIRMED" /\ appt[a].slot \notin raced
        => Live(appt[a].slot) /\ slot[appt[a].slot].status = "RESERVED"

\* Slots end after they start, although two updates of one slot may each
\* write one of the two columns (updateSlot checks its own copy only).
SlotsWellOrdered ==
    \A s \in Slots : slot[s].row # "absent" => WellOrdered(slot[s])
=============================================================================
