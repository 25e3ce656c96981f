---------------------------- MODULE BookingStore ----------------------------
(***************************************************************************)
(* The database rows and the clock that the appointment handlers and the   *)
(* slot handlers share: the tables slots and appointments, the column      *)
(* prestataires.total_appointments, the row locks on slots, and the events *)
(* published on the in-process event bus.  Appointments.tla and            *)
(* SlotCalendar.tla add the requests that read and write this state.       *)
(*                                                                         *)
(* Columns that no property tells apart (notes, prices, services, client   *)
(* notes, timestamps of creation) are left out.  Time is a number of       *)
(* ticks; TicksPerHour and TicksPerDay give its units.                     *)
(***************************************************************************)
EXTENDS Integers, FiniteSets

CONSTANTS
    Slots,          \* ids of rows of the table slots
    Appts,          \* ids of rows of the table appointments
    Clients,        \* ids of clients (which are also the ids of their users)
    Prestataires,   \* ids of prestataires (likewise)
    Requests,       \* the appointment requests being served at one time
    Null,           \* SQL NULL, and "no request"
    Owner,          \* slots.prestataire_id, which no handler ever writes
    InitSlots,      \* the slot tables a history may start from
    TicksPerHour,
    TicksPerDay,
    MaxNow          \* bound: the clock stops here

VARIABLES
    slot,       \* slot[s]: the row of slot s
    slotLock,   \* slotLock[s]: the transaction holding FOR UPDATE on s
    appt,       \* appt[a]: the row of appointment a
    total,      \* total[p]: prestataires.total_appointments
    events,     \* history: the events emitted so far, and those lost
    now

storeVars == <<slot, slotLock, appt, total, events, now>>

-----------------------------------------------------------------------------
(* Types *)

Users == Clients \cup Prestataires

SlotStatus == {"AVAILABLE", "RESERVED", "BLOCKED"}

\* row: "absent" before the INSERT, "deleted" once deleted_at is set.
\* date is a day, start and end are times of that day.
SlotRow == [row: {"absent", "live", "deleted"}, status: SlotStatus,
            date: Nat, start: Nat, end: Nat]

AppointmentStatus == {"CONFIRMED", "CANCELLED", "COMPLETED"}

ApptRow == [status: AppointmentStatus \cup {"NONE"},
            client: Clients \cup {Null},
            slot: Slots \cup {Null},
            cancelledBy: Users \cup {Null},
            completedAt: BOOLEAN]

NoAppt == [status |-> "NONE", client |-> Null, slot |-> Null,
           cancelledBy |-> Null, completedAt |-> FALSE]

\* appointment.created, appointment.cancelled, appointment.completed
EventKinds == {"created", "cancelled", "completed"}

\* What may be said of an appointment: an event of it was emitted, or that of
\* its booking was lost.
EventFates == EventKinds \cup {"lost"}

\* No slot of an initial table is reserved: there is no appointment yet.
ASSUME StoreAssumption ==
    /\ Owner \in [Slots -> Prestataires]
    /\ Null \notin Slots \cup Appts \cup Users \cup Requests
    /\ InitSlots \subseteq [Slots -> SlotRow]
    /\ \A tab \in InitSlots : \A s \in Slots :
          /\ tab[s].status # "RESERVED"
          /\ tab[s].row # "absent" => tab[s].start < tab[s].end
    /\ TicksPerHour \in Nat \ {0}
    /\ TicksPerDay \in Nat \ {0}
    /\ MaxNow \in Nat

StoreTypeOK ==
    /\ slot \in [Slots -> SlotRow]
    /\ slotLock \in [Slots -> Requests \cup {Null}]
    /\ appt \in [Appts -> ApptRow]
    /\ total \in [Prestataires -> Nat]
    /\ events \subseteq EventFates \X Appts
    /\ now \in Nat

StoreInit ==
    /\ slot \in InitSlots
    /\ slotLock = [s \in Slots |-> Null]
    /\ appt = [a \in Appts |-> NoAppt]
    /\ total = [p \in Prestataires |-> 0]
    /\ events = {}
    /\ now = 0

\* Time passes.
ClockTick ==
    /\ now < MaxNow
    /\ now' = now + 1
    /\ UNCHANGED <<slot, slotLock, appt, total, events>>

-----------------------------------------------------------------------------
(* Queries and column arithmetic *)

Live(s) == slot[s].row = "live"

\* dayjs(t).diff(dayjs(), 'hour'): whole hours, truncated toward zero, so an
\* instant up to 59 minutes in the past is 0 hours away.
HoursUntil(t) ==
    IF t >= now THEN (t - now) \div TicksPerHour
                ELSE -((now - t) \div TicksPerHour)

Day(t) == t \div TicksPerDay

StartOf(s) == slot[s].date * TicksPerDay + slot[s].start

EndOf(s) == slot[s].date * TicksPerDay + slot[s].end

ApptsOf(s) == {a \in Appts : appt[a].slot = s}

\* Mutant: the migration without the unique index.
NoUniqueIndex(s) == TRUE

\* The unique index on appointments.slot_id lets a row for slot s in.  It
\* counts every row, whatever its status.
UniqueSlotId(s) == ApptsOf(s) = {}
=============================================================================
