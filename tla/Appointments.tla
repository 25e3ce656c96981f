---------------------------- MODULE Appointments ----------------------------
(***************************************************************************)
(* AppointmentsService: booking, cancelling and completing appointments,   *)
(* the cron job that completes old ones, and a crash of the server.        *)
(*                                                                         *)
(* A request is served in steps separated by the awaits of its handler at  *)
(* which another request can run.  Booking locks the slot's row for its    *)
(* whole transaction; cancelling and completing check the row they read,   *)
(* and write it later.  Each action is the code between two such awaits.   *)
(***************************************************************************)
EXTENDS BookingStore

CONSTANTS
    Serves,         \* Serves[r]: the clients whose calls request r carries
    NoticeHours,    \* values of min_booking_notice, min_cancellation_hours
    AutoCompleteAge,\* the 24 hours of autoCompleteOldAppointments, in ticks
    MayCrash        \* whether the server may crash

VARIABLE areq       \* areq[r]: how far request r has got

apptVars == <<storeVars, areq>>

ASSUME AppointmentsAssumption ==
    /\ Serves \in [Requests -> SUBSET Clients]
    /\ NoticeHours \subseteq Nat
    /\ AutoCompleteAge \in Nat
    /\ MayCrash \in BOOLEAN

-----------------------------------------------------------------------------
(* The state of a request.  pc is "created", "cancelled" or "completed"    *)
(* between the commit and the emission of the event of that name.          *)

BookingPc == {"locked", "insert"}

ApptPc == {"idle", "lock", "cancel", "complete"} \cup BookingPc \cup EventKinds

ApptRequest == [pc: ApptPc, client: Clients \cup {Null},
                slot: Slots \cup {Null}, appt: Appts \cup {Null},
                actor: Users \cup {Null}]

Idle == [pc |-> "idle", client |-> Null, slot |-> Null, appt |-> Null,
         actor |-> Null]

ApptTypeOK ==
    /\ StoreTypeOK
    /\ areq \in [Requests -> ApptRequest]

ApptInit ==
    /\ StoreInit
    /\ areq = [r \in Requests |-> Idle]

Finish(r) == areq' = [areq EXCEPT ![r] = Idle]

\* Mutant: the transaction is left open, so the row lock is never freed.
KeepLock(s) == UNCHANGED slotLock

Release(s) == slotLock' = [slotLock EXCEPT ![s] = Null]

-----------------------------------------------------------------------------
(* bookAppointment *)

BookBegin(r, c, s) ==
    /\ areq[r].pc = "idle"
    /\ c \in Serves[r]
    /\ areq' = [areq EXCEPT ![r] = [Idle EXCEPT !.pc = "lock",
                                                !.client = c, !.slot = s]]
    /\ UNCHANGED storeVars

\* Mutant: a plain SELECT, which neither waits for the row lock nor takes it.
BookReadUnlocked(r) ==
    LET s == areq[r].slot IN
    /\ areq[r].pc = "lock"
    /\ Live(s)
    /\ slot[s].status = "AVAILABLE"
    /\ areq' = [areq EXCEPT ![r].pc = "locked"]
    /\ UNCHANGED storeVars

\* SELECT ... FOR UPDATE waits for the lock, then returns the committed row.
BookLock(r) ==
    LET s == areq[r].slot IN
    /\ areq[r].pc = "lock"
    /\ slotLock[s] = Null
    /\ Live(s)
    /\ slot[s].status = "AVAILABLE"
    /\ slotLock' = [slotLock EXCEPT ![s] = r]
    /\ areq' = [areq EXCEPT ![r].pc = "locked"]
    /\ UNCHANGED <<slot, appt, total, events, now>>

\* 404 for a missing or deleted slot, 409 Conflict for one not AVAILABLE.
BookTurnedAway(r) ==
    LET s == areq[r].slot IN
    /\ areq[r].pc = "lock"
    /\ slotLock[s] = Null
    /\ ~(Live(s) /\ slot[s].status = "AVAILABLE")
    /\ Finish(r)
    /\ UNCHANGED storeVars

\* Mutant: the check for another appointment at the same time is lost.
NoClashCheck(c, s) == FALSE

\* The client already has a CONFIRMED appointment at the start of slot s.
ClientBusy(c, s) ==
    \E a \in Appts : /\ appt[a].client = c
                     /\ appt[a].status = "CONFIRMED"
                     /\ slot[appt[a].slot].date = slot[s].date
                     /\ slot[appt[a].slot].start = slot[s].start

\* The notice asked for is read from the prestataire's row: any value of
\* NoticeHours may be there.
BookCheck(r) ==
    LET s == areq[r].slot IN
    /\ areq[r].pc = "locked"
    /\ \E notice \in NoticeHours : HoursUntil(StartOf(s)) >= notice
    /\ ~ClientBusy(areq[r].client, s)
    /\ areq' = [areq EXCEPT ![r].pc = "insert"]
    /\ UNCHANGED storeVars

\* The transaction rolls back: the prestataire is not ACTIVE, the service is
\* not offered, the notice is too short or the client is busy.  The rows of
\* prestataires and services belong to other components, so any of the first
\* two may hold at any time.
BookRefuse(r) ==
    /\ areq[r].pc = "locked"
    /\ Release(areq[r].slot)
    /\ Finish(r)
    /\ UNCHANGED <<slot, appt, total, events, now>>

\* INSERT, slot.status = RESERVED, increment of totalAppointments, COMMIT.
BookCommit(r, a) ==
    LET s == areq[r].slot IN
    /\ areq[r].pc = "insert"
    /\ appt[a] = NoAppt
    /\ UniqueSlotId(s)
    /\ appt' = [appt EXCEPT ![a] = [NoAppt EXCEPT !.status = "CONFIRMED",
                                                  !.client = areq[r].client,
                                                  !.slot = s]]
    /\ slot' = [slot EXCEPT ![s].status = "RESERVED"]
    /\ total' = [total EXCEPT ![Owner[s]] = @ + 1]
    /\ Release(s)
    /\ areq' = [areq EXCEPT ![r] = [Idle EXCEPT !.pc = "created",
                                                !.appt = a]]
    /\ UNCHANGED <<events, now>>

\* The INSERT violates the unique index: roll back, 400 DUPLICATE_ENTRY.
BookDuplicate(r) ==
    LET s == areq[r].slot IN
    /\ areq[r].pc = "insert"
    /\ ~UniqueSlotId(s)
    /\ Release(s)
    /\ Finish(r)
    /\ UNCHANGED <<slot, appt, total, events, now>>

-----------------------------------------------------------------------------
(* cancelAppointment *)

Participants(a) == {appt[a].client, Owner[appt[a].slot]}

\* Only a client is held to the cancellation window.
InCancelWindow(a, u) ==
    \/ u \notin Clients
    \/ \E hours \in NoticeHours : HoursUntil(StartOf(appt[a].slot)) >= hours

CancelBegin(r, a, u) ==
    /\ areq[r].pc = "idle"
    /\ appt[a].status = "CONFIRMED"
    /\ u \in Participants(a)
    /\ u \in Clients => u \in Serves[r]
    /\ InCancelWindow(a, u)
    /\ areq' = [areq EXCEPT ![r] = [Idle EXCEPT !.pc = "cancel", !.appt = a,
                                                !.actor = u]]
    /\ UNCHANGED storeVars

\* Mutant: the role of the canceller is stored instead of the user's id.
RoleAsCanceller(r) == IF areq[r].actor \in Clients THEN "CLIENT"
                                                  ELSE "PRESTATAIRE"

Canceller(r) == areq[r].actor

\* The transaction saves the appointment read before and releases the slot by
\* its id, whatever either row has become meanwhile.  The entity read was
\* CONFIRMED, with no completed_at: save() writes that NULL over a completion
\* committed before it loads the row, and leaves one committed after.
CancelCommit(r) ==
    LET a == areq[r].appt
        s == appt[a].slot
    IN  /\ areq[r].pc = "cancel"
        /\ slotLock[s] = Null
        /\ \E done \in {FALSE, appt[a].completedAt} :
              appt' = [appt EXCEPT ![a] = [@ EXCEPT !.status = "CANCELLED",
                                                    !.cancelledBy = Canceller(r),
                                                    !.completedAt = done]]
        /\ slot' = [slot EXCEPT ![s].status = "AVAILABLE"]
        /\ areq' = [areq EXCEPT ![r] = [Idle EXCEPT !.pc = "cancelled",
                                                    !.appt = a]]
        /\ UNCHANGED <<slotLock, total, events, now>>

\* The transaction has updated the appointment and waits for the slot, whose
\* lock a booking holds that waits to insert the same slot_id: Postgres breaks
\* the deadlock, here by rolling the cancellation back, else by BookDuplicate.
CancelDeadlock(r) ==
    LET s == appt[areq[r].appt].slot IN
    /\ areq[r].pc = "cancel"
    /\ slotLock[s] # Null
    /\ areq[slotLock[s]].pc = "insert"
    /\ Finish(r)
    /\ UNCHANGED storeVars

-----------------------------------------------------------------------------
(* completeAppointment and autoCompleteOldAppointments *)

\* Mutant: an appointment can be completed as soon as it starts.
AfterStart(a) == now >= StartOf(appt[a].slot)

AfterEnd(a) == now >= EndOf(appt[a].slot)

\* Mutant: the event is emitted before the appointment is saved.
CompleteEmitFirst(r, a) ==
    /\ areq[r].pc = "idle"
    /\ appt[a].status = "CONFIRMED"
    /\ AfterEnd(a)
    /\ areq' = [areq EXCEPT ![r] = [Idle EXCEPT !.pc = "completed",
                                                !.appt = a]]
    /\ UNCHANGED storeVars

CompleteBegin(r, a) ==
    /\ areq[r].pc = "idle"
    /\ appt[a].status = "CONFIRMED"
    /\ AfterEnd(a)
    /\ areq' = [areq EXCEPT ![r] = [Idle EXCEPT !.pc = "complete",
                                                !.appt = a]]
    /\ UNCHANGED storeVars

\* save(), of an entity read with no cancelled_by: see CancelCommit.
CompleteCommit(r) ==
    LET a == areq[r].appt IN
    /\ areq[r].pc = "complete"
    /\ \E by \in {Null, appt[a].cancelledBy} :
          appt' = [appt EXCEPT ![a] = [@ EXCEPT !.status = "COMPLETED",
                                                !.cancelledBy = by,
                                                !.completedAt = TRUE]]
    /\ areq' = [areq EXCEPT ![r] = [Idle EXCEPT !.pc = "completed",
                                                !.appt = a]]
    /\ UNCHANGED <<slot, slotLock, total, events, now>>

\* Mutant: the job looks at a window of one tick, like the reminder queries.
OverdueWindow(a) ==
    /\ appt[a].status = "CONFIRMED"
    /\ EndOf(appt[a].slot) + AutoCompleteAge + 1 = now

Overdue(a) ==
    /\ appt[a].status = "CONFIRMED"
    /\ EndOf(appt[a].slot) + AutoCompleteAge < now

\* One UPDATE statement of the hourly job; it emits no event.
AutoComplete ==
    /\ \E a \in Appts : Overdue(a)
    /\ appt' = [a \in Appts |->
                  IF Overdue(a)
                    THEN [appt[a] EXCEPT !.status = "COMPLETED",
                                         !.completedAt = TRUE]
                    ELSE appt[a]]
    /\ UNCHANGED <<slot, slotLock, total, events, now, areq>>

-----------------------------------------------------------------------------
(* Events, the clock, a crash *)

\* Mutant: the reload after the COMMIT asks for a CONFIRMED row, and a booking
\* that is cancelled by then is not announced.
EmitIfOn(r) ==
    /\ areq[r].pc \in EventKinds
    /\ events' = IF areq[r].pc = "created" /\ appt[areq[r].appt].status # "CONFIRMED"
                 THEN events ELSE events \cup {<<areq[r].pc, areq[r].appt>>}
    /\ Finish(r)
    /\ UNCHANGED <<slot, slotLock, appt, total, now>>

\* The handler resumes after its COMMIT (a booking reloads its row) and emits;
\* emit() runs synchronously.
Emit(r) ==
    /\ areq[r].pc \in EventKinds
    /\ events' = events \cup {<<areq[r].pc, areq[r].appt>>}
    /\ Finish(r)
    /\ UNCHANGED <<slot, slotLock, appt, total, now>>

\* The reload after the COMMIT of a booking fails: the client gets an error for
\* an appointment that stands, and its event is never emitted.
ReloadFails(r) ==
    /\ areq[r].pc = "created"
    /\ events' = events \cup {<<"lost", areq[r].appt>>}
    /\ Finish(r)
    /\ UNCHANGED <<slot, slotLock, appt, total, now>>

Tick ==
    /\ ClockTick
    /\ UNCHANGED areq

\* Requests die with the process; Postgres rolls their transactions back.
Crash ==
    /\ MayCrash
    /\ \E r \in Requests : areq[r].pc # "idle"
    /\ areq' = [r \in Requests |-> Idle]
    /\ slotLock' = [s \in Slots |-> Null]
    /\ UNCHANGED <<slot, appt, total, events, now>>

-----------------------------------------------------------------------------
\* A step the server takes in a request it has already accepted.
Serve(r) ==
    \/ BookLock(r)
    \/ BookTurnedAway(r)
    \/ BookCheck(r)
    \/ BookRefuse(r)
    \/ \E a \in Appts : BookCommit(r, a)
    \/ BookDuplicate(r)
    \/ CancelCommit(r)
    \/ CancelDeadlock(r)
    \/ CompleteCommit(r)
    \/ Emit(r)
    \/ ReloadFails(r)

\* A new call reaches the server.
Accept(r) ==
    \/ \E c \in Clients, s \in Slots : BookBegin(r, c, s)
    \/ \E a \in Appts, u \in Users : CancelBegin(r, a, u)
    \/ \E a \in Appts : CompleteBegin(r, a)

ApptRequestNext == \E r \in Requests : Serve(r) \/ Accept(r)

ApptNext == ApptRequestNext \/ AutoComplete \/ Tick \/ Crash

ApptSpec == ApptInit /\ [][ApptNext]_apptVars

\* A request the server runs goes on (a waiter for a row lock is queued, so
\* it is not overtaken for ever), the job runs every hour, time passes.
\* Nothing makes a user call.
ApptFairness ==
    /\ \A r \in Requests : SF_apptVars(Serve(r))
    /\ WF_apptVars(AutoComplete)
    /\ WF_apptVars(Tick)

ApptFairSpec == ApptSpec /\ ApptFairness

-----------------------------------------------------------------------------
(* Properties *)

\* No slot is promised to two clients: at most one CONFIRMED appointment per
\* slot, whatever the interleaving of bookings, cancellations, completions
\* and crashes (the point of bookAppointment's lock and of the unique index).
NoDoubleBooking ==
    \A a, b \in Appts :
        /\ appt[a].status = "CONFIRMED" /\ appt[b].status = "CONFIRMED"
        /\ appt[a].slot = appt[b].slot
        => a = b

\* What bookAppointment checked of the slot when it locked the row is still
\* true when it inserts the appointment, several awaits later.
SlotStillAvailable ==
    \A r \in Requests : areq[r].pc \in BookingPc =>
        Live(areq[r].slot) /\ slot[areq[r].slot].status = "AVAILABLE"

\* The slot of a CONFIRMED appointment is there and marked RESERVED, so that
\* the guards of the slot handlers protect it.
ConfirmedHoldsSlot ==
    \A a \in Appts : appt[a].status = "CONFIRMED" =>
        Live(appt[a].slot) /\ slot[appt[a].slot].status = "RESERVED"

\* Every row of appointments that exists has a client and a slot.
RowsComplete ==
    \A a \in Appts :
        \/ appt[a] = NoAppt
        \/ /\ appt[a].status \in AppointmentStatus
           /\ appt[a].client \in Clients
           /\ appt[a].slot \in Slots

\* The unique index on slot_id: no two rows have one slot, whatever their
\* status.
OneRowPerSlot ==
    \A a, b \in Appts :
        /\ appt[a] # NoAppt /\ appt[b] # NoAppt
        /\ appt[a].slot = appt[b].slot
        => a = b

\* A request that books knows its client and slot; one past that, its
\* appointment, whose row exists.
RequestShape ==
    \A r \in Requests :
        /\ areq[r].pc \in BookingPc \cup {"lock"} =>
              areq[r].client \in Clients /\ areq[r].slot \in Slots
        /\ areq[r].pc \in {"cancel", "complete"} \cup EventKinds =>
              areq[r].appt \in Appts /\ appt[areq[r].appt] # NoAppt

\* From SELECT ... FOR UPDATE to COMMIT the request holds the row lock.
BookersHoldLock ==
    \A r \in Requests :
        areq[r].pc \in BookingPc => slotLock[areq[r].slot] = r

\* No row lock outlives its transaction: each is held by a request that books
\* that very slot, and goes on without waiting for anything but the row.  So
\* bookings never wait on each other in a circle, and no slot stays locked.
LocksAreHeld ==
    \A s \in Slots : slotLock[s] # Null =>
        /\ areq[slotLock[s]].pc \in BookingPc
        /\ areq[slotLock[s]].slot = s

\* What the row lock and the unique index together keep true of the requests
\* and the rows of appointments, whatever else is done to the slots.
BookingCore ==
    /\ ApptTypeOK
    /\ RowsComplete
    /\ OneRowPerSlot
    /\ RequestShape
    /\ BookersHoldLock
    /\ SlotStillAvailable

\* The inductive invariant of booking, whatever stale copies cancellations and
\* completions save.
BookingInv == BookingCore /\ ConfirmedHoldsSlot

\* A slot offered as AVAILABLE can be booked: the unique index has room for
\* its appointment.  (Violated: a cancelled appointment keeps its slot_id.)
AvailableIsBookable ==
    \A s \in Slots :
        Live(s) /\ slot[s].status = "AVAILABLE" => UniqueSlotId(s)

\* A client is never expected in two places: no two CONFIRMED appointments of
\* one client start together (bookAppointment's step 6).
NoClientClash ==
    \A a, b \in Appts :
        /\ appt[a].status = "CONFIRMED" /\ appt[b].status = "CONFIRMED"
        /\ appt[a].client = appt[b].client
        /\ slot[appt[a].slot].date = slot[appt[b].slot].date
        /\ slot[appt[a].slot].start = slot[appt[b].slot].start
        => a = b

\* A COMPLETED appointment (which opens reviews and counts for badges) is
\* over, by whichever of the two paths it was completed.
CompletedIsOver ==
    \A a \in Appts :
        appt[a].status = "COMPLETED" => now >= EndOf(appt[a].slot)

\* "Only confirmed appointments can be cancelled", or marked as completed: a
\* closed appointment keeps its status.  (Violated: the check is on the row
\* read before, and the save does not look again.)
ClosedIsFinal ==
    [][\A a \in Appts : appt[a].status \in {"CANCELLED", "COMPLETED"} =>
          appt'[a].status = appt[a].status]_apptVars

\* Listeners hear only of what the database has committed, even if the server
\* crashes: an event follows its transaction.
AnnouncedIsDurable ==
    \A a \in Appts :
        /\ <<"created", a>> \in events => appt[a].status # "NONE"
        /\ {<<"cancelled", a>>, <<"completed", a>>} \cap events # {} =>
              appt[a].status \in {"CANCELLED", "COMPLETED"}

\* The client who loses the race for a slot is told 409 Conflict: the unique
\* index (400 DUPLICATE_ENTRY) never speaks while the winner's appointment
\* is still on.
LoserGetsConflict ==
    [][\A r \in Requests : BookDuplicate(r) =>
          \A a \in ApptsOf(areq[r].slot) : appt[a].status # "CONFIRMED"
      ]_apptVars

\* The sales a history of the tables amounts to.
Sale == [s \in Slots |->
           {<<appt[a].client, IF appt[a].status = "CONFIRMED" THEN "held"
                                                              ELSE "closed">>
             : a \in ApptsOf(s)}]

SaleOf == INSTANCE SlotSale WITH sale <- Sale

\* Booking implements SlotSale: each slot is sold at most once, ever, and a
\* closed appointment never comes back to CONFIRMED.
SaleRefined == SaleOf!Spec

\* Every accepted request is answered: no one waits for ever on a row lock.
RequestsFinish ==
    \A r \in Requests : areq[r].pc # "idle" ~> areq[r].pc = "idle"

\* A booking, once committed, is announced to the listeners, even if it is
\* cancelled before its handler resumes.  While the server stays up only a
\* reload that fails after the COMMIT loses the event.
BookingsAnnounced ==
    \A a \in Appts :
        appt[a].status = "CONFIRMED" ~>
            <<"created", a>> \in events \/ <<"lost", a>> \in events

\* No appointment stays CONFIRMED for ever: the hourly job completes what the
\* participants leave open.
AppointmentsClose ==
    \A a \in Appts :
        appt[a].status = "CONFIRMED" ~> appt[a].status # "CONFIRMED"
=============================================================================
