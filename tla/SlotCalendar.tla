---------------------------- MODULE SlotCalendar ----------------------------
(***************************************************************************)
(* SlotsService: a prestataire creates, changes, deletes and blocks slots. *)
(*                                                                         *)
(* None of these handlers opens a transaction around its checks.  Each     *)
(* reads rows, checks them, changes its copies and calls save().  TypeORM's*)
(* save() reads the rows again, compares the copies with what it has just  *)
(* read, and updates the columns that differ.  So a handler is three steps *)
(* or more: read, load, write, with other requests between them.           *)
(***************************************************************************)
EXTENDS BookingStore

CONSTANTS
    SlotRequests,   \* the slot requests being served at one time
    SlotOps         \* the operations prestataires call

VARIABLE sreq       \* sreq[q]: how far slot request q has got

SlotOpNames == {"create", "update", "delete", "block"}

Interval == [date: Nat, start: Nat, end: Nat]

CONSTANT Intervals  \* the dates and times prestataires ask for

ASSUME SlotsAssumption ==
    /\ SlotOps \subseteq SlotOpNames
    /\ Intervals \subseteq Interval

-----------------------------------------------------------------------------
(* The state of a request: the ids of the slots it saves, the entities in  *)
(* memory, and the columns its save() is going to write.                   *)

SlotPc == {"idle", "insert", "overlap", "load", "write"}

Columns == {"row", "status", "date", "start", "end"}

SlotRequest == [pc: SlotPc, ids: SUBSET Slots, entity: [Slots -> SlotRow],
                dirty: [Slots -> SUBSET Columns]]

NoRow == [row |-> "absent", status |-> "AVAILABLE", date |-> 0, start |-> 0,
          end |-> 0]

NoRows == [s \in Slots |-> NoRow]

Quiet == [pc |-> "idle", ids |-> {}, entity |-> NoRows,
          dirty |-> [s \in Slots |-> {}]]

SlotsTypeOK == sreq \in [SlotRequests -> SlotRequest]

SlotsInit == sreq = [q \in SlotRequests |-> Quiet]

Stop(q) == sreq' = [sreq EXCEPT ![q] = Quiet]

\* The request goes on to step pc, to save the entities ent of the slots S.
Proceed(q, pc, S, ent) ==
    sreq' = [sreq EXCEPT ![q] = [Quiet EXCEPT !.pc = pc, !.ids = S,
                !.entity = [s \in Slots |-> IF s \in S THEN ent[s] ELSE NoRow]]]

-----------------------------------------------------------------------------
(* Checks *)

\* hasTimeOverlap, for times of one day
TimesOverlap(i, j) == i.start < j.end /\ i.end > j.start

\* Blocked and deleted slots are not looked at.
Overlaps(p, i, excluded) ==
    \E s \in Slots \ excluded :
        /\ Owner[s] = p
        /\ slot[s].date = i.date
        /\ Live(s)
        /\ slot[s].status # "BLOCKED"
        /\ TimesOverlap(i, slot[s])

NotPast(d) == d >= Day(now)

WellOrdered(i) == i.end > i.start

-----------------------------------------------------------------------------
(* createSlot *)

\* s is the id the INSERT will draw; no other request has drawn it.
CreateBegin(q, s, i) ==
    /\ "create" \in SlotOps
    /\ sreq[q].pc = "idle"
    /\ slot[s].row = "absent"
    /\ \A q2 \in SlotRequests : s \notin sreq[q2].ids
    /\ NotPast(i.date)
    /\ WellOrdered(i)
    /\ ~Overlaps(Owner[s], i, {})
    /\ LET new == [row |-> "live", status |-> "AVAILABLE", date |-> i.date,
                   start |-> i.start, end |-> i.end]
       IN  Proceed(q, "insert", {s}, [t \in {s} |-> new])
    /\ UNCHANGED storeVars

CreateInsert(q) ==
    /\ sreq[q].pc = "insert"
    /\ slot' = [s \in Slots |-> IF s \in sreq[q].ids THEN sreq[q].entity[s]
                                                    ELSE slot[s]]
    /\ Stop(q)
    /\ UNCHANGED <<slotLock, appt, total, events, now>>

-----------------------------------------------------------------------------
(* createRecurringSlots.  Its INSERT never succeeds (the pattern id is no   *)
(* uuid and the column is one), so the handler changes no state; what it    *)
(* generates for a day is an operator on the slots it reads.                *)

\* Mutant: the next slot starts a pause after the last one started.
PauseOnly(duration, pause) == IF pause > 0 THEN pause ELSE duration

Stride(duration, pause) == duration + pause

\* The slots of `duration' that fit in the window i, a pause after each.
DayTimes(i, duration, pause) ==
    {[date |-> i.date, start |-> t, end |-> t + duration] :
        t \in {u \in i.start..i.end :
                /\ u + duration <= i.end
                /\ (u - i.start) % Stride(duration, pause) = 0}}

\* generateDaySlots skips the times at which p already has a slot.
GenerateDay(p, i, duration, pause) ==
    {j \in DayTimes(i, duration, pause) : ~Overlaps(p, j, {})}

-----------------------------------------------------------------------------
(* updateSlot, deleteSlot, blockSlots: from the read to the save() *)

\* Mutant: the guard against RESERVED slots is lost.
AnyLive(s) == Live(s)

\* The row the handler reads is there and not RESERVED.
Modifiable(s) == Live(s) /\ slot[s].status # "RESERVED"

\* The body of PATCH may set status to any SlotStatus; times are checked only
\* when they are given, the day only when it is given.
UpdateStatus(q, s, st) ==
    /\ "update" \in SlotOps
    /\ sreq[q].pc = "idle"
    /\ Modifiable(s)
    /\ Proceed(q, "load", {s}, [t \in {s} |-> [slot[s] EXCEPT !.status = st]])
    /\ UNCHANGED storeVars

UpdateTimes(q, s, st, i) ==
    /\ "update" \in SlotOps
    /\ sreq[q].pc = "idle"
    /\ Modifiable(s)
    /\ NotPast(i.date) \/ i.date = slot[s].date
    /\ WellOrdered(i)
    /\ Proceed(q, "overlap", {s},
               [t \in {s} |-> [slot[s] EXCEPT !.status = st, !.date = i.date,
                                              !.start = i.start, !.end = i.end]])
    /\ UNCHANGED storeVars

\* Mutant: the overlap is checked with the times before the update.
UpdateOverlapOld(q) ==
    /\ sreq[q].pc = "overlap"
    /\ \E s \in sreq[q].ids :
          IF Overlaps(Owner[s], slot[s], {s})
            THEN Stop(q)
            ELSE sreq' = [sreq EXCEPT ![q].pc = "load"]
    /\ UNCHANGED storeVars

\* checkOverlap, after the read: 409 on an overlap, else on to save().
UpdateOverlap(q) ==
    /\ sreq[q].pc = "overlap"
    /\ \E s \in sreq[q].ids :
          IF Overlaps(Owner[s], sreq[q].entity[s], {s})
            THEN Stop(q)
            ELSE sreq' = [sreq EXCEPT ![q].pc = "load"]
    /\ UNCHANGED storeVars

DeleteRead(q, s) ==
    /\ "delete" \in SlotOps
    /\ sreq[q].pc = "idle"
    /\ Modifiable(s)
    /\ Proceed(q, "load", {s}, [t \in {s} |-> [slot[s] EXCEPT !.row = "deleted"]])
    /\ UNCHANGED storeVars

\* The AVAILABLE slots of p on the days from d1 to d2 (with none, save([]) is
\* no step).
BlockRead(q, p, d1, d2) ==
    LET S == {s \in Slots : /\ Owner[s] = p
                            /\ slot[s].status = "AVAILABLE"
                            /\ slot[s].date \in d1..d2
                            /\ Live(s)}
    IN  /\ "block" \in SlotOps
        /\ sreq[q].pc = "idle"
        /\ S # {}
        /\ Proceed(q, "load", S, [s \in S |-> [slot[s] EXCEPT !.status = "BLOCKED"]])
        /\ UNCHANGED storeVars

-----------------------------------------------------------------------------
(* save() *)

\* save() reads the rows of its entities and notes the columns that differ;
\* with none it is done.
SaveLoad(q) ==
    LET differ == [s \in Slots |->
                     IF s \in sreq[q].ids
                       THEN {col \in Columns : sreq[q].entity[s][col] # slot[s][col]}
                       ELSE {}]
    IN  /\ sreq[q].pc = "load"
        /\ IF \A s \in Slots : differ[s] = {}
             THEN Stop(q)
             ELSE sreq' = [sreq EXCEPT ![q].pc = "write", ![q].dirty = differ]
        /\ UNCHANGED storeVars

\* The rows after UPDATE ... SET the dirty columns.
Saved(q) ==
    [s \in Slots |-> [col \in Columns |-> IF col \in sreq[q].dirty[s]
                                            THEN sreq[q].entity[s][col]
                                            ELSE slot[s][col]]]

\* CHECK ("end_time" > "start_time")
TimesChecked(rows) == \A s \in Slots : rows[s].row # "absent" => WellOrdered(rows[s])

WaitsForLocks(q) == \A s \in Slots : sreq[q].dirty[s] # {} => slotLock[s] = Null

\* One transaction updates the rows; each UPDATE waits for the row's lock.  If
\* a row fails the CHECK, the transaction rolls back.
SaveWrite(q) ==
    /\ sreq[q].pc = "write"
    /\ WaitsForLocks(q)
    /\ slot' = IF TimesChecked(Saved(q)) THEN Saved(q) ELSE slot
    /\ Stop(q)
    /\ UNCHANGED <<slotLock, appt, total, events, now>>

-----------------------------------------------------------------------------
SlotServe(q) == CreateInsert(q) \/ UpdateOverlap(q) \/ SaveLoad(q) \/ SaveWrite(q)

SlotAccept(q) ==
    \/ \E s \in Slots, i \in Intervals : CreateBegin(q, s, i)
    \/ \E s \in Slots, st \in SlotStatus : UpdateStatus(q, s, st)
    \/ \E s \in Slots, st \in SlotStatus, i \in Intervals : UpdateTimes(q, s, st, i)
    \/ \E s \in Slots : DeleteRead(q, s)
    \/ \E p \in Prestataires, d1, d2 \in {slot[s].date : s \in Slots} :
          BlockRead(q, p, d1, d2)

SlotsNext == \E q \in SlotRequests : SlotServe(q) \/ SlotAccept(q)

\* SlotsService alone, on a database without appointments.
slotVars == <<storeVars, sreq>>

CalendarInit == StoreInit /\ SlotsInit

CalendarSpec ==
    CalendarInit /\ [][SlotsNext \/ (ClockTick /\ UNCHANGED sreq)]_slotVars

-----------------------------------------------------------------------------
(* Properties *)

\* A slot of a prestataire that takes up time: blocked ones do not count.
Counts(s) == Live(s) /\ slot[s].status # "BLOCKED"

Clash(s, t) ==
    /\ s # t
    /\ Owner[s] = Owner[t]
    /\ Counts(s) /\ Counts(t)
    /\ slot[s].date = slot[t].date
    /\ TimesOverlap(slot[s], slot[t])

\* When a prestataire's requests come one at a time, creating and moving slots
\* never makes two of them overlap; only a slot that was BLOCKED, which the
\* check passes over, can come to overlap another.
OverlapOnlyFromBlocked ==
    [][\A s, t \in Slots : Clash(s, t)' /\ ~Clash(s, t) =>
          "BLOCKED" \in {slot[s].status, slot[t].status}]_slotVars

\* The slots generated for a day lie in the window, overlap neither each other
\* nor a slot that is already there, whatever the duration and the pause.
GeneratedDayFits ==
    \A p \in Prestataires, i \in Intervals, duration \in 1..2, pause \in 0..1 :
        LET day == GenerateDay(p, i, duration, pause) IN
        \A j \in day :
            /\ i.start <= j.start /\ j.end <= i.end
            /\ \A k \in day \ {j} : ~TimesOverlap(j, k)
            /\ \A s \in Slots : Owner[s] = p /\ Counts(s) /\ slot[s].date = j.date
                               => ~TimesOverlap(j, slot[s])
=============================================================================
