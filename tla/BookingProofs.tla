--------------------------- MODULE BookingProofs ----------------------------
(***************************************************************************)
(* Clients book while prestataires change the same slots: what the row     *)
(* lock still protects, and when a booking keeps its slot.  Then the slots *)
(* alone: what is generated for a day, and where overlaps come from.       *)
(***************************************************************************)
EXTENDS Booking, AppointmentsProofs

-----------------------------------------------------------------------------
(* The invariant *)

\* A slot that a booking has locked is there.
LockedIsLive == \A s \in Slots : slotLock[s] # Null => Live(s)

\* A slot about to be inserted is not there yet, and nobody else saves it.
InsertsApart ==
    \A q \in SlotRequests : sreq[q].pc = "insert" =>
        \A s \in sreq[q].ids :
            /\ slot[s].row = "absent"
            /\ WellOrdered(sreq[q].entity[s])
            /\ \A q2 \in SlotRequests \ {q} : s \notin sreq[q2].ids

\* A save writes no other rows than those of its entities.
DirtyIsSaved ==
    \A q \in SlotRequests, s \in Slots : sreq[q].dirty[s] # {} => s \in sreq[q].ids

\* No slot request holds the slot of a CONFIRMED appointment, unless it had
\* read the slot before it was booked.
UnracedIsNotHeld ==
    \A a \in Appts, q \in SlotRequests :
        appt[a].status = "CONFIRMED" /\ appt[a].slot \notin raced
            => appt[a].slot \notin sreq[q].ids

SharedInv ==
    /\ BookingCore
    /\ SlotsTypeOK
    /\ raced \subseteq Slots
    /\ SlotsWellOrdered
    /\ LockedIsLive
    /\ InsertsApart
    /\ DirtyIsSaved
    /\ UnracedBookingHoldsSlot
    /\ UnracedIsNotHeld

LEMMA QuietTyped ==
    /\ NoRow \in SlotRow /\ Quiet \in SlotRequest
    /\ Quiet.pc = "idle" /\ Quiet.ids = {} /\ \A s \in Slots : Quiet.dirty[s] = {}
<1>1. NoRow \in SlotRow
  BY DEF NoRow, SlotRow, SlotStatus
<1>2. NoRows \in [Slots -> SlotRow]
  BY <1>1 DEF NoRows
<1>3. [s \in Slots |-> {}] \in [Slots -> SUBSET Columns]
  OBVIOUS
<1> HIDE DEF NoRows
<1> QED
  BY <1>1, <1>2, <1>3 DEF Quiet, SlotRequest, SlotPc

LEMMA InitShared == Init => SharedInv
<1> SUFFICES ASSUME Init PROVE SharedInv
  OBVIOUS
<1>1. ApptInit /\ SlotsInit /\ raced = {}
  BY DEF Init
<1>2. BookingCore
  BY <1>1, InitInv DEF BookingInv
<1>3. sreq \in [SlotRequests -> SlotRequest] /\ \A q \in SlotRequests : sreq[q] = Quiet
  BY <1>1, QuietTyped DEF SlotsInit
<1>4. \A a \in Appts : appt[a].status = "NONE"
  BY <1>1, IdleTyped DEF ApptInit, StoreInit
<1>5. SlotsWellOrdered
  <2> SUFFICES ASSUME NEW s \in Slots, slot[s].row # "absent"
               PROVE  WellOrdered(slot[s])
    BY DEF SlotsWellOrdered
  <2>1. slot[s] \in SlotRow /\ slot[s].start < slot[s].end
    BY <1>1, StoreAssumption DEF ApptInit, StoreInit
  <2> QED
    BY <2>1 DEF WellOrdered, SlotRow
<1>6. LockedIsLive
  BY <1>1 DEF ApptInit, StoreInit, LockedIsLive
<1>7. InsertsApart /\ DirtyIsSaved
  BY <1>3, QuietTyped DEF InsertsApart, DirtyIsSaved
<1>8. UnracedBookingHoldsSlot /\ UnracedIsNotHeld
  BY <1>4 DEF UnracedBookingHoldsSlot, UnracedIsNotHeld
<1> QED
  BY <1>1, <1>2, <1>3, <1>5, <1>6, <1>7, <1>8 DEF SharedInv, SlotsTypeOK

-----------------------------------------------------------------------------
(* Steps of SlotsService *)

\* Request q goes on as req and may write rows of its entities that nobody has
\* locked.  It may come to hold slots that are there and not RESERVED, or that
\* it is going to insert.
SlotGoesOn(q, req) ==
    /\ sreq' = [sreq EXCEPT ![q] = req]
    /\ UNCHANGED <<slotLock, appt, total, events, now, areq, raced>>
    /\ slot' \in [Slots -> SlotRow]
    /\ \A s \in Slots :
          \/ slot'[s] = slot[s]
          \/ /\ s \in sreq[q].ids /\ slotLock[s] = Null
             /\ slot'[s].row # "absent" => WellOrdered(slot'[s])
    /\ req.pc = "insert" =>
          \A s \in req.ids : /\ slot'[s].row = "absent"
                             /\ WellOrdered(req.entity[s])
                             /\ \A q2 \in SlotRequests \ {q} : s \notin sreq[q2].ids
    /\ \A s \in Slots : req.dirty[s] # {} => s \in req.ids
    /\ \A s \in req.ids : \/ s \in sreq[q].ids
                          \/ Modifiable(s)
                          \/ req.pc = "insert"

LEMMA SlotStepKeeps ==
    ASSUME SharedInv, NEW q \in SlotRequests, NEW req \in SlotRequest, SlotGoesOn(q, req)
    PROVE  SharedInv'
<1> USE DEF SharedInv, SlotGoesOn
<1>1. /\ sreq' \in [SlotRequests -> SlotRequest] /\ sreq'[q] = req
      /\ \A p \in SlotRequests \ {q} : sreq'[p] = sreq[p]
      /\ \A p \in SlotRequests : sreq[p].ids \subseteq Slots /\ sreq'[p].ids \subseteq Slots
  BY DEF SlotsTypeOK, SlotRequest
<1>2. \A s \in Slots : slotLock[s] # Null => slot'[s] = slot[s]
  OBVIOUS
<1>3. BookingCore'
  <2>1. ApptTypeOK'
    BY DEF BookingCore, ApptTypeOK, StoreTypeOK
  <2>2. RowsComplete' /\ OneRowPerSlot' /\ RequestShape' /\ BookersHoldLock'
    BY DEF BookingCore, RowsComplete, OneRowPerSlot, RequestShape, BookersHoldLock
  <2>3. SlotStillAvailable'
    <3> SUFFICES ASSUME NEW r \in Requests, areq[r].pc \in BookingPc
                 PROVE  slot'[areq[r].slot].row = "live"
                        /\ slot'[areq[r].slot].status = "AVAILABLE"
      BY DEF SlotStillAvailable, Live
    <3>1. areq[r].slot \in Slots /\ slotLock[areq[r].slot] = r
      BY DEF BookingCore, RequestShape, BookersHoldLock
    <3>2. slot'[areq[r].slot] = slot[areq[r].slot]
      BY <1>2, <3>1, StoreAssumption
    <3> QED
      BY <3>2 DEF BookingCore, SlotStillAvailable, Live
  <2> QED
    BY <2>1, <2>2, <2>3 DEF BookingCore
<1>4. SlotsWellOrdered'
  BY DEF SlotsWellOrdered
<1>5. LockedIsLive'
  BY <1>2 DEF LockedIsLive, Live
<1>6. InsertsApart'
  <2> SUFFICES ASSUME NEW p \in SlotRequests, sreq'[p].pc = "insert",
                      NEW s \in sreq'[p].ids
               PROVE  /\ slot'[s].row = "absent"
                      /\ WellOrdered(sreq'[p].entity[s])
                      /\ \A q2 \in SlotRequests \ {p} : s \notin sreq'[q2].ids
    BY DEF InsertsApart
  <2>1. CASE p = q
    BY <1>1, <2>1
  <2>2. CASE p # q
    <3>1. /\ sreq[p].pc = "insert" /\ s \in sreq[p].ids /\ s \in Slots
          /\ sreq'[p] = sreq[p]
      BY <1>1, <2>2
    <3>2. /\ slot[s].row = "absent" /\ WellOrdered(sreq[p].entity[s])
          /\ \A q2 \in SlotRequests \ {p} : s \notin sreq[q2].ids
      BY <3>1 DEF InsertsApart
    <3>3. s \notin sreq[q].ids
      BY <2>2, <3>2
    <3>4. slot'[s] = slot[s]
      BY <3>1, <3>3
    <3>5. s \notin req.ids
      BY <2>2, <3>1, <3>2, <3>3 DEF Modifiable, Live
    <3> QED
      BY <1>1, <3>1, <3>2, <3>4, <3>5
  <2> QED
    BY <2>1, <2>2
<1>7. DirtyIsSaved'
  BY <1>1 DEF DirtyIsSaved
<1>8. ASSUME NEW a \in Appts, appt[a].status = "CONFIRMED", appt[a].slot \notin raced
      PROVE  /\ slot'[appt[a].slot].row = "live"
             /\ slot'[appt[a].slot].status = "RESERVED"
             /\ \A p \in SlotRequests : appt[a].slot \notin sreq'[p].ids
  <2>1. appt[a].slot \in Slots
    BY <1>8, IdleTyped DEF BookingCore, RowsComplete
  <2>2. /\ Live(appt[a].slot) /\ slot[appt[a].slot].status = "RESERVED"
        /\ \A p \in SlotRequests : appt[a].slot \notin sreq[p].ids
    BY <1>8 DEF UnracedBookingHoldsSlot, UnracedIsNotHeld
  <2>3. slot'[appt[a].slot] = slot[appt[a].slot]
    BY <2>1, <2>2
  <2>4. appt[a].slot \notin req.ids
    BY <2>2, <2>3 DEF Modifiable, Live
  <2> QED
    BY <1>1, <2>2, <2>3, <2>4 DEF Live
<1>9. UnracedBookingHoldsSlot' /\ UnracedIsNotHeld'
  BY <1>8 DEF UnracedBookingHoldsSlot, UnracedIsNotHeld, Live
<1> QED
  BY <1>1, <1>3, <1>4, <1>5, <1>6, <1>7, <1>9 DEF SlotsTypeOK

\* A request that stops, or goes on to save the slots it holds, writing nothing.
LEMMA SlotRequestMoves ==
    ASSUME SharedInv, NEW q \in SlotRequests, NEW req \in SlotRequest,
           sreq' = [sreq EXCEPT ![q] = req],
           UNCHANGED <<storeVars, areq, raced>>,
           req.pc # "insert",
           \A s \in Slots : req.dirty[s] # {} => s \in req.ids,
           \A s \in req.ids : s \in sreq[q].ids \/ Modifiable(s)
    PROVE  SharedInv'
<1>1. slot' \in [Slots -> SlotRow]
  BY DEF SharedInv, BookingCore, ApptTypeOK, StoreTypeOK, storeVars
<1>2. SlotGoesOn(q, req)
  BY <1>1 DEF SlotGoesOn, storeVars
<1> QED
  BY <1>2, SlotStepKeeps

\* A request that stops after its save.
LEMMA SlotRequestStops ==
    ASSUME SharedInv, NEW q \in SlotRequests, Stop(q),
           UNCHANGED <<slotLock, appt, total, events, now, areq, raced>>,
           slot' \in [Slots -> SlotRow],
           \A s \in Slots :
              \/ slot'[s] = slot[s]
              \/ /\ s \in sreq[q].ids /\ slotLock[s] = Null
                 /\ slot'[s].row # "absent" => WellOrdered(slot'[s])
    PROVE  SharedInv'
<1>1. SlotGoesOn(q, Quiet)
  BY QuietTyped DEF SlotGoesOn, Stop
<1> QED
  BY <1>1, QuietTyped, SlotStepKeeps

\* The record that Proceed gives a request.
Held(pc, S, ent) ==
    [Quiet EXCEPT !.pc = pc, !.ids = S,
                  !.entity = [s \in Slots |-> IF s \in S THEN ent[s] ELSE NoRow]]

LEMMA HeldTyped ==
    ASSUME NEW pc \in SlotPc, NEW S \in SUBSET Slots, NEW ent \in [S -> SlotRow]
    PROVE  /\ Held(pc, S, ent) \in SlotRequest
           /\ Held(pc, S, ent).pc = pc /\ Held(pc, S, ent).ids = S
           /\ \A s \in S : Held(pc, S, ent).entity[s] = ent[s]
           /\ \A s \in Slots : Held(pc, S, ent).dirty[s] = {}
<1> DEFINE rows == [s \in Slots |-> IF s \in S THEN ent[s] ELSE NoRow]
           req == [Quiet EXCEPT !.pc = pc, !.ids = S, !.entity = rows]
<1>1. rows \in [Slots -> SlotRow]
  BY QuietTyped
<1>2. \A s \in S : rows[s] = ent[s]
  OBVIOUS
<1>3. Held(pc, S, ent) = req
  BY DEF Held
<1> HIDE DEF rows
<1>4. /\ req \in SlotRequest /\ req.pc = pc /\ req.ids = S
      /\ req.entity = rows /\ req.dirty = Quiet.dirty
  BY <1>1, QuietTyped DEF SlotRequest
<1> HIDE DEF req
<1> QED
  BY <1>2, <1>3, <1>4, QuietTyped

\* A handler reads slots that are there and not RESERVED.
LEMMA SlotReads ==
    ASSUME SharedInv, NEW q \in SlotRequests, NEW pc \in {"overlap", "load"},
           NEW S \in SUBSET Slots, \A s \in S : Modifiable(s),
           NEW ent \in [S -> SlotRow],
           Proceed(q, pc, S, ent), UNCHANGED <<storeVars, areq, raced>>
    PROVE  SharedInv'
<1> DEFINE req == Held(pc, S, ent)
<1>1. pc \in SlotPc /\ pc # "insert"
  BY DEF SlotPc
<1>2. /\ req \in SlotRequest /\ req.pc = pc /\ req.ids = S
      /\ \A s \in Slots : req.dirty[s] = {}
  BY <1>1, HeldTyped
<1>3. sreq' = [sreq EXCEPT ![q] = req]
  BY DEF Proceed, Held
<1> HIDE DEF req
<1> QED
  BY <1>1, <1>2, <1>3, SlotRequestMoves

LEMMA SlotAcceptKeeps ==
    ASSUME SharedInv, NEW q \in SlotRequests, SlotAccept(q), UNCHANGED <<areq, raced>>
    PROVE  SharedInv'
<1>0. \A s \in Slots : slot[s] \in SlotRow
  BY DEF SharedInv, BookingCore, ApptTypeOK, StoreTypeOK
<1>1. ASSUME NEW s \in Slots, NEW i \in Intervals, CreateBegin(q, s, i)
      PROVE  SharedInv'
  <2> DEFINE new == [row |-> "live", status |-> "AVAILABLE", date |-> i.date,
                     start |-> i.start, end |-> i.end]
             ent == [t \in {s} |-> new]
  <2>1. new \in SlotRow /\ WellOrdered(new)
    BY <1>1, SlotsAssumption DEF CreateBegin, WellOrdered, SlotRow, SlotStatus, Interval
  <2>2. /\ slot[s].row = "absent"
        /\ \A q2 \in SlotRequests : s \notin sreq[q2].ids
        /\ Proceed(q, "insert", {s}, ent)
        /\ UNCHANGED storeVars
    BY <1>1 DEF CreateBegin
  <2> DEFINE req == Held("insert", {s}, ent)
  <2> HIDE DEF new
  <2>3. /\ ent \in [{s} -> SlotRow]
        /\ \A t \in {s} : WellOrdered(ent[t])
        /\ {s} \in SUBSET Slots /\ "insert" \in SlotPc
    BY <2>1 DEF SlotPc
  <2> HIDE DEF ent
  <2>4. /\ req \in SlotRequest /\ req.pc = "insert" /\ req.ids = {s}
        /\ \A t \in {s} : req.entity[t] = ent[t]
        /\ \A t \in Slots : req.dirty[t] = {}
    <3> DEFINE S == {s}
    <3>1. S \in SUBSET Slots /\ ent \in [S -> SlotRow] /\ "insert" \in SlotPc
      BY <2>3
    <3>2. req = Held("insert", S, ent)
      OBVIOUS
    <3> HIDE DEF S, req
    <3>3. /\ req \in SlotRequest /\ req.pc = "insert" /\ req.ids = S
          /\ \A t \in S : req.entity[t] = ent[t]
          /\ \A t \in Slots : req.dirty[t] = {}
      BY <3>1, <3>2, HeldTyped
    <3> QED
      BY <3>3 DEF S
  <2>5. sreq' = [sreq EXCEPT ![q] = req]
    BY <2>2 DEF Proceed, Held
  <2> HIDE DEF req
  <2>6. SlotGoesOn(q, req)
    BY <1>0, <2>2, <2>3, <2>4, <2>5
       DEF SlotGoesOn, storeVars, SharedInv, BookingCore, ApptTypeOK, StoreTypeOK
  <2> QED
    BY <2>4, <2>6, SlotStepKeeps
<1>2. ASSUME NEW s \in Slots, NEW st \in SlotStatus, UpdateStatus(q, s, st)
      PROVE  SharedInv'
  <2> DEFINE ent == [t \in {s} |-> [slot[s] EXCEPT !.status = st]]
  <2>1. {s} \in SUBSET Slots /\ ent \in [{s} -> SlotRow] /\ Modifiable(s)
    BY <1>0, <1>2 DEF UpdateStatus, SlotRow
  <2>2. Proceed(q, "load", {s}, ent) /\ UNCHANGED storeVars
    BY <1>2 DEF UpdateStatus
  <2> HIDE DEF ent
  <2> QED
    BY <2>1, <2>2, SlotReads
<1>3. ASSUME NEW s \in Slots, NEW st \in SlotStatus, NEW i \in Intervals,
             UpdateTimes(q, s, st, i)
      PROVE  SharedInv'
  <2> DEFINE ent == [t \in {s} |-> [slot[s] EXCEPT !.status = st, !.date = i.date,
                                       !.start = i.start, !.end = i.end]]
  <2>1. {s} \in SUBSET Slots /\ ent \in [{s} -> SlotRow] /\ Modifiable(s)
    BY <1>0, <1>3, SlotsAssumption DEF UpdateTimes, SlotRow, Interval
  <2>2. Proceed(q, "overlap", {s}, ent) /\ UNCHANGED storeVars
    BY <1>3 DEF UpdateTimes
  <2> HIDE DEF ent
  <2> QED
    BY <2>1, <2>2, SlotReads
<1>4. ASSUME NEW s \in Slots, DeleteRead(q, s) PROVE SharedInv'
  <2> DEFINE ent == [t \in {s} |-> [slot[s] EXCEPT !.row = "deleted"]]
  <2>1. {s} \in SUBSET Slots /\ ent \in [{s} -> SlotRow] /\ Modifiable(s)
    BY <1>0, <1>4 DEF DeleteRead, SlotRow
  <2>2. Proceed(q, "load", {s}, ent) /\ UNCHANGED storeVars
    BY <1>4 DEF DeleteRead
  <2> HIDE DEF ent
  <2> QED
    BY <2>1, <2>2, SlotReads
<1>5. ASSUME NEW p \in Prestataires, NEW d1, NEW d2, BlockRead(q, p, d1, d2)
      PROVE  SharedInv'
  <2> DEFINE S == {s \in Slots : /\ Owner[s] = p
                                 /\ slot[s].status = "AVAILABLE"
                                 /\ slot[s].date \in d1..d2
                                 /\ Live(s)}
             ent == [s \in S |-> [slot[s] EXCEPT !.status = "BLOCKED"]]
  <2>1. S \in SUBSET Slots /\ ent \in [S -> SlotRow] /\ \A t \in S : Modifiable(t)
    BY <1>0 DEF Modifiable, SlotRow, SlotStatus
  <2>2. Proceed(q, "load", S, ent) /\ UNCHANGED storeVars
    BY <1>5 DEF BlockRead
  <2> HIDE DEF S, ent
  <2> QED
    BY <2>1, <2>2, SlotReads
<1> QED
  BY <1>1, <1>2, <1>3, <1>4, <1>5 DEF SlotAccept

\* The rows a save leaves are rows.
LEMMA SavedTyped ==
    ASSUME SharedInv, NEW q \in SlotRequests
    PROVE  /\ Saved(q) \in [Slots -> SlotRow]
           /\ \A s \in Slots : sreq[q].dirty[s] = {} => Saved(q)[s] = slot[s]
<1>1. sreq[q].entity \in [Slots -> SlotRow] /\ slot \in [Slots -> SlotRow]
  BY DEF SharedInv, BookingCore, ApptTypeOK, StoreTypeOK, SlotsTypeOK, SlotRequest
<1>2. ASSUME NEW s \in Slots
      PROVE  /\ Saved(q)[s] \in SlotRow
             /\ sreq[q].dirty[s] = {} => Saved(q)[s] = slot[s]
  <2> DEFINE old == slot[s]
             new == sreq[q].entity[s]
             row == [col \in Columns |-> IF col \in sreq[q].dirty[s] THEN new[col]
                                         ELSE old[col]]
  <2>1. Saved(q)[s] = row
    BY DEF Saved
  <2>2. old \in SlotRow /\ new \in SlotRow
    BY <1>1
  <2> HIDE DEF old, new
  <2>3. row \in SlotRow
    BY <2>2 DEF SlotRow, Columns
  <2>4. sreq[q].dirty[s] = {} => row = old
    BY <2>2 DEF SlotRow, Columns
  <2> QED
    BY <2>1, <2>3, <2>4 DEF old
<1> QED
  BY <1>2 DEF Saved

LEMMA SlotServeKeeps ==
    ASSUME SharedInv, NEW q \in SlotRequests, SlotServe(q), UNCHANGED <<areq, raced>>
    PROVE  SharedInv'
<1>0. /\ slot \in [Slots -> SlotRow] /\ sreq[q] \in SlotRequest
      /\ \A s \in Slots : sreq[q].entity[s] \in SlotRow
      /\ \A s \in Slots : sreq[q].dirty[s] # {} => s \in sreq[q].ids
  BY DEF SharedInv, BookingCore, ApptTypeOK, StoreTypeOK, SlotsTypeOK, SlotRequest,
         DirtyIsSaved
<1>1. CASE CreateInsert(q)
  <2>1. /\ slot' = [s \in Slots |-> IF s \in sreq[q].ids THEN sreq[q].entity[s]
                                     ELSE slot[s]]
        /\ sreq[q].pc = "insert" /\ Stop(q)
        /\ UNCHANGED <<slotLock, appt, total, events, now>>
    BY <1>1 DEF CreateInsert
  <2>2. slot' \in [Slots -> SlotRow]
    BY <1>0, <2>1
  <2>3. \A s \in sreq[q].ids : s \in Slots =>
           slotLock[s] = Null /\ WellOrdered(sreq[q].entity[s])
    BY <2>1 DEF SharedInv, InsertsApart, LockedIsLive, Live
  <2>4. \A s \in Slots : \/ slot'[s] = slot[s]
                         \/ /\ s \in sreq[q].ids /\ slotLock[s] = Null
                            /\ WellOrdered(slot'[s])
    BY <2>1, <2>3
  <2> QED
    BY <2>1, <2>2, <2>4, SlotRequestStops
<1>2. ASSUME Stop(q), UNCHANGED storeVars PROVE SharedInv'
  BY <1>0, <1>2, SlotRequestStops DEF storeVars
<1>3. CASE UpdateOverlap(q)
  <2> DEFINE req == [sreq[q] EXCEPT !.pc = "load"]
  <2>1. CASE sreq' = [sreq EXCEPT ![q].pc = "load"]
    <3>1. /\ req \in SlotRequest /\ req.pc = "load"
          /\ req.ids = sreq[q].ids /\ req.dirty = sreq[q].dirty
      BY <1>0 DEF SlotRequest, SlotPc
    <3>2. sreq' = [sreq EXCEPT ![q] = req]
      BY <2>1
    <3> HIDE DEF req
    <3> QED
      BY <1>0, <1>3, <3>1, <3>2, SlotRequestMoves DEF UpdateOverlap
  <2> QED
    BY <1>2, <1>3, <2>1 DEF UpdateOverlap
<1>4. CASE SaveLoad(q)
  <2> DEFINE differ == [s \in Slots |->
                          IF s \in sreq[q].ids
                            THEN {col \in Columns : sreq[q].entity[s][col] # slot[s][col]}
                            ELSE {}]
             req == [sreq[q] EXCEPT !.pc = "write", !.dirty = differ]
  <2>1. CASE sreq' = [sreq EXCEPT ![q].pc = "write", ![q].dirty = differ]
    <3>1. differ \in [Slots -> SUBSET Columns]
          /\ \A s \in Slots : differ[s] # {} => s \in sreq[q].ids
      OBVIOUS
    <3>2. sreq' = [sreq EXCEPT ![q] = req]
      BY <2>1
    <3> HIDE DEF differ
    <3>3. /\ req \in SlotRequest /\ req.pc = "write"
          /\ req.ids = sreq[q].ids /\ req.dirty = differ
      BY <1>0, <3>1 DEF SlotRequest, SlotPc
    <3> HIDE DEF req
    <3> QED
      BY <1>4, <3>1, <3>2, <3>3, SlotRequestMoves DEF SaveLoad
  <2> QED
    BY <1>2, <1>4, <2>1 DEF SaveLoad
<1>5. CASE SaveWrite(q)
  <2>1. /\ WaitsForLocks(q) /\ Stop(q)
        /\ slot' = IF TimesChecked(Saved(q)) THEN Saved(q) ELSE slot
        /\ UNCHANGED <<slotLock, appt, total, events, now>>
    BY <1>5 DEF SaveWrite
  <2>2. slot' \in [Slots -> SlotRow]
    BY <1>0, <2>1, SavedTyped
  <2>3. \A s \in Slots : \/ slot'[s] = slot[s]
                         \/ /\ s \in sreq[q].ids /\ slotLock[s] = Null
                            /\ slot'[s].row # "absent" => WellOrdered(slot'[s])
    BY <1>0, <2>1, SavedTyped DEF WaitsForLocks, TimesChecked
  <2> QED
    BY <2>1, <2>2, <2>3, SlotRequestStops
<1> QED
  BY <1>1, <1>3, <1>4, <1>5 DEF SlotServe

-----------------------------------------------------------------------------
(* Steps of AppointmentsService *)

\* They change no slot but its status, and no slot that another has locked;
\* they lock only slots that are there; what is CONFIRMED was so or is new.
OnlyBooks ==
    /\ \A s \in Slots : /\ slot'[s].row = slot[s].row
                        /\ slot'[s].start = slot[s].start
                        /\ slot'[s].end = slot[s].end
    /\ \A s \in Slots : slotLock'[s] # Null => slotLock[s] # Null \/ Live(s)
    /\ \A s \in Slots : slotLock[s] # Null /\ slotLock'[s] = slotLock[s]
          => slot'[s] = slot[s]
    /\ \A a \in Appts : appt'[a].status = "CONFIRMED"
          => appt'[a] = appt[a] \/ appt[a] = NoAppt

LEMMA ApptStepOnlyBooks ==
    ASSUME BookingCore, [ApptNext]_apptVars
    PROVE  OnlyBooks
<1>0. /\ slot \in [Slots -> SlotRow] /\ appt \in [Appts -> ApptRow]
      /\ slotLock \in [Slots -> Requests \cup {Null}]
      /\ \A r \in Requests : r # Null
  BY StoreAssumption DEF BookingCore, ApptTypeOK, StoreTypeOK
<1>1. ASSUME UNCHANGED <<slot, appt>>,
             \A s \in Slots : slotLock'[s] # Null => slotLock[s] # Null \/ Live(s)
      PROVE  OnlyBooks
  BY <1>1 DEF OnlyBooks
<1>2. ASSUME NEW r \in Requests,
             \/ BookTurnedAway(r) \/ BookCheck(r) \/ CancelDeadlock(r) \/ Emit(r)
             \/ ReloadFails(r) \/ Accept(r)
      PROVE  OnlyBooks
  BY <1>1, <1>2 DEF BookTurnedAway, BookCheck, CancelDeadlock, Emit, ReloadFails, Accept,
     BookBegin, CancelBegin, CompleteBegin, storeVars
<1>3. ASSUME NEW r \in Requests, BookLock(r) PROVE OnlyBooks
  BY <1>0, <1>1, <1>3 DEF BookLock
<1>4. ASSUME NEW r \in Requests, BookRefuse(r) \/ BookDuplicate(r) PROVE OnlyBooks
  BY <1>0, <1>1, <1>4 DEF BookRefuse, BookDuplicate, Release
<1>5. ASSUME NEW r \in Requests, NEW a \in Appts, BookCommit(r, a) PROVE OnlyBooks
  <2>1. PICK s : s = areq[r].slot
    OBVIOUS
  <2>2. s \in Slots /\ slotLock[s] = r
    BY <1>5, <2>1 DEF BookCommit, BookingCore, RequestShape, BookersHoldLock, BookingPc
  <2>3. /\ slotLock' = [slotLock EXCEPT ![s] = Null]
        /\ slot' = [slot EXCEPT ![s].status = "RESERVED"]
        /\ appt[a] = NoAppt /\ \A b \in Appts \ {a} : appt'[b] = appt[b]
    BY <1>0, <1>5, <2>1 DEF BookCommit, Release
  <2>4. /\ \A x \in Slots \ {s} : slot'[x] = slot[x] /\ slotLock'[x] = slotLock[x]
        /\ slotLock'[s] = Null
        /\ slot'[s].row = slot[s].row
        /\ slot'[s].start = slot[s].start /\ slot'[s].end = slot[s].end
    BY <1>0, <2>2, <2>3 DEF SlotRow
  <2> QED
    BY <1>0, <2>2, <2>3, <2>4 DEF OnlyBooks
<1>6. ASSUME NEW r \in Requests, CancelCommit(r) PROVE OnlyBooks
  <2>1. PICK a, s : a = areq[r].appt /\ s = appt[a].slot
    OBVIOUS
  <2>2. a \in Appts /\ appt[a] \in ApptRow /\ slotLock[s] = Null
    BY <1>0, <1>6, <2>1 DEF CancelCommit, BookingCore, RequestShape
  <2>3. /\ slot' = [slot EXCEPT ![s].status = "AVAILABLE"]
        /\ UNCHANGED slotLock
        /\ appt'[a].status = "CANCELLED"
        /\ \A b \in Appts \ {a} : appt'[b] = appt[b]
    BY <1>0, <1>6, <2>1, <2>2 DEF CancelCommit, ApptRow
  <2>4. /\ \A x \in Slots \ {s} : slot'[x] = slot[x]
        /\ s \in Slots => /\ slot'[s].row = slot[s].row
                         /\ slot'[s].start = slot[s].start /\ slot'[s].end = slot[s].end
    BY <1>0, <2>3 DEF SlotRow
  <2> QED
    BY <2>2, <2>3, <2>4 DEF OnlyBooks
<1>7. ASSUME NEW r \in Requests, CompleteCommit(r) PROVE OnlyBooks
  <2>1. PICK a : a = areq[r].appt
    OBVIOUS
  <2>2. a \in Appts /\ appt[a] \in ApptRow
    BY <1>0, <1>7, <2>1 DEF CompleteCommit, BookingCore, RequestShape
  <2>3. /\ UNCHANGED <<slot, slotLock>>
        /\ appt'[a].status = "COMPLETED"
        /\ \A b \in Appts \ {a} : appt'[b] = appt[b]
    BY <1>0, <1>7, <2>1, <2>2 DEF CompleteCommit, ApptRow
  <2> QED
    BY <2>3 DEF OnlyBooks
<1>8. ASSUME AutoComplete PROVE OnlyBooks
  <2>1. \A b \in Appts : appt'[b] = appt[b] \/ appt'[b].status = "COMPLETED"
    BY <1>0, <1>8 DEF AutoComplete, ApptRow
  <2> QED
    BY <1>8, <2>1 DEF AutoComplete, OnlyBooks
<1>9. ASSUME Tick \/ Crash \/ UNCHANGED apptVars PROVE OnlyBooks
  BY <1>1, <1>9 DEF Tick, ClockTick, Crash, apptVars, storeVars
<1> QED
  BY <1>2, <1>3, <1>4, <1>5, <1>6, <1>7, <1>8, <1>9 DEF ApptNext, ApptRequestNext, Serve

\* A slot in the hands of a slot request counts as raced when it is booked.
LEMMA ApptStepKeeps ==
    ASSUME SharedInv, [ApptNext]_apptVars,
           \/ /\ sreq' = sreq /\ raced' = raced \cup (NewlyBooked \cap InFlight)
           \/ /\ sreq' = [q \in SlotRequests |-> Quiet] /\ raced' = raced
              /\ UNCHANGED <<slot, appt>>
    PROVE  SharedInv'
<1> USE DEF SharedInv
<1>1. BookingCore' /\ HoldsKept
  BY NextKeepsCore
<1>2. OnlyBooks
  BY ApptStepOnlyBooks
<1>3. SlotsTypeOK' /\ raced' \subseteq Slots /\ raced \subseteq raced'
  BY QuietTyped DEF SlotsTypeOK, NewlyBooked
<1>4. \A q \in SlotRequests :
         sreq'[q] = sreq[q] \/ (sreq'[q] = Quiet /\ UNCHANGED <<slot, appt>>)
  OBVIOUS
<1>5. SlotsWellOrdered'
  BY <1>2 DEF OnlyBooks, SlotsWellOrdered, WellOrdered
<1>6. LockedIsLive'
  BY <1>2 DEF OnlyBooks, LockedIsLive, Live
<1>7. \A q \in SlotRequests : sreq'[q].ids \subseteq sreq[q].ids /\ sreq[q].ids \subseteq Slots
  BY <1>4, QuietTyped DEF SlotsTypeOK, SlotRequest
<1>8. InsertsApart'
  <2> SUFFICES ASSUME NEW q \in SlotRequests, sreq'[q].pc = "insert",
                      NEW s \in sreq'[q].ids
               PROVE  /\ slot'[s].row = "absent"
                      /\ WellOrdered(sreq'[q].entity[s])
                      /\ \A q2 \in SlotRequests \ {q} : s \notin sreq'[q2].ids
    BY DEF InsertsApart
  <2>1. sreq'[q] = sreq[q] /\ s \in Slots
    BY <1>4, <1>7, QuietTyped
  <2> QED
    BY <1>2, <1>7, <2>1 DEF InsertsApart, OnlyBooks
<1>9. DirtyIsSaved'
  BY <1>4, QuietTyped DEF DirtyIsSaved
<1>10. UnracedBookingHoldsSlot'
  <2>1. PICK S \in SUBSET Slots : S = raced
    OBVIOUS
  <2>2. HoldSlots(S)
    BY <2>1 DEF UnracedBookingHoldsSlot, HoldSlots
  <2>3. HoldSlots(S)'
    BY <1>1, <2>2 DEF HoldsKept
  <2>4. S \subseteq raced'
    BY <1>3, <2>1
  <2> QED
    BY <2>3, <2>4 DEF UnracedBookingHoldsSlot, HoldSlots
<1>11. UnracedIsNotHeld'
  <2> SUFFICES ASSUME NEW a \in Appts, NEW q \in SlotRequests,
                      appt'[a].status = "CONFIRMED", appt'[a].slot \notin raced',
                      appt'[a].slot \in sreq'[q].ids
               PROVE  FALSE
    BY DEF UnracedIsNotHeld
  <2>1. appt'[a].slot \in sreq[q].ids /\ appt'[a].slot \in Slots
    BY <1>7
  <2>2. CASE appt'[a] = appt[a]
    BY <1>3, <2>1, <2>2 DEF UnracedIsNotHeld
  <2>3. CASE appt'[a] # appt[a]
    <3>1. appt[a] = NoAppt
      BY <1>2, <2>3 DEF OnlyBooks
    <3>2. appt'[a].slot \in NewlyBooked \cap InFlight
      BY <2>1, <3>1 DEF NewlyBooked, InFlight
    <3> QED
      BY <2>3, <3>2
  <2> QED
    BY <2>2, <2>3
<1> QED
  BY <1>1, <1>3, <1>5, <1>6, <1>8, <1>9, <1>10, <1>11

-----------------------------------------------------------------------------
(* Both services *)

LEMMA StepsOfBoth ==
    ASSUME [Next]_vars
    PROVE  \/ [ApptNext]_apptVars
           \/ \E q \in SlotRequests : SlotServe(q) \/ SlotAccept(q)
BY DEF Next, vars, ApptStep, SlotStep, SlotsNext, CrashAll, ApptNext

LEMMA SharedNext == SharedInv /\ [Next]_vars => SharedInv'
<1> SUFFICES ASSUME SharedInv, [Next]_vars PROVE SharedInv'
  OBVIOUS
<1>1. CASE ApptStep
  BY <1>1, ApptStepKeeps DEF ApptStep, ApptNext
<1>2. CASE SlotStep
  BY <1>2, SlotServeKeeps, SlotAcceptKeeps DEF SlotStep, SlotsNext
<1>3. CASE CrashAll
  BY <1>3, ApptStepKeeps DEF CrashAll, Crash, ApptNext
<1>4. CASE UNCHANGED vars
  <2>1. UNCHANGED <<storeVars, areq, sreq, raced>>
    BY <1>4 DEF vars, apptVars
  <2> QED
    BY <2>1 DEF storeVars, SharedInv, BookingCore, ApptTypeOK, StoreTypeOK, SlotsTypeOK,
       RowsComplete, OneRowPerSlot, RequestShape, BookersHoldLock, SlotStillAvailable,
       SlotsWellOrdered, LockedIsLive, InsertsApart, DirtyIsSaved, UnracedIsNotHeld,
       UnracedBookingHoldsSlot, Live
<1> QED
  BY <1>1, <1>2, <1>3, <1>4 DEF Next

LEMMA SharedInvariant == Spec => []SharedInv
BY InitShared, SharedNext, PTL DEF Spec

\* Type correctness of both services on one database.
THEOREM BothTyped == Spec => []TypeOK
<1>1. SharedInv => TypeOK
  BY DEF SharedInv, BookingCore, TypeOK
<1> QED
  BY <1>1, SharedInvariant, PTL

\* The rows of appointments, whatever prestataires do to the slots meanwhile:
\* no slot has two CONFIRMED appointments.
THEOREM NoDoubleBookingWithCalendar == Spec => []NoDoubleBooking
<1>1. SharedInv => NoDoubleBooking
  BY IdleTyped DEF SharedInv, BookingCore, OneRowPerSlot, NoDoubleBooking
<1> QED
  BY SharedInvariant, <1>1, PTL

\* What a booking checked of its slot under the row lock no request of
\* SlotsService changes before the INSERT.
THEOREM CheckHoldsWithCalendar == Spec => []SlotStillAvailable
<1>1. SharedInv => SlotStillAvailable
  BY DEF SharedInv, BookingCore
<1> QED
  BY SharedInvariant, <1>1, PTL

\* SlotsService neither takes nor leaves row locks: each is still that of a
\* booking at work on the slot.
THEOREM LocksNeverLeftWithCalendar == Spec => []LocksAreHeld
<1>1. Init => LocksAreHeld
  BY DEF Init, ApptInit, StoreInit, LocksAreHeld
<1>2. SharedInv /\ LocksAreHeld /\ [Next]_vars => LocksAreHeld'
  <2> SUFFICES ASSUME SharedInv, LocksAreHeld, [Next]_vars PROVE LocksAreHeld'
    OBVIOUS
  <2>1. CASE [ApptNext]_apptVars
    BY <2>1, NextLocks DEF SharedInv
  <2>2. CASE SlotStep
    <3>1. UNCHANGED <<slotLock, areq>>
      BY <2>2 DEF SlotStep, SlotsNext, SlotServe, SlotAccept, CreateInsert, SaveWrite,
         UpdateOverlap, SaveLoad, CreateBegin, UpdateStatus, UpdateTimes, DeleteRead,
         BlockRead, storeVars
    <3> QED
      BY <3>1 DEF LocksAreHeld
  <2> QED
    BY <2>1, <2>2 DEF Next, vars, ApptStep, CrashAll, ApptNext
<1> QED
  BY <1>1, <1>2, SharedInvariant, PTL DEF Spec

\* Slots end after they start, whatever columns concurrent updates write.
THEOREM SlotsStayOrdered == Spec => []SlotsWellOrdered
<1>1. SharedInv => SlotsWellOrdered
  BY DEF SharedInv
<1> QED
  BY <1>1, SharedInvariant, PTL

\* A CONFIRMED appointment keeps its slot, unless a slot request had read the
\* slot before the booking.
THEOREM BookedSlotStays == Spec => []UnracedBookingHoldsSlot
<1>1. SharedInv => UnracedBookingHoldsSlot
  BY DEF SharedInv
<1> QED
  BY <1>1, SharedInvariant, PTL

\* Whatever prestataires do to the slots, each is sold at most once, and a
\* closed appointment is never CONFIRMED again.
THEOREM BothImplementSale == Spec => SaleRefined
<1>1. Init => SaleOf!Init
  BY InitSale DEF Init
<1>2. SharedInv /\ SharedInv' /\ [Next]_vars => [SaleOf!Next]_Sale
  <2> SUFFICES ASSUME SharedInv, SharedInv', [Next]_vars PROVE [SaleOf!Next]_Sale
    OBVIOUS
  <2>1. CASE [ApptNext]_apptVars
    BY <2>1, StepRefines DEF SharedInv
  <2>2. ASSUME NEW q \in SlotRequests, SlotServe(q) \/ SlotAccept(q)
        PROVE  UNCHANGED Sale
    <3>1. UNCHANGED appt
      BY <2>2 DEF SlotServe, SlotAccept, CreateInsert, SaveWrite, UpdateOverlap, SaveLoad,
         CreateBegin, UpdateStatus, UpdateTimes, DeleteRead, BlockRead, storeVars
    <3> QED
      BY <3>1, SameRowsSameSales
  <2> QED
    BY <2>1, <2>2, StepsOfBoth
<1> QED
  BY <1>1, <1>2, SharedInvariant, PTL DEF Spec, SaleRefined, SaleOf!Spec

-----------------------------------------------------------------------------
(* What listeners hear of, while slots change.  CompletedIsOver is not      *)
(* among what holds here: a save can move the end of a slot.                *)

\* A request about to announce that an appointment closed has closed it.
ClosersRemember ==
    \A r \in Requests : areq[r].pc \in {"cancelled", "completed"} =>
        appt[areq[r].appt].status \in ClosedStatus

ToldInv == BookingCore /\ AnnouncedIsDurable /\ ClosersRemember

\* Rows stay, and closed ones stay closed.
RowsStay ==
    \A a \in Appts : /\ appt[a] # NoAppt => appt'[a] # NoAppt
                     /\ appt[a].status \in ClosedStatus => appt'[a].status \in ClosedStatus

LEMMA ToldStep ==
    ASSUME ToldInv, BookingCore', RowsStay,
           \A r \in Requests :
               \/ areq'[r] = areq[r]
               \/ areq'[r].pc \notin {"cancelled", "completed"}
               \/ appt'[areq'[r].appt].status \in ClosedStatus,
           \A e \in events' :
               \/ e \in events
               \/ \E a \in Appts : e = <<"lost", a>>
               \/ \E r \in Requests : /\ areq[r].pc \in EventKinds
                                      /\ e = <<areq[r].pc, areq[r].appt>>
    PROVE  ToldInv'
<1> USE DEF ToldInv
<1>1. ASSUME NEW r \in Requests, areq'[r].pc \in {"cancelled", "completed"}
      PROVE  appt'[areq'[r].appt].status \in ClosedStatus
  <2>1. areq'[r].appt \in Appts
    BY <1>1 DEF BookingCore, RequestShape, EventKinds
  <2> QED
    BY <1>1, <2>1 DEF ClosersRemember, RowsStay
<1>2. ASSUME NEW a \in Appts, NEW k \in EventKinds, <<k, a>> \in events'
      PROVE  /\ appt'[a].status # "NONE"
             /\ k \in {"cancelled", "completed"} => appt'[a].status \in ClosedStatus
  <2>1. /\ appt[a] # NoAppt
        /\ k \in {"cancelled", "completed"} => appt[a].status \in ClosedStatus
    <3>1. CASE <<k, a>> \in events
      BY <3>1, IdleTyped DEF AnnouncedIsDurable, EventKinds, ClosedStatus
    <3>2. CASE <<k, a>> \notin events
      <4>1. PICK r \in Requests : /\ areq[r].pc \in EventKinds
                                  /\ <<k, a>> = <<areq[r].pc, areq[r].appt>>
        BY <1>2, <3>2 DEF EventKinds
      <4>2. areq[r].pc = k /\ areq[r].appt = a
        BY <4>1
      <4>3. appt[a] # NoAppt
        BY <4>1, <4>2 DEF BookingCore, RequestShape
      <4> QED
        BY <4>2, <4>3 DEF ClosersRemember
    <3> QED
      BY <3>1, <3>2
  <2>2. appt'[a].status \in AppointmentStatus
    BY <2>1 DEF RowsStay, BookingCore, RowsComplete
  <2> QED
    BY <2>1, <2>2 DEF RowsStay, AppointmentStatus
<1>3. ClosersRemember' /\ AnnouncedIsDurable'
  BY <1>1, <1>2 DEF ClosersRemember, AnnouncedIsDurable, EventKinds, ClosedStatus
<1> QED
  BY <1>3

LEMMA ServeTold ==
    ASSUME ToldInv, BookingCore', NEW r \in Requests, Serve(r)
    PROVE  ToldInv'
<1>1. /\ appt \in [Appts -> ApptRow] /\ areq \in [Requests -> ApptRequest]
      /\ areq[r] \in ApptRequest
  BY FieldsTyped DEF ToldInv, BookingCore, ApptTypeOK, StoreTypeOK
<1>2. CASE UNCHANGED <<appt, events>> /\ \E q \in ApptRequest :
              areq' = [areq EXCEPT ![r] = q] /\ q.pc \notin EventKinds
  BY <1>1, <1>2, ToldStep DEF RowsStay, EventKinds
<1>3. CASE BookTurnedAway(r) \/ BookRefuse(r) \/ BookDuplicate(r) \/ CancelDeadlock(r)
  BY <1>2, <1>3, IdleTyped DEF BookTurnedAway, BookRefuse, BookDuplicate,
     CancelDeadlock, Finish, storeVars, EventKinds
<1>4. CASE BookLock(r) \/ BookCheck(r)
  <2>1. PICK pc \in BookingPc : areq' = [areq EXCEPT ![r].pc = pc]
    BY <1>4 DEF BookLock, BookCheck, BookingPc
  <2>2. UNCHANGED <<appt, events>>
    BY <1>4 DEF BookLock, BookCheck, storeVars
  <2>3. areq'[r].pc = pc /\ \A q \in Requests \ {r} : areq'[q] = areq[q]
    BY <1>1, <2>1 DEF ApptRequest
  <2> QED
    BY <2>2, <2>3, ToldStep DEF RowsStay, BookingPc
<1>5. ASSUME NEW a \in Appts, NEW req, NEW row, req.appt = a, areq' = [areq EXCEPT ![r] = req],
             appt' = [appt EXCEPT ![a] = row], UNCHANGED events,
             row.status \in AppointmentStatus,
             appt[a] # NoAppt \/ req.pc = "created",
             appt[a] # NoAppt => row.status \in ClosedStatus
      PROVE  ToldInv'
  <2>1. /\ areq'[r] = req /\ \A q \in Requests \ {r} : areq'[q] = areq[q]
        /\ appt'[a] = row /\ \A b \in Appts \ {a} : appt'[b] = appt[b]
    BY <1>1, <1>5
  <2>2. RowsStay
    BY <1>5, <2>1, IdleTyped DEF RowsStay, ClosedStatus, AppointmentStatus
  <2> QED
    BY <1>5, <2>1, <2>2, ToldStep
<1>6. ASSUME NEW a \in Appts, BookCommit(r, a)
      PROVE  ToldInv'
  <2> DEFINE row == [NoAppt EXCEPT !.status = "CONFIRMED",
                                   !.client = areq[r].client, !.slot = areq[r].slot]
             req == [Idle EXCEPT !.pc = "created", !.appt = a]
  <2>1. /\ appt' = [appt EXCEPT ![a] = row] /\ areq' = [areq EXCEPT ![r] = req]
        /\ appt[a] = NoAppt /\ UNCHANGED events
    BY <1>6 DEF BookCommit
  <2>2. row.status = "CONFIRMED" /\ req.pc = "created" /\ req.appt = a
    BY DEF NoAppt, Idle
  <2> HIDE DEF row, req
  <2> QED
    BY <1>5, <2>1, <2>2 DEF AppointmentStatus
<1>7. CASE CancelCommit(r) \/ CompleteCommit(r)
  <2> DEFINE a == areq[r].appt
  <2>1. a \in Appts /\ appt[a] # NoAppt /\ appt[a] \in ApptRow
    BY <1>1, <1>7, FieldsTyped DEF CancelCommit, CompleteCommit, ToldInv, BookingCore,
       RequestShape
  <2>2. PICK pc \in {"cancelled", "completed"} :
            areq' = [areq EXCEPT ![r] = [Idle EXCEPT !.pc = pc, !.appt = a]]
    <3>1. CASE CancelCommit(r)
      BY <3>1 DEF CancelCommit
    <3>2. CASE CompleteCommit(r)
      BY <3>2 DEF CompleteCommit
    <3> QED
      BY <1>7, <3>1, <3>2
  <2>3. /\ appt'[a].status \in ClosedStatus /\ UNCHANGED events
        /\ \A b \in Appts \ {a} : appt'[b] = appt[b]
    <3>1. CASE CancelCommit(r)
      BY <1>1, <2>1, <3>1 DEF CancelCommit, ApptRow, ClosedStatus
    <3>2. CASE CompleteCommit(r)
      BY <1>1, <2>1, <3>2 DEF CompleteCommit, ApptRow, ClosedStatus
    <3> QED
      BY <1>7, <3>1, <3>2
  <2>4. areq'[r].appt = a /\ \A q \in Requests \ {r} : areq'[q] = areq[q]
    BY <1>1, <2>2 DEF Idle
  <2>5. RowsStay
    BY <2>1, <2>3, IdleTyped DEF RowsStay, ClosedStatus
  <2> QED
    BY <2>3, <2>4, <2>5, ToldStep
<1>8. CASE Emit(r)
  <2>1. /\ areq' = [areq EXCEPT ![r] = Idle] /\ UNCHANGED appt
        /\ events' = events \cup {<<areq[r].pc, areq[r].appt>>}
        /\ areq[r].pc \in EventKinds
    BY <1>8 DEF Emit, Finish
  <2> QED
    BY <1>1, <2>1, IdleTyped, ToldStep DEF RowsStay
<1>9. CASE ReloadFails(r)
  <2>1. /\ areq' = [areq EXCEPT ![r] = Idle] /\ UNCHANGED appt
        /\ events' = events \cup {<<"lost", areq[r].appt>>}
    BY <1>9 DEF ReloadFails, Finish
  <2>2. areq[r].appt \in Appts
    BY <1>9 DEF ReloadFails, ToldInv, BookingCore, RequestShape, EventKinds
  <2> QED
    BY <1>1, <2>1, <2>2, IdleTyped, ToldStep DEF RowsStay
<1> QED
  BY <1>3, <1>4, <1>6, <1>7, <1>8, <1>9 DEF Serve

LEMMA ApptNextTold ==
    ASSUME ToldInv, BookingCore', [ApptNext]_apptVars
    PROVE  ToldInv'
<1>1. /\ appt \in [Appts -> ApptRow] /\ areq \in [Requests -> ApptRequest]
      /\ \A a \in Appts : appt[a] \in ApptRow
  BY FieldsTyped DEF ToldInv, BookingCore, ApptTypeOK, StoreTypeOK
<1>2. ASSUME NEW r \in Requests, Serve(r) PROVE ToldInv'
  BY <1>2, ServeTold
<1>3. ASSUME NEW r \in Requests, Accept(r) PROVE ToldInv'
  <2>1. \/ \E c \in Clients, s \in Slots : areq' =
              [areq EXCEPT ![r] = [Idle EXCEPT !.pc = "lock", !.client = c, !.slot = s]]
        \/ \E a \in Appts, u \in Users : areq' =
              [areq EXCEPT ![r] = [Idle EXCEPT !.pc = "cancel", !.appt = a, !.actor = u]]
        \/ \E a \in Appts : areq' =
              [areq EXCEPT ![r] = [Idle EXCEPT !.pc = "complete", !.appt = a]]
    BY <1>3 DEF Accept, BookBegin, CancelBegin, CompleteBegin
  <2>2. /\ \A q \in Requests \ {r} : areq'[q] = areq[q]
        /\ areq'[r].pc \in {"lock", "cancel", "complete"}
    BY <1>1, <2>1 DEF Idle
  <2>3. UNCHANGED <<appt, events>>
    BY <1>3 DEF Accept, BookBegin, CancelBegin, CompleteBegin, storeVars
  <2> QED
    BY <2>2, <2>3, ToldStep DEF RowsStay
<1>4. CASE AutoComplete
  <2>1. \A b \in Appts :
          \/ appt'[b] = appt[b]
          \/ /\ appt[b].status = "CONFIRMED"
             /\ appt'[b] = [appt[b] EXCEPT !.status = "COMPLETED", !.completedAt = TRUE]
    BY <1>4 DEF AutoComplete, Overdue
  <2>2. RowsStay
    BY <1>1, <2>1, IdleTyped DEF RowsStay, ApptRow, ClosedStatus
  <2> QED
    BY <1>4, <2>2, ToldStep DEF AutoComplete
<1>5. CASE UNCHANGED <<appt, events>> /\ (areq' = areq \/ areq' = [q \in Requests |-> Idle])
  BY <1>5, IdleTyped, ToldStep DEF RowsStay
<1> QED
  BY <1>2, <1>3, <1>4, <1>5 DEF ApptNext, ApptRequestNext, Tick, ClockTick, Crash,
     apptVars, storeVars

\* Listeners hear only of what is committed, also while prestataires save
\* stale copies of the slots.
THEOREM EventsAreDurableWithCalendar == Spec => []AnnouncedIsDurable
<1>1. Init => ToldInv
  BY InitClosing DEF Init, ClosingInv, ToldInv, RequestsRemember, ClosersRemember
<1>2. SharedInv /\ SharedInv' /\ ToldInv /\ [Next]_vars => ToldInv'
  <2> SUFFICES ASSUME SharedInv, SharedInv', ToldInv, [Next]_vars PROVE ToldInv'
    OBVIOUS
  <2>1. CASE [ApptNext]_apptVars
    BY <2>1, ApptNextTold DEF SharedInv
  <2>2. CASE SlotStep
    <3>1. UNCHANGED <<appt, areq, events>>
      BY <2>2 DEF SlotStep, SlotsNext, SlotServe, SlotAccept, CreateInsert, SaveWrite,
         UpdateOverlap, SaveLoad, CreateBegin, UpdateStatus, UpdateTimes, DeleteRead,
         BlockRead, storeVars
    <3> QED
      BY <3>1, ToldStep DEF SharedInv, RowsStay
  <2> QED
    BY <2>1, <2>2 DEF Next, vars, ApptStep, CrashAll, ApptNext
<1>3. ToldInv => AnnouncedIsDurable
  BY DEF ToldInv
<1> QED
  BY <1>1, <1>2, <1>3, SharedInvariant, PTL DEF Spec

-----------------------------------------------------------------------------
(* The slots generated for a day *)

\* Two starts on the grid of a window differ by a whole stride at least.
LEMMA StridesApart ==
    ASSUME NEW n \in Nat \ {0}, NEW x \in Int, NEW y \in Int, NEW start \in Int,
           (x - start) % n = 0, (y - start) % n = 0, x < y
    PROVE  x + n <= y
<1>1. PICK k \in Int : x - start = n * k
  OBVIOUS
<1>2. PICK l \in Int : y - start = n * l
  OBVIOUS
<1>3. n * (l - k) = y - x
  BY <1>1, <1>2, SMT
<1>4. l - k >= 1
  BY <1>3, SMT
<1>5. n * (l - k) >= n
  BY <1>4, SMT
<1> QED
  BY <1>3, <1>5

\* Whatever the duration and the pause, and whatever slots are there.
LEMMA AnyDayFits ==
    ASSUME NEW p \in Prestataires, NEW i \in Interval,
           NEW duration \in Nat \ {0}, NEW pause \in Nat,
           NEW j \in GenerateDay(p, i, duration, pause)
    PROVE  /\ i.start <= j.start /\ j.end <= i.end
           /\ \A k \in GenerateDay(p, i, duration, pause) \ {j} : ~TimesOverlap(j, k)
           /\ \A s \in Slots : Owner[s] = p /\ Counts(s) /\ slot[s].date = j.date
                              => ~TimesOverlap(j, slot[s])
<1> DEFINE n == Stride(duration, pause)
<1>1. n \in Nat \ {0} /\ n >= duration /\ i.start \in Nat /\ i.end \in Nat
  BY DEF Stride, Interval
<1>2. ASSUME NEW k \in GenerateDay(p, i, duration, pause)
      PROVE  /\ k.start \in Int /\ i.start <= k.start
             /\ k.end = k.start + duration /\ k.end <= i.end
             /\ (k.start - i.start) % n = 0
             /\ k = [date |-> i.date, start |-> k.start, end |-> k.start + duration]
  BY <1>1 DEF GenerateDay, DayTimes
<1>3. ASSUME NEW k \in GenerateDay(p, i, duration, pause) \ {j}
      PROVE  ~TimesOverlap(j, k)
  <2>1. j.start # k.start
    BY <1>2
  <2>2. CASE j.start < k.start
    <3>1. j.start + n <= k.start
      BY <1>1, <1>2, <2>2, StridesApart
    <3> QED
      BY <1>1, <1>2, <3>1 DEF TimesOverlap
  <2>3. CASE k.start < j.start
    <3>1. k.start + n <= j.start
      BY <1>1, <1>2, <2>3, StridesApart
    <3> QED
      BY <1>1, <1>2, <3>1 DEF TimesOverlap
  <2> QED
    BY <1>2, <2>1, <2>2, <2>3
<1>4. \A s \in Slots : Owner[s] = p /\ Counts(s) /\ slot[s].date = j.date
                      => ~TimesOverlap(j, slot[s])
  BY DEF GenerateDay, Overlaps, Counts
<1> QED
  BY <1>2, <1>3, <1>4

\* The slots generated for a day fit in the window, beside each other and
\* beside what is there.
THEOREM GeneratedSlotsFit == CalendarSpec => []GeneratedDayFits
<1>1. GeneratedDayFits
  <2> SUFFICES ASSUME NEW p \in Prestataires, NEW i \in Intervals,
                      NEW duration \in 1..2, NEW pause \in 0..1,
                      NEW j \in GenerateDay(p, i, duration, pause)
               PROVE  /\ i.start <= j.start /\ j.end <= i.end
                      /\ \A k \in GenerateDay(p, i, duration, pause) \ {j} :
                            ~TimesOverlap(j, k)
                      /\ \A s \in Slots :
                            Owner[s] = p /\ Counts(s) /\ slot[s].date = j.date
                               => ~TimesOverlap(j, slot[s])
    BY DEF GeneratedDayFits
  <2>1. i \in Interval /\ duration \in Nat \ {0} /\ pause \in Nat
    BY SlotsAssumption
  <2> QED
    BY <2>1, AnyDayFits
<1> QED
  BY <1>1, PTL

-----------------------------------------------------------------------------
(* One request of prestataires at a time.  What a request is about to write *)
(* then fits beside the rows as they are, unless the slot was BLOCKED: the  *)
(* check is not overtaken, and the rows are what the request has read.      *)

OneAtATime == \A q1, q2 \in SlotRequests : q1 = q2

\* Row x of slot s, saved with the slots S, adds no clash.
FitsIn(s, x, S) ==
    \/ slot[s].status = "BLOCKED"
    \/ x.row # "live"
    \/ x.status = "BLOCKED"
    \/ Counts(s) /\ x.date = slot[s].date /\ x.start = slot[s].start /\ x.end = slot[s].end
    \/ S = {s} /\ ~Overlaps(Owner[s], x, {s})

Ready(r) ==
    /\ r.pc = "overlap" => \E s \in Slots : r.ids = {s}
    /\ r.pc \in {"insert", "load", "write"} =>
          \A s \in r.ids : FitsIn(s, r.entity[s], r.ids)
    /\ r.pc = "write" =>
          \A s \in Slots, col \in Columns :
             col \in r.dirty[s] <=> s \in r.ids /\ r.entity[s][col] # slot[s][col]

AloneInv ==
    /\ slot \in [Slots -> SlotRow]
    /\ SlotsTypeOK
    /\ \A q \in SlotRequests : Ready(sreq[q])

LEMMA AloneMoves ==
    ASSUME AloneInv, OneAtATime, NEW q \in SlotRequests, NEW req \in SlotRequest,
           sreq' = [sreq EXCEPT ![q] = req], slot' \in [Slots -> SlotRow],
           Ready(req)'
    PROVE  AloneInv'
<1>1. sreq \in [SlotRequests -> SlotRequest]
  BY DEF AloneInv, SlotsTypeOK
<1>2. sreq' \in [SlotRequests -> SlotRequest] /\ sreq'[q] = req
  BY <1>1
<1>3. \A q2 \in SlotRequests : sreq'[q2] = req
  BY <1>2 DEF OneAtATime
<1>4. ASSUME NEW q2 \in SlotRequests PROVE Ready(sreq[q2])'
  <2>1. sreq'[q2] = req
    BY <1>3
  <2> QED
    BY <2>1 DEF Ready
<1> QED
  BY <1>2, <1>4 DEF AloneInv, SlotsTypeOK

LEMMA AloneGoesOn ==
    ASSUME AloneInv, OneAtATime, NEW q \in SlotRequests, NEW req \in SlotRequest,
           sreq' = [sreq EXCEPT ![q] = req], UNCHANGED slot, Ready(req)
    PROVE  AloneInv'
<1>1. Ready(req)'
  BY DEF Ready, FitsIn, Overlaps, Counts, Live
<1>2. slot' \in [Slots -> SlotRow]
  BY DEF AloneInv
<1> QED
  BY <1>1, <1>2, AloneMoves

\* With the rows of S replaced by entities that fit in, who clashes did before.
LEMMA FittingAddsNoClash ==
    ASSUME NEW ent \in [Slots -> SlotRow], NEW S \in SUBSET Slots,
           \A s \in S : FitsIn(s, ent[s], S),
           slot' = [s \in Slots |-> IF s \in S THEN ent[s] ELSE slot[s]],
           NEW s \in Slots, NEW t \in Slots, Clash(s, t)',
           slot[s].status # "BLOCKED", slot[t].status # "BLOCKED"
    PROVE  Clash(s, t)
<1>1. /\ s # t /\ Owner[s] = Owner[t]
      /\ slot'[s].row = "live" /\ slot'[s].status # "BLOCKED"
      /\ slot'[t].row = "live" /\ slot'[t].status # "BLOCKED"
      /\ slot'[s].date = slot'[t].date
      /\ slot'[s].start < slot'[t].end /\ slot'[s].end > slot'[t].start
  BY DEF Clash, Counts, Live, TimesOverlap
<1>2. \A x \in Slots : slot'[x] = IF x \in S THEN ent[x] ELSE slot[x]
  OBVIOUS
<1>3. CASE S = {s} /\ ~Overlaps(Owner[s], ent[s], {s})
  <2>1. slot'[s] = ent[s] /\ slot'[t] = slot[t]
    BY <1>1, <1>2, <1>3
  <2> QED
    BY <1>1, <1>3, <2>1 DEF Overlaps, TimesOverlap, Live
<1>4. CASE S = {t} /\ ~Overlaps(Owner[t], ent[t], {t})
  <2>1. slot'[t] = ent[t] /\ slot'[s] = slot[s]
    BY <1>1, <1>2, <1>4
  <2>2. ent[t].start < slot[s].end /\ ent[t].end > slot[s].start
    BY <1>1, <2>1 DEF SlotRow
  <2> QED
    BY <1>1, <1>4, <2>1, <2>2 DEF Overlaps, TimesOverlap, Live
<1>5. CASE /\ ~(S = {s} /\ ~Overlaps(Owner[s], ent[s], {s}))
           /\ ~(S = {t} /\ ~Overlaps(Owner[t], ent[t], {t}))
  <2>1. ASSUME NEW x \in {s, t}
        PROVE  /\ Counts(x) /\ slot'[x].date = slot[x].date
               /\ slot'[x].start = slot[x].start /\ slot'[x].end = slot[x].end
    BY <1>1, <1>2, <1>5, <2>1 DEF FitsIn, Counts, Live
  <2> QED
    BY <1>1, <2>1 DEF Clash, TimesOverlap
<1> QED
  BY <1>3, <1>4, <1>5

\* Once nothing can change between the two statements of a save(), what it
\* writes is its entities.
LEMMA SavedIsEntities ==
    ASSUME AloneInv, NEW q \in SlotRequests, sreq[q].pc = "write"
    PROVE  Saved(q) = [s \in Slots |-> IF s \in sreq[q].ids THEN sreq[q].entity[s]
                                                           ELSE slot[s]]
<1>1. /\ slot \in [Slots -> SlotRow] /\ sreq[q].entity \in [Slots -> SlotRow]
      /\ \A s \in Slots, col \in Columns :
            col \in sreq[q].dirty[s] <=>
               s \in sreq[q].ids /\ sreq[q].entity[s][col] # slot[s][col]
  BY DEF AloneInv, SlotsTypeOK, SlotRequest, Ready
<1>2. ASSUME NEW s \in Slots
      PROVE  Saved(q)[s] = IF s \in sreq[q].ids THEN sreq[q].entity[s] ELSE slot[s]
  <2> DEFINE old == slot[s]
             new == sreq[q].entity[s]
             row == [col \in Columns |-> IF col \in sreq[q].dirty[s] THEN new[col]
                                         ELSE old[col]]
  <2>1. Saved(q)[s] = row
    BY DEF Saved
  <2>2. old \in SlotRow /\ new \in SlotRow
    BY <1>1
  <2>3. \A col \in Columns :
           col \in sreq[q].dirty[s] <=> s \in sreq[q].ids /\ new[col] # old[col]
    BY <1>1
  <2> HIDE DEF old, new
  <2>4. CASE s \in sreq[q].ids
    <3>1. row = [col \in Columns |-> new[col]]
      BY <2>3, <2>4
    <3>2. row = new
      BY <2>2, <3>1 DEF SlotRow, Columns
    <3> QED
      BY <2>1, <2>4, <3>2 DEF new
  <2>5. CASE s \notin sreq[q].ids
    <3>1. row = [col \in Columns |-> old[col]]
      BY <2>3, <2>5
    <3>2. row = old
      BY <2>2, <3>1 DEF SlotRow, Columns
    <3> QED
      BY <2>1, <2>5, <3>2 DEF old
  <2> QED
    BY <2>4, <2>5
<1> QED
  BY <1>2 DEF Saved

\* A handler that has read its rows holds entities that are ready.
LEMMA AloneReads ==
    ASSUME AloneInv, OneAtATime, NEW q \in SlotRequests,
           NEW pc \in {"insert", "overlap", "load"}, NEW S \in SUBSET Slots,
           NEW ent \in [S -> SlotRow],
           Proceed(q, pc, S, ent), UNCHANGED slot,
           pc = "overlap" => \E s \in Slots : S = {s},
           pc # "overlap" => \A s \in S : FitsIn(s, ent[s], S)
    PROVE  AloneInv'
<1> DEFINE req == Held(pc, S, ent)
<1>1. /\ req \in SlotRequest /\ req.pc = pc /\ req.ids = S
      /\ \A s \in S : req.entity[s] = ent[s]
  BY HeldTyped DEF SlotPc
<1>2. sreq' = [sreq EXCEPT ![q] = req]
  BY DEF Proceed, Held
<1> HIDE DEF req
<1>3. Ready(req)
  BY <1>1 DEF Ready
<1> QED
  BY <1>1, <1>2, <1>3, AloneGoesOn

LEMMA AloneAccepts ==
    ASSUME AloneInv, OneAtATime, NEW q \in SlotRequests, SlotAccept(q)
    PROVE  AloneInv' /\ UNCHANGED slot
<1>1. slot \in [Slots -> SlotRow]
  BY DEF AloneInv
<1>2. ASSUME NEW s \in Slots, NEW i \in Intervals, CreateBegin(q, s, i)
      PROVE  AloneInv' /\ UNCHANGED slot
  <2> DEFINE new == [row |-> "live", status |-> "AVAILABLE", date |-> i.date,
                     start |-> i.start, end |-> i.end]
             ent == [t \in {s} |-> new]
  <2>1. new \in SlotRow /\ new.date = i.date /\ new.start = i.start /\ new.end = i.end
    BY SlotsAssumption DEF SlotRow, SlotStatus, Interval
  <2>2. ~Overlaps(Owner[s], i, {}) /\ Proceed(q, "insert", {s}, ent) /\ UNCHANGED slot
    BY <1>2 DEF CreateBegin, storeVars
  <2> HIDE DEF new
  <2>3. ~Overlaps(Owner[s], new, {s})
    BY <2>1, <2>2 DEF Overlaps, TimesOverlap
  <2>4. ent \in [{s} -> SlotRow] /\ \A t \in {s} : FitsIn(t, ent[t], {s})
    BY <2>1, <2>3 DEF FitsIn
  <2> HIDE DEF ent
  <2> QED
    BY <2>2, <2>4, AloneReads
<1>3. ASSUME NEW s \in Slots, NEW st \in SlotStatus, UpdateStatus(q, s, st)
      PROVE  AloneInv' /\ UNCHANGED slot
  <2> DEFINE ent == [t \in {s} |-> [slot[s] EXCEPT !.status = st]]
  <2>1. Modifiable(s) /\ Proceed(q, "load", {s}, ent) /\ UNCHANGED slot
    BY <1>3 DEF UpdateStatus, storeVars
  <2>2. ent \in [{s} -> SlotRow] /\ \A t \in {s} : FitsIn(t, ent[t], {s})
    BY <1>1, <2>1 DEF FitsIn, Modifiable, Counts, SlotRow
  <2> HIDE DEF ent
  <2> QED
    BY <2>1, <2>2, AloneReads
<1>4. ASSUME NEW s \in Slots, NEW st \in SlotStatus, NEW i \in Intervals,
             UpdateTimes(q, s, st, i)
      PROVE  AloneInv' /\ UNCHANGED slot
  <2> DEFINE ent == [t \in {s} |-> [slot[s] EXCEPT !.status = st, !.date = i.date,
                                                   !.start = i.start, !.end = i.end]]
  <2>1. Proceed(q, "overlap", {s}, ent) /\ UNCHANGED slot
    BY <1>4 DEF UpdateTimes, storeVars
  <2>2. ent \in [{s} -> SlotRow]
    BY <1>1, SlotsAssumption DEF SlotRow, Interval
  <2> HIDE DEF ent
  <2> QED
    BY <2>1, <2>2, AloneReads
<1>5. ASSUME NEW s \in Slots, DeleteRead(q, s)
      PROVE  AloneInv' /\ UNCHANGED slot
  <2> DEFINE ent == [t \in {s} |-> [slot[s] EXCEPT !.row = "deleted"]]
  <2>1. Proceed(q, "load", {s}, ent) /\ UNCHANGED slot
    BY <1>5 DEF DeleteRead, storeVars
  <2>2. ent \in [{s} -> SlotRow] /\ \A t \in {s} : FitsIn(t, ent[t], {s})
    BY <1>1 DEF FitsIn, SlotRow
  <2> HIDE DEF ent
  <2> QED
    BY <2>1, <2>2, AloneReads
<1>6. ASSUME NEW p \in Prestataires, NEW d1, NEW d2, BlockRead(q, p, d1, d2)
      PROVE  AloneInv' /\ UNCHANGED slot
  <2> DEFINE S == {s \in Slots : /\ Owner[s] = p
                                 /\ slot[s].status = "AVAILABLE"
                                 /\ slot[s].date \in d1..d2
                                 /\ Live(s)}
             ent == [s \in S |-> [slot[s] EXCEPT !.status = "BLOCKED"]]
  <2>1. Proceed(q, "load", S, ent) /\ UNCHANGED slot /\ S \in SUBSET Slots
    BY <1>6 DEF BlockRead, storeVars
  <2> HIDE DEF S
  <2>2. ent \in [S -> SlotRow] /\ \A t \in S : FitsIn(t, ent[t], S)
    BY <1>1, <2>1 DEF FitsIn, SlotRow, SlotStatus
  <2> HIDE DEF ent
  <2> QED
    BY <2>1, <2>2, AloneReads
<1> QED
  BY <1>2, <1>3, <1>4, <1>5, <1>6 DEF SlotAccept

\* What the property asks of one step.
ClashFromBlocked ==
    \A s, t \in Slots : Clash(s, t)' /\ ~Clash(s, t) =>
        "BLOCKED" \in {slot[s].status, slot[t].status}

LEMMA SameSlotsSameClashes ==
    ASSUME UNCHANGED slot PROVE ClashFromBlocked
BY DEF ClashFromBlocked, Clash, Counts, Live

LEMMA AloneServes ==
    ASSUME AloneInv, OneAtATime, NEW q \in SlotRequests, SlotServe(q)
    PROVE  AloneInv' /\ ClashFromBlocked
<1> DEFINE r == sreq[q]
           rows == [s \in Slots |-> IF s \in r.ids THEN r.entity[s] ELSE slot[s]]
<1>1. /\ slot \in [Slots -> SlotRow] /\ r \in SlotRequest
      /\ r.entity \in [Slots -> SlotRow] /\ r.ids \in SUBSET Slots
      /\ Ready(r)
  BY DEF AloneInv, SlotsTypeOK, SlotRequest
<1>2. ASSUME Stop(q), slot' \in [Slots -> SlotRow] PROVE AloneInv'
  <2>1. Ready(Quiet)'
    BY QuietTyped DEF Ready
  <2> QED
    BY <1>2, <2>1, QuietTyped, AloneMoves DEF Stop
<1>3. ASSUME \A s \in r.ids : FitsIn(s, r.entity[s], r.ids), slot' = rows, Stop(q)
      PROVE  AloneInv' /\ ClashFromBlocked
  <2>1. rows \in [Slots -> SlotRow]
    BY <1>1
  <2>2. ASSUME NEW s \in Slots, NEW t \in Slots, Clash(s, t)',
               slot[s].status # "BLOCKED", slot[t].status # "BLOCKED"
        PROVE  Clash(s, t)
    BY <1>1, <1>3, <2>2, FittingAddsNoClash
  <2> QED
    BY <1>2, <1>3, <2>1, <2>2 DEF ClashFromBlocked
<1>4. CASE CreateInsert(q)
  BY <1>1, <1>3, <1>4 DEF CreateInsert, Ready
<1>5. CASE UpdateOverlap(q)
  <2>1. UNCHANGED slot /\ r.pc = "overlap"
    BY <1>5 DEF UpdateOverlap, storeVars
  <2>2. PICK s \in r.ids : IF Overlaps(Owner[s], r.entity[s], {s})
                             THEN Stop(q)
                             ELSE sreq' = [sreq EXCEPT ![q].pc = "load"]
    BY <1>5 DEF UpdateOverlap
  <2>3. r.ids = {s}
    BY <1>1, <2>1, <2>2 DEF Ready
  <2>4. CASE Overlaps(Owner[s], r.entity[s], {s})
    BY <1>1, <1>2, <2>1, <2>2, <2>4, SameSlotsSameClashes
  <2>5. CASE ~Overlaps(Owner[s], r.entity[s], {s})
    <3> DEFINE req == [r EXCEPT !.pc = "load"]
    <3>1. sreq' = [sreq EXCEPT ![q] = req]
      BY <2>2, <2>5
    <3>2. /\ req \in SlotRequest /\ req.pc = "load" /\ req.ids = r.ids
          /\ req.entity = r.entity
      BY <1>1 DEF SlotRequest, SlotPc
    <3> HIDE DEF req
    <3>3. Ready(req)
      BY <2>3, <2>5, <3>2 DEF Ready, FitsIn
    <3> QED
      BY <2>1, <3>1, <3>2, <3>3, AloneGoesOn, SameSlotsSameClashes
  <2> QED
    BY <2>4, <2>5
<1>6. CASE SaveLoad(q)
  <2> DEFINE differ == [s \in Slots |->
                          IF s \in r.ids
                            THEN {col \in Columns : r.entity[s][col] # slot[s][col]}
                            ELSE {}]
  <2>1. UNCHANGED slot /\ r.pc = "load"
    BY <1>6 DEF SaveLoad, storeVars
  <2>2. CASE Stop(q)
    BY <1>1, <1>2, <2>1, <2>2, SameSlotsSameClashes
  <2>3. CASE sreq' = [sreq EXCEPT ![q].pc = "write", ![q].dirty = differ]
    <3> DEFINE req == [r EXCEPT !.pc = "write", !.dirty = differ]
    <3>1. sreq' = [sreq EXCEPT ![q] = req]
      BY <2>3 DEF AloneInv, SlotsTypeOK
    <3>2. differ \in [Slots -> SUBSET Columns]
      OBVIOUS
    <3>3. \A s \in Slots, col \in Columns :
             col \in differ[s] <=> s \in r.ids /\ r.entity[s][col] # slot[s][col]
      OBVIOUS
    <3> HIDE DEF differ
    <3>4. /\ req \in SlotRequest /\ req.pc = "write" /\ req.ids = r.ids
          /\ req.entity = r.entity /\ req.dirty = differ
      BY <1>1, <3>2 DEF SlotRequest, SlotPc
    <3> HIDE DEF req
    <3>5. Ready(req)
      BY <1>1, <2>1, <3>3, <3>4 DEF Ready
    <3> QED
      BY <2>1, <3>1, <3>4, <3>5, AloneGoesOn, SameSlotsSameClashes
  <2> QED
    BY <1>6, <2>2, <2>3 DEF SaveLoad
<1>7. CASE SaveWrite(q)
  <2>1. Stop(q) /\ r.pc = "write" /\ slot' \in {Saved(q), slot}
    BY <1>7 DEF SaveWrite
  <2>2. CASE slot' = slot
    BY <1>1, <1>2, <2>1, <2>2, SameSlotsSameClashes
  <2>3. CASE slot' = Saved(q)
    BY <1>1, <1>3, <2>1, <2>3, SavedIsEntities DEF Ready
  <2> QED
    BY <2>1, <2>2, <2>3
<1> QED
  BY <1>4, <1>5, <1>6, <1>7 DEF SlotServe

\* With a prestataire's requests one at a time, only a slot that was BLOCKED
\* can come to overlap another.
THEOREM OverlapsComeFromBlocked ==
    ASSUME OneAtATime
    PROVE  CalendarSpec => OverlapOnlyFromBlocked
<1>1. CalendarInit => AloneInv
  BY StoreAssumption, QuietTyped DEF CalendarInit, StoreInit, SlotsInit, AloneInv,
     SlotsTypeOK, Ready
<1>2. AloneInv /\ [SlotsNext \/ (ClockTick /\ UNCHANGED sreq)]_slotVars
         => AloneInv' /\ ClashFromBlocked
  <2> SUFFICES ASSUME AloneInv, [SlotsNext \/ (ClockTick /\ UNCHANGED sreq)]_slotVars
               PROVE  AloneInv' /\ ClashFromBlocked
    OBVIOUS
  <2>1. ASSUME NEW q \in SlotRequests, SlotServe(q) PROVE AloneInv' /\ ClashFromBlocked
    BY <2>1, AloneServes
  <2>2. ASSUME NEW q \in SlotRequests, SlotAccept(q) PROVE AloneInv' /\ ClashFromBlocked
    BY <2>2, AloneAccepts, SameSlotsSameClashes
  <2>3. ASSUME UNCHANGED <<slot, sreq>> PROVE AloneInv' /\ ClashFromBlocked
    <3>1. AloneInv'
      BY <2>3 DEF AloneInv, SlotsTypeOK, Ready, FitsIn, Overlaps, Counts, Live
    <3> QED
      BY <2>3, <3>1, SameSlotsSameClashes
  <2> QED
    BY <2>1, <2>2, <2>3 DEF SlotsNext, ClockTick, slotVars, storeVars
<1>3. ClashFromBlocked =>
         \A s, t \in Slots : Clash(s, t)' /\ ~Clash(s, t) =>
            "BLOCKED" \in {slot[s].status, slot[t].status}
  BY DEF ClashFromBlocked
<1> QED
  BY <1>1, <1>2, <1>3, PTL DEF CalendarSpec, OverlapOnlyFromBlocked
=============================================================================
