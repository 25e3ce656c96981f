------------------------- MODULE AppointmentsProofs -------------------------
(***************************************************************************)
(* AppointmentsService for every number of slots, clients and concurrent   *)
(* requests: the inductive invariant that makes booking safe, what follows *)
(* from it, that booking implements SlotSale, and how appointments close.  *)
(***************************************************************************)
EXTENDS Appointments, TLAPS

-----------------------------------------------------------------------------
(* Records of the expected type *)

LEMMA IdleTyped ==
    /\ Idle \in ApptRequest
    /\ Idle.pc = "idle"
    /\ NoAppt \in ApptRow
    /\ NoAppt.status = "NONE"
BY DEF Idle, ApptRequest, ApptPc, NoAppt, ApptRow

\* The fields of a request and of a row have the types of their columns.
LEMMA FieldsTyped ==
    ASSUME ApptTypeOK
    PROVE  /\ \A r \in Requests : areq[r] \in ApptRequest
           /\ \A a \in Appts : appt[a] \in ApptRow
           /\ \A s \in Slots : slot[s] \in SlotRow
           /\ \A s \in Slots : slotLock[s] \in Requests \cup {Null}
BY DEF ApptTypeOK, StoreTypeOK

-----------------------------------------------------------------------------
(* The initial state *)

\* No appointment, no lock, no request.
LEMMA InitInv == ApptInit => BookingInv
<1> SUFFICES ASSUME ApptInit PROVE BookingInv
  OBVIOUS
<1>1. slot \in [Slots -> SlotRow]
  BY StoreAssumption DEF ApptInit, StoreInit
<1>2. appt \in [Appts -> ApptRow] /\ areq \in [Requests -> ApptRequest]
  BY IdleTyped DEF ApptInit, StoreInit
<1>3. ApptTypeOK
  BY <1>1, <1>2 DEF ApptInit, StoreInit, ApptTypeOK, StoreTypeOK
<1>4. \A a \in Appts : appt[a] = NoAppt /\ appt[a].status = "NONE"
  BY IdleTyped DEF ApptInit, StoreInit
<1>5. \A r \in Requests : areq[r].pc = "idle"
  BY IdleTyped DEF ApptInit
<1>6. RowsComplete /\ OneRowPerSlot /\ ConfirmedHoldsSlot
  BY <1>4 DEF RowsComplete, OneRowPerSlot, ConfirmedHoldsSlot
<1>7. RequestShape /\ BookersHoldLock /\ SlotStillAvailable
  BY <1>5 DEF RequestShape, BookersHoldLock, SlotStillAvailable, BookingPc,
              EventKinds
<1> QED
  BY <1>3, <1>6, <1>7 DEF BookingCore, BookingInv

-----------------------------------------------------------------------------
(* Steps of a request that write no row of slots or appointments *)

\* CONFIRMED appointments hold their slots, those in S excepted.
HoldSlots(S) ==
    \A a \in Appts : appt[a].status = "CONFIRMED" /\ appt[a].slot \notin S
        => Live(appt[a].slot) /\ slot[appt[a].slot].status = "RESERVED"

\* A step keeps that, whichever slots are excepted.
HoldsKept == \A S \in SUBSET Slots : HoldSlots(S) => HoldSlots(S)'

\* A request moves on, or ends, and the rows stay: enough is that the request
\* is well shaped where it arrives, and holds its lock if it goes on booking.
LEMMA RequestStep ==
    ASSUME BookingCore, NEW r \in Requests, NEW req \in ApptRequest,
           areq' = [areq EXCEPT ![r] = req],
           UNCHANGED <<slot, appt, total, now>>,
           events' \subseteq EventFates \X Appts,
           slotLock' \in [Slots -> Requests \cup {Null}],
           \A r2 \in Requests \ {r}, s \in Slots :
               slotLock[s] = r2 => slotLock'[s] = r2,
           req.pc \in BookingPc \cup {"lock"} =>
               req.client \in Clients /\ req.slot \in Slots,
           req.pc \in {"cancel", "complete"} \cup EventKinds =>
               req.appt \in Appts /\ appt[req.appt] # NoAppt,
           req.pc \in BookingPc =>
               /\ slotLock'[req.slot] = r
               /\ Live(req.slot) /\ slot[req.slot].status = "AVAILABLE"
    PROVE  BookingCore' /\ HoldsKept
<1> USE DEF BookingCore
<1>1. ApptTypeOK'
  BY DEF ApptTypeOK, StoreTypeOK
<1>2. areq'[r] = req /\ \A r2 \in Requests \ {r} : areq'[r2] = areq[r2]
  BY DEF ApptTypeOK
<1>3. RowsComplete' /\ OneRowPerSlot' /\ HoldsKept
  BY DEF RowsComplete, OneRowPerSlot, HoldsKept, HoldSlots, Live
<1>4. RequestShape'
  BY <1>2 DEF RequestShape
<1>5. BookersHoldLock'
  BY <1>2 DEF BookersHoldLock, RequestShape
<1>6. SlotStillAvailable'
  BY <1>2 DEF SlotStillAvailable, Live
<1> QED
  BY <1>1, <1>3, <1>4, <1>5, <1>6

\* Ending a request, and freeing its lock when it books, keeps the invariant.
LEMMA FinishStep ==
    ASSUME BookingCore, NEW r \in Requests, Finish(r),
           UNCHANGED <<slot, appt, total, events, now>>,
           \/ UNCHANGED slotLock
           \/ areq[r].pc \in BookingPc /\ Release(areq[r].slot)
    PROVE  BookingCore' /\ HoldsKept
<1>1. slotLock' \in [Slots -> Requests \cup {Null}]
  BY DEF Release, BookingCore, ApptTypeOK, StoreTypeOK
<1>2. \A r2 \in Requests \ {r}, s \in Slots : slotLock[s] = r2 => slotLock'[s] = r2
  BY DEF Release, BookingCore, ApptTypeOK, StoreTypeOK, BookersHoldLock
<1>3. events' \subseteq EventFates \X Appts
  BY DEF BookingCore, ApptTypeOK, StoreTypeOK
<1> QED
  BY <1>1, <1>2, <1>3, IdleTyped, RequestStep DEF Finish, BookingPc, EventKinds

\* The steps of bookAppointment before its INSERT, and its refusals.
LEMMA BookingReadsKeepInv ==
    ASSUME BookingCore, NEW r \in Requests,
           \/ BookLock(r) \/ BookTurnedAway(r) \/ BookCheck(r)
           \/ BookRefuse(r) \/ BookDuplicate(r)
    PROVE  BookingCore' /\ HoldsKept
<1> DEFINE req == [areq[r] EXCEPT !.pc = IF BookLock(r) THEN "locked"
                                                       ELSE "insert"]
<1>1. areq[r] \in ApptRequest /\ events \subseteq EventFates \X Appts
      /\ slotLock \in [Slots -> Requests \cup {Null}]
  BY DEF BookingCore, ApptTypeOK, StoreTypeOK
<1>2. CASE BookLock(r)
  <2>1. req \in ApptRequest /\ req.pc = "locked" /\ req.client = areq[r].client
        /\ req.slot = areq[r].slot
    BY <1>1, <1>2 DEF ApptRequest, ApptPc, BookingPc
  <2>2. areq' = [areq EXCEPT ![r] = req]
    BY <1>1, <1>2, <2>1 DEF BookLock
  <2>3. areq[r].client \in Clients /\ areq[r].slot \in Slots
    BY <1>2 DEF BookLock, BookingCore, RequestShape
  <2>4. /\ slotLock' \in [Slots -> Requests \cup {Null}]
        /\ slotLock'[areq[r].slot] = r
        /\ \A r2 \in Requests \ {r}, s \in Slots :
              slotLock[s] = r2 => slotLock'[s] = r2
    BY <1>1, <1>2, <2>3, StoreAssumption DEF BookLock
  <2>5. Live(req.slot) /\ slot[req.slot].status = "AVAILABLE"
    BY <1>2, <2>1 DEF BookLock
  <2>6. UNCHANGED <<slot, appt, total, now>> /\ events' \subseteq EventFates \X Appts
    BY <1>1, <1>2 DEF BookLock
  <2> HIDE DEF req
  <2> QED
    BY <2>1, <2>2, <2>3, <2>4, <2>5, <2>6, RequestStep DEF BookingPc, EventKinds
<1>3. CASE BookTurnedAway(r)
  BY <1>3, FinishStep DEF BookTurnedAway, storeVars
<1>4. CASE BookCheck(r)
  <2>1. areq[r].pc = "locked" /\ ~BookLock(r)
    BY <1>4 DEF BookCheck, BookLock
  <2>2. req \in ApptRequest /\ req.pc = "insert" /\ req.client = areq[r].client
        /\ req.slot = areq[r].slot
    BY <1>1, <2>1 DEF ApptRequest, ApptPc, BookingPc
  <2>3. areq' = [areq EXCEPT ![r] = req]
    BY <1>1, <1>4, <2>1 DEF BookCheck
  <2>4. areq[r].client \in Clients /\ areq[r].slot \in Slots
        /\ slotLock[areq[r].slot] = r
        /\ Live(areq[r].slot) /\ slot[areq[r].slot].status = "AVAILABLE"
    BY <2>1 DEF BookingCore, RequestShape, BookersHoldLock, SlotStillAvailable, BookingPc
  <2>5. UNCHANGED storeVars
    BY <1>4 DEF BookCheck
  <2> HIDE DEF req
  <2> QED
    BY <1>1, <2>2, <2>3, <2>4, <2>5, RequestStep
    DEF BookingPc, EventKinds, storeVars
<1>5. CASE BookRefuse(r)
  BY <1>5, FinishStep DEF BookRefuse, BookingPc
<1>6. CASE BookDuplicate(r)
  BY <1>6, FinishStep DEF BookDuplicate, BookingPc
<1> QED
  BY <1>2, <1>3, <1>4, <1>5, <1>6

\* Calls that arrive, events that are emitted, cancellations that are rolled
\* back.
LEMMA OtherRequestStepsKeepInv ==
    ASSUME BookingCore, NEW r \in Requests,
           Accept(r) \/ Emit(r) \/ ReloadFails(r) \/ CancelDeadlock(r)
    PROVE  BookingCore' /\ HoldsKept
<1>1. /\ events \subseteq EventFates \X Appts
      /\ slotLock \in [Slots -> Requests \cup {Null}]
  BY DEF BookingCore, ApptTypeOK, StoreTypeOK
<1>2. ASSUME NEW c \in Clients, NEW s \in Slots, BookBegin(r, c, s)
      PROVE  BookingCore' /\ HoldsKept
  <2> DEFINE req == [Idle EXCEPT !.pc = "lock", !.client = c, !.slot = s]
  <2>1. req \in ApptRequest /\ req.pc = "lock" /\ req.client = c /\ req.slot = s
    BY DEF Idle, ApptRequest, ApptPc
  <2>2. areq' = [areq EXCEPT ![r] = req] /\ UNCHANGED storeVars
    BY <1>2 DEF BookBegin
  <2> HIDE DEF req
  <2> QED
    BY <1>1, <2>1, <2>2, RequestStep DEF BookingPc, EventKinds, storeVars
<1>3. ASSUME NEW a \in Appts, NEW u \in Users, CancelBegin(r, a, u)
      PROVE  BookingCore' /\ HoldsKept
  <2> DEFINE req == [Idle EXCEPT !.pc = "cancel", !.appt = a, !.actor = u]
  <2>1. req \in ApptRequest /\ req.pc = "cancel" /\ req.appt = a
    BY DEF Idle, ApptRequest, ApptPc
  <2>2. areq' = [areq EXCEPT ![r] = req] /\ UNCHANGED storeVars
    BY <1>3 DEF CancelBegin
  <2>3. appt[a] # NoAppt
    BY <1>3, IdleTyped DEF CancelBegin
  <2> HIDE DEF req
  <2> QED
    BY <1>1, <2>1, <2>2, <2>3, RequestStep DEF BookingPc, EventKinds, storeVars
<1>4. ASSUME NEW a \in Appts, CompleteBegin(r, a)
      PROVE  BookingCore' /\ HoldsKept
  <2> DEFINE req == [Idle EXCEPT !.pc = "complete", !.appt = a]
  <2>1. req \in ApptRequest /\ req.pc = "complete" /\ req.appt = a
    BY DEF Idle, ApptRequest, ApptPc
  <2>2. areq' = [areq EXCEPT ![r] = req] /\ UNCHANGED storeVars
    BY <1>4 DEF CompleteBegin
  <2>3. appt[a] # NoAppt
    BY <1>4, IdleTyped DEF CompleteBegin
  <2> HIDE DEF req
  <2> QED
    BY <1>1, <2>1, <2>2, <2>3, RequestStep DEF BookingPc, EventKinds, storeVars
<1>5. CASE Emit(r)
  <2>1. events' \subseteq EventFates \X Appts
    BY <1>1, <1>5 DEF Emit, BookingCore, RequestShape, EventFates
  <2> QED
    BY <1>1, <1>5, <2>1, IdleTyped, RequestStep DEF Emit, Finish, BookingPc, EventKinds
<1>7. CASE ReloadFails(r)
  <2>1. events' \subseteq EventFates \X Appts
    BY <1>1, <1>7 DEF ReloadFails, BookingCore, RequestShape, EventFates, EventKinds
  <2> QED
    BY <1>1, <1>7, <2>1, IdleTyped, RequestStep
       DEF ReloadFails, Finish, BookingPc, EventKinds
<1>6. CASE CancelDeadlock(r)
  BY <1>6, FinishStep DEF CancelDeadlock, storeVars
<1> QED
  BY <1>2, <1>3, <1>4, <1>5, <1>6, <1>7 DEF Accept

-----------------------------------------------------------------------------
(* The COMMIT of a booking *)

\* The new row is the only one of its slot (the unique index), and the slot
\* it reserves is still the live, AVAILABLE one that was locked.
LEMMA BookCommitKeepsInv ==
    ASSUME BookingCore, NEW r \in Requests, NEW a \in Appts, BookCommit(r, a)
    PROVE  BookingCore' /\ HoldsKept
<1> DEFINE s == areq[r].slot
           row == [NoAppt EXCEPT !.status = "CONFIRMED",
                                 !.client = areq[r].client, !.slot = s]
           req == [Idle EXCEPT !.pc = "created", !.appt = a]
<1> USE DEF BookingCore
<1>1. areq[r].pc = "insert" /\ areq[r].client \in Clients /\ s \in Slots
  BY DEF BookCommit, RequestShape, BookingPc
<1>2. slotLock[s] = r /\ Live(s) /\ slot[s].status = "AVAILABLE"
  BY <1>1 DEF BookersHoldLock, SlotStillAvailable, BookingPc
<1>3. \A b \in Appts : appt[b].slot # s
  BY DEF BookCommit, UniqueSlotId, ApptsOf
<1>4. row \in ApptRow /\ row.status = "CONFIRMED" /\ row.client = areq[r].client
      /\ row.slot = s
  BY <1>1 DEF NoAppt, ApptRow, AppointmentStatus
<1>5. req \in ApptRequest /\ req.pc = "created" /\ req.appt = a
  BY DEF Idle, ApptRequest, ApptPc, EventKinds
<1>6. appt[a] = NoAppt /\ appt' = [appt EXCEPT ![a] = row]
  BY DEF BookCommit
<1>7. areq' = [areq EXCEPT ![r] = req]
  BY DEF BookCommit
<1>8. row # NoAppt
  BY <1>4, IdleTyped
<1> HIDE DEF row, req
<1>9. slot' \in [Slots -> SlotRow]
      /\ slot'[s].status = "RESERVED" /\ slot'[s].row = slot[s].row
      /\ \A t \in Slots \ {s} : slot'[t] = slot[t]
  BY <1>1 DEF BookCommit, ApptTypeOK, StoreTypeOK, SlotRow, SlotStatus
<1>10. slotLock' \in [Slots -> Requests \cup {Null}]
       /\ slotLock'[s] = Null /\ \A t \in Slots \ {s} : slotLock'[t] = slotLock[t]
  BY <1>1 DEF BookCommit, Release, ApptTypeOK, StoreTypeOK
<1>11. appt' \in [Appts -> ApptRow] /\ appt'[a] = row
       /\ \A b \in Appts \ {a} : appt'[b] = appt[b]
  BY <1>4, <1>6 DEF ApptTypeOK, StoreTypeOK
<1>12. areq' \in [Requests -> ApptRequest] /\ areq'[r] = req
       /\ \A r2 \in Requests \ {r} : areq'[r2] = areq[r2]
  BY <1>5, <1>7 DEF ApptTypeOK
<1>13. ApptTypeOK'
  <2>1. total' \in [Prestataires -> Nat]
    <3>1. total' = [total EXCEPT ![Owner[s]] = @ + 1]
      BY DEF BookCommit
    <3>2. Owner[s] \in Prestataires /\ total \in [Prestataires -> Nat]
      BY <1>1, StoreAssumption DEF ApptTypeOK, StoreTypeOK
    <3>3. total[Owner[s]] + 1 \in Nat
      BY <3>2
    <3> QED
      BY <3>1, <3>2, <3>3
  <2> QED
    BY <1>9, <1>10, <1>11, <1>12, <2>1 DEF BookCommit, ApptTypeOK, StoreTypeOK
<1>14. RowsComplete'
  BY <1>1, <1>4, <1>11 DEF RowsComplete, AppointmentStatus
<1>15. OneRowPerSlot'
  BY <1>3, <1>4, <1>11 DEF OneRowPerSlot
<1>16. RequestShape'
  BY <1>5, <1>8, <1>11, <1>12 DEF RequestShape, BookingPc, EventKinds
<1>17. BookersHoldLock'
  BY <1>2, <1>5, <1>10, <1>12 DEF BookersHoldLock, RequestShape, BookingPc
<1>18. SlotStillAvailable'
  <2> SUFFICES ASSUME NEW r2 \in Requests, areq'[r2].pc \in BookingPc
               PROVE  /\ slot'[areq'[r2].slot].row = "live"
                      /\ slot'[areq'[r2].slot].status = "AVAILABLE"
    BY DEF SlotStillAvailable, Live
  <2>1. r2 # r /\ areq'[r2] = areq[r2]
    BY <1>5, <1>12 DEF BookingPc
  <2>2. areq[r2].slot \in Slots /\ slotLock[areq[r2].slot] = r2
    BY <2>1 DEF RequestShape, BookersHoldLock
  <2>3. areq[r2].slot # s
    BY <1>2, <2>1, <2>2
  <2> QED
    BY <1>9, <2>1, <2>2, <2>3 DEF SlotStillAvailable, Live
<1>19. HoldsKept
  <2> SUFFICES ASSUME NEW S \in SUBSET Slots, HoldSlots(S), NEW b \in Appts,
                      appt'[b].status = "CONFIRMED", appt'[b].slot \notin S
               PROVE  /\ slot'[appt'[b].slot].row = "live"
                      /\ slot'[appt'[b].slot].status = "RESERVED"
    BY DEF HoldsKept, HoldSlots, Live
  <2>1. CASE b = a
    BY <1>2, <1>4, <1>9, <1>11, <2>1 DEF Live
  <2>2. CASE b # a
    <3>1. appt[b].slot \in Slots \ {s} /\ appt'[b] = appt[b]
      BY <1>3, <1>11, <2>2, IdleTyped DEF RowsComplete
    <3> QED
      BY <1>9, <3>1 DEF HoldSlots, Live
  <2> QED
    BY <2>1, <2>2
<1> QED
  BY <1>13, <1>14, <1>15, <1>16, <1>17, <1>18, <1>19

-----------------------------------------------------------------------------
(* Appointments that close: cancellation, completion, the hourly job *)

\* Rows are only ever closed, never moved to another client or slot: what the
\* invariant says of the rows alone is kept.
LEMMA ClosingKeepsRows ==
    ASSUME BookingCore,
           \A b \in Appts :
              \/ appt'[b] = appt[b]
              \/ /\ appt[b] # NoAppt
                 /\ appt'[b].status \in {"CANCELLED", "COMPLETED"}
                 /\ appt'[b].client = appt[b].client
                 /\ appt'[b].slot = appt[b].slot
    PROVE  /\ RowsComplete'
           /\ OneRowPerSlot'
           /\ \A b \in Appts : appt[b] # NoAppt => appt'[b] # NoAppt
           /\ \A b \in Appts : appt'[b].status = "CONFIRMED" => appt'[b] = appt[b]
<1>1. \A b \in Appts : appt[b] # NoAppt <=> appt'[b] # NoAppt
  BY IdleTyped
<1>2. RowsComplete'
  BY DEF BookingCore, RowsComplete, AppointmentStatus
<1>3. OneRowPerSlot'
  BY <1>1 DEF BookingCore, OneRowPerSlot
<1> QED
  BY <1>1, <1>2, <1>3

\* A cancellation frees the slot of its own appointment only: another row of
\* that slot there is none, and no booking holds the lock it waited for.
LEMMA CancelCommitKeepsInv ==
    ASSUME BookingCore, NEW r \in Requests, CancelCommit(r)
    PROVE  BookingCore' /\ HoldsKept
<1> DEFINE a == areq[r].appt
           s == appt[a].slot
           req == [Idle EXCEPT !.pc = "cancelled", !.appt = a]
<1> USE DEF BookingCore
<1>1. a \in Appts /\ appt[a] # NoAppt
  BY DEF CancelCommit, RequestShape
<1>2. s \in Slots /\ slotLock[s] = Null /\ appt[a] \in ApptRow
  BY <1>1, FieldsTyped DEF CancelCommit, RowsComplete
<1>3. PICK done \in {FALSE, appt[a].completedAt} :
        appt' = [appt EXCEPT ![a] = [@ EXCEPT !.status = "CANCELLED",
                                              !.cancelledBy = Canceller(r),
                                              !.completedAt = done]]
  BY DEF CancelCommit
<1> DEFINE row == [appt[a] EXCEPT !.status = "CANCELLED",
                                  !.cancelledBy = Canceller(r),
                                  !.completedAt = done]
<1>4. row \in ApptRow /\ row.status = "CANCELLED" /\ row.client = appt[a].client
      /\ row.slot = s
  BY <1>2, FieldsTyped DEF ApptRow, AppointmentStatus, Canceller, ApptRequest
<1>5. req \in ApptRequest /\ req.pc = "cancelled" /\ req.appt = a
  BY <1>1 DEF Idle, ApptRequest, ApptPc, EventKinds
<1>6. appt' = [appt EXCEPT ![a] = row] /\ areq' = [areq EXCEPT ![r] = req]
  BY <1>3 DEF CancelCommit
<1> HIDE DEF row, req
<1>7. appt' \in [Appts -> ApptRow] /\ appt'[a] = row
      /\ \A b \in Appts \ {a} : appt'[b] = appt[b]
  BY <1>1, <1>4, <1>6 DEF ApptTypeOK, StoreTypeOK
<1>8. areq' \in [Requests -> ApptRequest] /\ areq'[r] = req
      /\ \A r2 \in Requests \ {r} : areq'[r2] = areq[r2]
  BY <1>5, <1>6 DEF ApptTypeOK
<1>9. slot' \in [Slots -> SlotRow] /\ \A t \in Slots \ {s} : slot'[t] = slot[t]
  BY <1>2 DEF CancelCommit, ApptTypeOK, StoreTypeOK, SlotRow, SlotStatus
<1>10. ApptTypeOK'
  BY <1>7, <1>8, <1>9 DEF CancelCommit, ApptTypeOK, StoreTypeOK
<1>11. /\ RowsComplete' /\ OneRowPerSlot'
       /\ \A b \in Appts : appt[b] # NoAppt => appt'[b] # NoAppt
       /\ \A b \in Appts : appt'[b].status = "CONFIRMED" => appt'[b] = appt[b]
  BY <1>1, <1>4, <1>7, ClosingKeepsRows
<1>12. RequestShape'
  BY <1>1, <1>5, <1>8, <1>11 DEF RequestShape, BookingPc, EventKinds
<1>13. BookersHoldLock'
  BY <1>5, <1>8 DEF CancelCommit, BookersHoldLock, BookingPc
<1>14. SlotStillAvailable'
  <2> SUFFICES ASSUME NEW r2 \in Requests, areq'[r2].pc \in BookingPc
               PROVE  /\ slot'[areq'[r2].slot].row = "live"
                      /\ slot'[areq'[r2].slot].status = "AVAILABLE"
    BY DEF SlotStillAvailable, Live
  <2>1. areq'[r2] = areq[r2]
    BY <1>5, <1>8 DEF BookingPc
  <2>2. areq[r2].slot \in Slots \ {s}
    BY <1>2, <2>1, StoreAssumption DEF RequestShape, BookersHoldLock
  <2> QED
    BY <1>9, <2>1, <2>2 DEF SlotStillAvailable, Live
<1>15. HoldsKept
  <2> SUFFICES ASSUME NEW S \in SUBSET Slots, HoldSlots(S), NEW b \in Appts,
                      appt'[b].status = "CONFIRMED", appt'[b].slot \notin S
               PROVE  /\ slot'[appt'[b].slot].row = "live"
                      /\ slot'[appt'[b].slot].status = "RESERVED"
    BY DEF HoldsKept, HoldSlots, Live
  <2>1. b # a /\ appt'[b] = appt[b]
    BY <1>4, <1>7, <1>11
  <2>2. appt[b].slot \in Slots \ {s}
    BY <1>1, <2>1, IdleTyped DEF RowsComplete, OneRowPerSlot
  <2> QED
    BY <1>9, <2>1, <2>2 DEF HoldSlots, Live
<1> QED
  BY <1>10, <1>11, <1>12, <1>13, <1>14, <1>15

\* A completion touches no slot.
LEMMA CompleteCommitKeepsInv ==
    ASSUME BookingCore, NEW r \in Requests, CompleteCommit(r)
    PROVE  BookingCore' /\ HoldsKept
<1> DEFINE a == areq[r].appt
           req == [Idle EXCEPT !.pc = "completed", !.appt = a]
<1> USE DEF BookingCore
<1>1. a \in Appts /\ appt[a] # NoAppt /\ appt[a] \in ApptRow
  BY FieldsTyped DEF CompleteCommit, RequestShape
<1>2. PICK by \in {Null, appt[a].cancelledBy} :
        appt' = [appt EXCEPT ![a] = [@ EXCEPT !.status = "COMPLETED",
                                              !.cancelledBy = by,
                                              !.completedAt = TRUE]]
  BY DEF CompleteCommit
<1> DEFINE row == [appt[a] EXCEPT !.status = "COMPLETED", !.cancelledBy = by,
                                  !.completedAt = TRUE]
<1>3. row \in ApptRow /\ row.status = "COMPLETED" /\ row.client = appt[a].client
      /\ row.slot = appt[a].slot
  BY <1>1 DEF ApptRow, AppointmentStatus
<1>4. req \in ApptRequest /\ req.pc = "completed" /\ req.appt = a
  BY <1>1 DEF Idle, ApptRequest, ApptPc, EventKinds
<1>5. appt' = [appt EXCEPT ![a] = row] /\ areq' = [areq EXCEPT ![r] = req]
  BY <1>2 DEF CompleteCommit
<1> HIDE DEF row, req
<1>6. appt' \in [Appts -> ApptRow] /\ appt'[a] = row
      /\ \A b \in Appts \ {a} : appt'[b] = appt[b]
  BY <1>1, <1>3, <1>5 DEF ApptTypeOK, StoreTypeOK
<1>7. areq' \in [Requests -> ApptRequest] /\ areq'[r] = req
      /\ \A r2 \in Requests \ {r} : areq'[r2] = areq[r2]
  BY <1>4, <1>5 DEF ApptTypeOK
<1>8. ApptTypeOK'
  BY <1>6, <1>7 DEF CompleteCommit, ApptTypeOK, StoreTypeOK
<1>9. /\ RowsComplete' /\ OneRowPerSlot'
      /\ \A b \in Appts : appt[b] # NoAppt => appt'[b] # NoAppt
      /\ \A b \in Appts : appt'[b].status = "CONFIRMED" => appt'[b] = appt[b]
  BY <1>1, <1>3, <1>6, ClosingKeepsRows
<1>10. RequestShape'
  BY <1>1, <1>4, <1>7, <1>9 DEF RequestShape, BookingPc, EventKinds
<1>11. BookersHoldLock' /\ SlotStillAvailable'
  BY <1>4, <1>7 DEF CompleteCommit, BookersHoldLock, SlotStillAvailable, Live, BookingPc
<1>12. HoldsKept
  BY <1>9 DEF CompleteCommit, HoldsKept, HoldSlots, Live
<1> QED
  BY <1>8, <1>9, <1>10, <1>11, <1>12

\* Nor does the hourly job, which closes any number of appointments at once.
LEMMA AutoCompleteKeepsInv ==
    ASSUME BookingCore, AutoComplete
    PROVE  BookingCore' /\ HoldsKept
<1> USE DEF BookingCore
<1>1. \A b \in Appts :
         \/ appt'[b] = appt[b]
         \/ /\ appt[b] # NoAppt
            /\ appt'[b] = [appt[b] EXCEPT !.status = "COMPLETED", !.completedAt = TRUE]
  BY IdleTyped DEF AutoComplete, Overdue
<1>2. \A b \in Appts :
         /\ appt'[b] \in ApptRow
         /\ appt'[b] # appt[b] =>
              /\ appt[b] # NoAppt
              /\ appt'[b].status \in {"CANCELLED", "COMPLETED"}
              /\ appt'[b].client = appt[b].client
              /\ appt'[b].slot = appt[b].slot
  <2> TAKE b \in Appts
  <2>1. appt[b] \in ApptRow
    BY FieldsTyped
  <2>2. CASE appt'[b] = appt[b]
    BY <2>1, <2>2
  <2>3. CASE appt'[b] # appt[b]
    BY <1>1, <2>1, <2>3 DEF ApptRow, AppointmentStatus
  <2> QED
    BY <2>2, <2>3
<1>3. appt' \in [Appts -> ApptRow]
  BY <1>2 DEF AutoComplete
<1>4. ApptTypeOK'
  BY <1>3 DEF AutoComplete, ApptTypeOK, StoreTypeOK
<1>5. /\ RowsComplete' /\ OneRowPerSlot'
      /\ \A b \in Appts : appt[b] # NoAppt => appt'[b] # NoAppt
      /\ \A b \in Appts : appt'[b].status = "CONFIRMED" => appt'[b] = appt[b]
  BY <1>2, ClosingKeepsRows
<1>6. RequestShape'
  BY <1>5 DEF AutoComplete, RequestShape
<1>7. BookersHoldLock' /\ SlotStillAvailable'
  BY DEF AutoComplete, BookersHoldLock, SlotStillAvailable, Live
<1>8. HoldsKept
  BY <1>5 DEF AutoComplete, HoldsKept, HoldSlots, Live
<1> QED
  BY <1>4, <1>5, <1>6, <1>7, <1>8

-----------------------------------------------------------------------------
(* The invariant *)

\* The clock changes neither rows nor requests.
LEMMA TickKeepsInv ==
    ASSUME BookingCore, Tick
    PROVE  BookingCore' /\ HoldsKept
<1> USE DEF BookingCore, Tick, ClockTick
<1>1. ApptTypeOK'
  BY DEF ApptTypeOK, StoreTypeOK
<1>2. RowsComplete' /\ OneRowPerSlot' /\ RequestShape'
  BY DEF RowsComplete, OneRowPerSlot, RequestShape
<1>3. BookersHoldLock' /\ SlotStillAvailable' /\ HoldsKept
  BY DEF BookersHoldLock, SlotStillAvailable, HoldsKept, HoldSlots, Live
<1> QED
  BY <1>1, <1>2, <1>3

\* A crash leaves what is committed and frees every lock with its request.
LEMMA CrashKeepsInv ==
    ASSUME BookingCore, Crash
    PROVE  BookingCore' /\ HoldsKept
<1> USE DEF BookingCore
<1>1. areq' = [r \in Requests |-> Idle] /\ slotLock' = [s \in Slots |-> Null]
      /\ UNCHANGED <<slot, appt, total, events, now>>
  BY DEF Crash
<1>2. ApptTypeOK'
  BY <1>1, IdleTyped DEF ApptTypeOK, StoreTypeOK
<1>3. RowsComplete' /\ OneRowPerSlot' /\ HoldsKept
  BY <1>1 DEF RowsComplete, OneRowPerSlot, HoldsKept, HoldSlots, Live
<1>4. \A r \in Requests : areq'[r].pc = "idle"
  BY <1>1, IdleTyped
<1>5. RequestShape' /\ BookersHoldLock' /\ SlotStillAvailable'
  BY <1>4 DEF RequestShape, BookersHoldLock, SlotStillAvailable, BookingPc, EventKinds
<1> QED
  BY <1>2, <1>3, <1>5

\* Every step of every request, of the job, of the clock and every crash keeps
\* the invariant, and slots held.
LEMMA NextKeepsCore ==
    BookingCore /\ [ApptNext]_apptVars => BookingCore' /\ HoldsKept
<1> SUFFICES ASSUME BookingCore, [ApptNext]_apptVars PROVE BookingCore' /\ HoldsKept
  OBVIOUS
<1>1. ASSUME NEW r \in Requests, Serve(r) PROVE BookingCore' /\ HoldsKept
  BY <1>1, BookingReadsKeepInv, BookCommitKeepsInv, CancelCommitKeepsInv,
     CompleteCommitKeepsInv, OtherRequestStepsKeepInv DEF Serve
<1>2. ASSUME NEW r \in Requests, Accept(r) PROVE BookingCore' /\ HoldsKept
  BY <1>2, OtherRequestStepsKeepInv
<1>3. CASE AutoComplete
  BY <1>3, AutoCompleteKeepsInv
<1>4. CASE Tick
  BY <1>4, TickKeepsInv
<1>5. CASE Crash
  BY <1>5, CrashKeepsInv
<1>6. CASE UNCHANGED apptVars
  BY <1>6 DEF apptVars, storeVars, BookingCore, ApptTypeOK, StoreTypeOK,
     RowsComplete, OneRowPerSlot, RequestShape, BookersHoldLock,
     SlotStillAvailable, HoldsKept, HoldSlots, Live
<1> QED
  BY <1>1, <1>2, <1>3, <1>4, <1>5, <1>6 DEF ApptNext, ApptRequestNext

LEMMA NextKeepsInv == BookingInv /\ [ApptNext]_apptVars => BookingInv'
<1> SUFFICES ASSUME BookingInv, [ApptNext]_apptVars PROVE BookingInv'
  OBVIOUS
<1>1. HoldSlots({}) /\ BookingCore' /\ HoldsKept
  BY NextKeepsCore DEF BookingInv, ConfirmedHoldsSlot, HoldSlots
<1>2. HoldSlots({})'
  BY <1>1 DEF HoldsKept
<1> QED
  BY <1>1, <1>2 DEF BookingInv, ConfirmedHoldsSlot, HoldSlots

\* The inductive invariant of booking holds in every reachable state.
THEOREM BookingInvariant == ApptSpec => []BookingInv
<1>1. ApptInit => BookingInv
  BY InitInv
<1>2. BookingInv /\ [ApptNext]_apptVars => BookingInv'
  BY NextKeepsInv
<1> QED
  BY <1>1, <1>2, PTL DEF ApptSpec

\* Type correctness.
THEOREM TypeCorrect == ApptSpec => []ApptTypeOK
<1>1. BookingInv => ApptTypeOK
  BY DEF BookingInv, BookingCore
<1> QED
  BY <1>1, BookingInvariant, PTL

\* No slot is ever promised to two clients, however bookings, cancellations,
\* completions and crashes interleave.
THEOREM NoDoubleBookingEver == ApptSpec => []NoDoubleBooking
<1>1. BookingInv => NoDoubleBooking
  BY IdleTyped DEF BookingInv, BookingCore, OneRowPerSlot, NoDoubleBooking
<1> QED
  BY <1>1, BookingInvariant, PTL

\* What bookAppointment checked under the row lock still holds at its INSERT.
THEOREM CheckStillHoldsAtInsert == ApptSpec => []SlotStillAvailable
<1>1. BookingInv => SlotStillAvailable
  BY DEF BookingInv, BookingCore
<1> QED
  BY <1>1, BookingInvariant, PTL

\* The slot of a CONFIRMED appointment is there and RESERVED, as long as no
\* handler of SlotsService interferes.
THEOREM ConfirmedKeepsSlot == ApptSpec => []ConfirmedHoldsSlot
<1>1. BookingInv => ConfirmedHoldsSlot
  BY DEF BookingInv
<1> QED
  BY <1>1, BookingInvariant, PTL

-----------------------------------------------------------------------------
(* Row locks: the converse of BookersHoldLock *)

\* A request that books takes the lock of its slot, keeps it or gives it up,
\* and one that does not book has none.
LEMMA LocksMove ==
    ASSUME BookingCore, LocksAreHeld, NEW r \in Requests,
           \A q \in Requests \ {r} : areq'[q] = areq[q],
           \/ /\ slotLock' = slotLock
              /\ areq[r].pc \notin BookingPc
           \/ /\ slotLock' = slotLock
              /\ areq'[r].pc \in BookingPc /\ areq'[r].slot = areq[r].slot
           \/ /\ areq[r].pc \notin BookingPc
              /\ slotLock' = [slotLock EXCEPT ![areq[r].slot] = r]
              /\ areq'[r].pc \in BookingPc /\ areq'[r].slot = areq[r].slot
           \/ Release(areq[r].slot)
    PROVE  LocksAreHeld'
<1> SUFFICES ASSUME NEW s \in Slots, slotLock'[s] # Null
             PROVE  /\ areq'[slotLock'[s]].pc \in BookingPc
                    /\ areq'[slotLock'[s]].slot = s
  BY DEF LocksAreHeld
<1>1. slotLock \in [Slots -> Requests \cup {Null}]
  BY DEF BookingCore, ApptTypeOK, StoreTypeOK
<1>2. CASE slotLock'[s] = slotLock[s]
  BY <1>1, <1>2 DEF LocksAreHeld, Release
<1>3. CASE slotLock'[s] # slotLock[s]
  BY <1>1, <1>3 DEF Release
<1> QED
  BY <1>2, <1>3

LEMMA NextLocks ==
    ASSUME BookingCore, LocksAreHeld, [ApptNext]_apptVars
    PROVE  LocksAreHeld'
<1>1. \A r \in Requests : areq[r] \in ApptRequest
  BY FieldsTyped DEF BookingCore
<1>2. areq \in [Requests -> ApptRequest]
  BY DEF BookingCore, ApptTypeOK
<1>3. ASSUME NEW r \in Requests, Serve(r) \/ Accept(r)
      PROVE  LocksAreHeld'
  <2>1. \A q \in Requests \ {r} : areq'[q] = areq[q]
    BY <1>2, <1>3 DEF Serve, Accept, BookLock, BookTurnedAway, BookCheck, BookRefuse,
       BookCommit, BookDuplicate, CancelCommit, CancelDeadlock, CompleteCommit, Emit,
       ReloadFails, BookBegin, CancelBegin, CompleteBegin, Finish
  <2>2. CASE BookLock(r)
    BY <1>1, <1>2, <2>1, <2>2, LocksMove DEF BookLock, BookingPc, ApptRequest
  <2>3. CASE BookCheck(r)
    BY <1>1, <1>2, <2>1, <2>3, LocksMove DEF BookCheck, BookingPc, ApptRequest, storeVars
  <2>4. CASE BookRefuse(r) \/ BookDuplicate(r) \/ \E a \in Appts : BookCommit(r, a)
    BY <2>1, <2>4, LocksMove DEF BookRefuse, BookDuplicate, BookCommit
  <2>5. CASE slotLock' = slotLock /\ areq[r].pc \notin BookingPc
    BY <2>1, <2>5, LocksMove
  <2>6. CASE Accept(r)
    BY <2>5, <2>6 DEF Accept, BookBegin, CancelBegin, CompleteBegin, storeVars, BookingPc
  <2>7. CASE BookTurnedAway(r) \/ CancelDeadlock(r) \/ CancelCommit(r)
             \/ CompleteCommit(r) \/ Emit(r) \/ ReloadFails(r)
    BY <2>5, <2>7 DEF BookTurnedAway, CancelDeadlock, CancelCommit, CompleteCommit, Emit,
       ReloadFails, storeVars, BookingPc, EventKinds
  <2> QED
    BY <1>3, <2>2, <2>3, <2>4, <2>6, <2>7 DEF Serve
<1>4. CASE Crash
  BY <1>4 DEF Crash, LocksAreHeld
<1>5. CASE UNCHANGED <<slotLock, areq>>
  BY <1>5 DEF LocksAreHeld
<1> QED
  BY <1>3, <1>4, <1>5 DEF ApptNext, ApptRequestNext, AutoComplete, Tick, ClockTick,
     apptVars, storeVars

\* Whoever holds a row lock is at work on that slot: no lock is left behind,
\* by whatever way a transaction ends.
THEOREM LocksNeverLeft == ApptSpec => []LocksAreHeld
<1>1. ApptInit => LocksAreHeld
  BY DEF ApptInit, StoreInit, LocksAreHeld
<1>2. BookingInv => BookingCore
  BY DEF BookingInv
<1>3. BookingCore /\ LocksAreHeld /\ [ApptNext]_apptVars => LocksAreHeld'
  BY NextLocks
<1> QED
  BY <1>1, <1>2, <1>3, BookingInvariant, PTL DEF ApptSpec

\* A booking that gets past the status check and still meets the unique index
\* (400 instead of 409 Conflict) meets a closed appointment, never a held one.
THEOREM DuplicateMeansClosed == ApptSpec => LoserGetsConflict
<1> DEFINE ClosedRows(r) == \A a \in ApptsOf(areq[r].slot) : appt[a].status # "CONFIRMED"
<1>1. BookingInv => \A r \in Requests : BookDuplicate(r) => ClosedRows(r)
  BY DEF BookingInv, BookingCore, SlotStillAvailable, ConfirmedHoldsSlot, BookDuplicate,
         BookingPc, ApptsOf
<1>2. BookingInv /\ [ApptNext]_apptVars =>
        [\A r \in Requests : BookDuplicate(r) => ClosedRows(r)]_apptVars
  BY <1>1
<1> QED
  BY <1>2, BookingInvariant, PTL DEF ApptSpec, LoserGetsConflict

-----------------------------------------------------------------------------
(* The sales of a slot, from the rows of appointments *)

SaleState(row) == IF row.status = "CONFIRMED" THEN "held" ELSE "closed"

SalesIn(rows, s) ==
    {<<rows[a].client, SaleState(rows[a])>> : a \in {b \in Appts : rows[b].slot = s}}

LEMMA SaleIsSalesIn ==
    Sale = [s \in Slots |-> SalesIn(appt, s)] /\ Sale' = [s \in Slots |-> SalesIn(appt', s)]
BY DEF Sale, SalesIn, ApptsOf, SaleState

\* A slot with no row has no sale, one with one row has that sale.
LEMMA NoSale ==
    ASSUME NEW rows, NEW s, \A b \in Appts : rows[b].slot # s
    PROVE  SalesIn(rows, s) = {}
BY DEF SalesIn

LEMMA OneSale ==
    ASSUME NEW rows, NEW s, NEW a \in Appts, rows[a].slot = s,
           \A b \in Appts : rows[b].slot = s => b = a
    PROVE  SalesIn(rows, s) = {<<rows[a].client, SaleState(rows[a])>>}
BY DEF SalesIn

\* The unique index, as it is used here.
LEMMA RowOfSlot ==
    ASSUME BookingCore, NEW a \in Appts, NEW b \in Appts, NEW s \in Slots,
           appt[a].slot = s, appt[b].slot = s
    PROVE  a = b
<1>1. NoAppt.slot = Null
  BY DEF NoAppt
<1> QED
  BY <1>1, StoreAssumption DEF BookingCore, OneRowPerSlot

-----------------------------------------------------------------------------
(* Steps *)

\* The COMMIT of a booking is the sale of its slot.
LEMMA BookCommitSells ==
    ASSUME BookingCore, NEW r \in Requests, NEW a \in Appts, BookCommit(r, a)
    PROVE  SaleOf!Next
<1> DEFINE s == areq[r].slot
           c == areq[r].client
           row == [NoAppt EXCEPT !.status = "CONFIRMED", !.client = c, !.slot = s]
<1>1. s \in Slots /\ c \in Clients
  BY DEF BookCommit, BookingCore, RequestShape, BookingPc
<1>2. row.status = "CONFIRMED" /\ row.client = c /\ row.slot = s
  BY DEF NoAppt
<1>3. appt[a] = NoAppt /\ appt' = [appt EXCEPT ![a] = row]
  BY DEF BookCommit
<1>4. NoAppt.slot = Null
  BY DEF NoAppt
<1> HIDE DEF row
<1>5. appt'[a] = row /\ \A b \in Appts \ {a} : appt'[b] = appt[b]
  BY <1>3 DEF BookingCore, ApptTypeOK, StoreTypeOK
<1>6. \A b \in Appts : appt[b].slot # s
  BY DEF BookCommit, UniqueSlotId, ApptsOf
<1>7. SalesIn(appt, s) = {}
  BY <1>6, NoSale
<1>8. SalesIn(appt', s) = {<<c, "held">>}
  <2>1. appt'[a].slot = s /\ \A b \in Appts : appt'[b].slot = s => b = a
    BY <1>2, <1>5, <1>6
  <2> QED
    BY <1>2, <1>5, <2>1, OneSale DEF SaleState
<1>9. ASSUME NEW t \in Slots, t # s
      PROVE  SalesIn(appt', t) = SalesIn(appt, t)
  <2>1. appt[a].slot # t /\ appt'[a].slot # t
    BY <1>2, <1>3, <1>4, <1>5, <1>9, StoreAssumption
  <2> QED
    BY <1>5, <2>1 DEF SalesIn
<1>10. Sale[s] = {} /\ Sale' = [Sale EXCEPT ![s] = {<<c, "held">>}]
  BY <1>1, <1>7, <1>8, <1>9, SaleIsSalesIn
<1>11. SaleOf!Sell(s, c)
  BY <1>10 DEF SaleOf!Sell
<1> QED
  BY <1>1, <1>11 DEF SaleOf!Next

\* Closing appointments, any number in one step, closes the sales of those that
\* were held; a second save of a closed one changes no sale.
LEMMA ClosingCloses ==
    ASSUME BookingCore, BookingCore',
           \A b \in Appts :
              \/ appt'[b] = appt[b]
              \/ /\ appt[b] # NoAppt
                 /\ appt'[b].status \in {"CANCELLED", "COMPLETED"}
                 /\ appt'[b].client = appt[b].client
                 /\ appt'[b].slot = appt[b].slot
    PROVE  SaleOf!Next
<1> DEFINE Closed == {b \in Appts : appt[b].status = "CONFIRMED" /\ appt'[b] # appt[b]}
           S == {s \in Slots : \E b \in Closed : appt[b].slot = s}
<1>1. \A b \in Appts : appt'[b].slot = appt[b].slot /\ appt'[b].client = appt[b].client
  OBVIOUS
<1>2. \A b \in Appts : appt[b].status = "CONFIRMED" => appt[b].client \in Clients
  BY IdleTyped DEF BookingCore, RowsComplete
<1>3. ASSUME NEW s \in S
      PROVE  /\ \E c \in Clients : Sale[s] = {<<c, "held">>}
             /\ Sale'[s] = {<<p[1], "closed">> : p \in Sale[s]}
  <2>1. PICK b \in Closed : appt[b].slot = s
    OBVIOUS
  <2>2. \A x \in Appts : appt[x].slot = s => x = b
    BY <2>1, RowOfSlot
  <2>3. SalesIn(appt, s) = {<<appt[b].client, "held">>}
    BY <2>1, <2>2, OneSale DEF SaleState
  <2>4. SaleState(appt'[b]) = "closed"
    BY <2>1 DEF SaleState
  <2>5. SalesIn(appt', s) = {<<appt[b].client, "closed">>}
    BY <1>1, <2>1, <2>2, <2>4, OneSale
  <2> DEFINE c == appt[b].client
  <2>6. c \in Clients
    BY <1>2, <2>1
  <2>7. Sale[s] = {<<c, "held">>} /\ Sale'[s] = {<<c, "closed">>}
    BY <2>3, <2>5, SaleIsSalesIn
  <2> HIDE DEF c
  <2>8. {<<p[1], "closed">> : p \in {<<c, "held">>}} = {<<c, "closed">>}
    OBVIOUS
  <2> QED
    BY <2>6, <2>7, <2>8
<1>4. ASSUME NEW s \in Slots \ S
      PROVE  Sale'[s] = Sale[s]
  <2>1. \A b \in Appts : appt[b].slot = s => SaleState(appt'[b]) = SaleState(appt[b])
    BY DEF SaleState
  <2>2. SalesIn(appt', s) = SalesIn(appt, s)
    BY <1>1, <2>1 DEF SalesIn
  <2> QED
    BY <2>2, SaleIsSalesIn
<1>5. Sale' = [s \in Slots |-> IF s \in S THEN {<<p[1], "closed">> : p \in Sale[s]}
                                          ELSE Sale[s]]
  BY <1>3, <1>4, SaleIsSalesIn
<1>6. S \in SUBSET Slots
  OBVIOUS
<1> HIDE DEF S
<1>7. SaleOf!Close(S)
  BY <1>3, <1>5 DEF SaleOf!Close
<1> QED
  BY <1>6, <1>7 DEF SaleOf!Next

\* Steps that write no appointment change no sale.
LEMMA SameRowsSameSales ==
    ASSUME UNCHANGED appt
    PROVE  UNCHANGED Sale
BY DEF Sale, ApptsOf

LEMMA InitSale == ApptInit => SaleOf!Init
<1> SUFFICES ASSUME ApptInit PROVE SaleOf!Init
  OBVIOUS
<1>1. \A b \in Appts : appt[b].slot = Null
  BY DEF ApptInit, StoreInit, NoAppt
<1>2. \A s \in Slots : SalesIn(appt, s) = {}
  BY <1>1, NoSale, StoreAssumption
<1> QED
  BY <1>2, SaleIsSalesIn DEF SaleOf!Init

\* Each step is a step of SlotSale, or changes no sale.
LEMMA StepRefines ==
    BookingCore /\ BookingCore' /\ [ApptNext]_apptVars => [SaleOf!Next]_Sale
<1> SUFFICES ASSUME BookingCore, BookingCore', [ApptNext]_apptVars
             PROVE  SaleOf!Next \/ UNCHANGED Sale
  OBVIOUS
<1>1. ASSUME NEW r \in Requests, NEW a \in Appts, BookCommit(r, a)
      PROVE  SaleOf!Next
  BY <1>1, BookCommitSells
<1>2. ASSUME NEW r \in Requests, CancelCommit(r)
      PROVE  SaleOf!Next
  <2>1. areq[r].appt \in Appts /\ appt[areq[r].appt] # NoAppt
        /\ appt[areq[r].appt] \in ApptRow
    BY <1>2, FieldsTyped DEF CancelCommit, BookingCore, RequestShape
  <2>2. PICK done \in {FALSE, appt[areq[r].appt].completedAt} :
          appt' = [appt EXCEPT ![areq[r].appt] =
                     [@ EXCEPT !.status = "CANCELLED",
                               !.cancelledBy = Canceller(r),
                               !.completedAt = done]]
    BY <1>2 DEF CancelCommit
  <2> DEFINE row == [appt[areq[r].appt] EXCEPT !.status = "CANCELLED",
                                               !.cancelledBy = Canceller(r),
                                               !.completedAt = done]
  <2>3. /\ row.status = "CANCELLED"
        /\ row.client = appt[areq[r].appt].client
        /\ row.slot = appt[areq[r].appt].slot
    BY <2>1 DEF ApptRow
  <2>4. appt' = [appt EXCEPT ![areq[r].appt] = row]
    BY <2>2
  <2> HIDE DEF row
  <2> QED
    BY <2>1, <2>3, <2>4, ClosingCloses DEF BookingCore, ApptTypeOK, StoreTypeOK
<1>3. ASSUME NEW r \in Requests, CompleteCommit(r)
      PROVE  SaleOf!Next
  <2>1. areq[r].appt \in Appts /\ appt[areq[r].appt] # NoAppt
        /\ appt[areq[r].appt] \in ApptRow
    BY <1>3, FieldsTyped DEF CompleteCommit, BookingCore, RequestShape
  <2>2. PICK by \in {Null, appt[areq[r].appt].cancelledBy} :
          appt' = [appt EXCEPT ![areq[r].appt] =
                     [@ EXCEPT !.status = "COMPLETED",
                               !.cancelledBy = by,
                               !.completedAt = TRUE]]
    BY <1>3 DEF CompleteCommit
  <2> DEFINE row == [appt[areq[r].appt] EXCEPT !.status = "COMPLETED",
                                               !.cancelledBy = by,
                                               !.completedAt = TRUE]
  <2>3. /\ row.status = "COMPLETED"
        /\ row.client = appt[areq[r].appt].client
        /\ row.slot = appt[areq[r].appt].slot
    BY <2>1 DEF ApptRow
  <2>4. appt' = [appt EXCEPT ![areq[r].appt] = row]
    BY <2>2
  <2> HIDE DEF row
  <2> QED
    BY <2>1, <2>3, <2>4, ClosingCloses DEF BookingCore, ApptTypeOK, StoreTypeOK
<1>4. CASE AutoComplete
  <2>1. ASSUME NEW b \in Appts
        PROVE  \/ appt'[b] = appt[b]
               \/ /\ appt[b] # NoAppt
                  /\ appt'[b].status \in {"CANCELLED", "COMPLETED"}
                  /\ appt'[b].client = appt[b].client
                  /\ appt'[b].slot = appt[b].slot
    <3>1. appt[b] \in ApptRow
      BY FieldsTyped DEF BookingCore
    <3>2. appt'[b] = appt[b] \/
            (appt[b].status = "CONFIRMED" /\
             appt'[b] = [appt[b] EXCEPT !.status = "COMPLETED", !.completedAt = TRUE])
      BY <1>4 DEF AutoComplete, Overdue
    <3> QED
      BY <3>1, <3>2, IdleTyped DEF ApptRow
  <2> QED
    BY <2>1, ClosingCloses
<1>5. CASE UNCHANGED appt
  BY <1>5, SameRowsSameSales
<1>6. ASSUME NEW r \in Requests, Serve(r)
      PROVE  SaleOf!Next \/ UNCHANGED appt
  BY <1>1, <1>2, <1>3, <1>6
  DEF Serve, BookLock, BookTurnedAway, BookCheck, BookRefuse, BookDuplicate,
      CancelDeadlock, Emit, ReloadFails, storeVars
<1>7. ASSUME NEW r \in Requests, Accept(r)
      PROVE  UNCHANGED appt
  BY <1>7 DEF Accept, BookBegin, CancelBegin, CompleteBegin, storeVars
<1>8. CASE Tick \/ Crash \/ UNCHANGED apptVars
  BY <1>5, <1>8 DEF Tick, ClockTick, Crash, apptVars, storeVars
<1> QED
  BY <1>4, <1>5, <1>6, <1>7, <1>8 DEF ApptNext, ApptRequestNext

\* AppointmentsService implements SlotSale: each slot is sold at most once,
\* ever, and a closed appointment is never CONFIRMED again.
THEOREM BookingImplementsSale == ApptSpec => SaleRefined
<1>1. ApptInit => SaleOf!Init
  BY InitSale
<1>2. BookingCore /\ BookingCore' /\ [ApptNext]_apptVars => [SaleOf!Next]_Sale
  BY StepRefines
<1>3. BookingInv => BookingCore
  BY DEF BookingInv
<1> QED
  BY <1>1, <1>2, <1>3, BookingInvariant, PTL DEF ApptSpec, SaleRefined, SaleOf!Spec
-----------------------------------------------------------------------------
(* How appointments close: a COMPLETED one is over, and listeners hear only  *)
(* of what the database holds.  Both need what a request remembers of the   *)
(* row it checked, across the awaits before it saves and emits.             *)

ClosedStatus == {"CANCELLED", "COMPLETED"}

\* A request about to save a completion has seen the end of the slot pass; one
\* about to announce that an appointment closed has closed it.
RequestsRemember ==
    \A r \in Requests :
        /\ areq[r].pc = "complete" => now >= EndOf(appt[areq[r].appt].slot)
        /\ areq[r].pc \in {"cancelled", "completed"} =>
              appt[areq[r].appt].status \in ClosedStatus

ClosingInv ==
    /\ BookingCore
    /\ CompletedIsOver
    /\ AnnouncedIsDurable
    /\ RequestsRemember

LEMMA InitClosing == ApptInit => ClosingInv
<1> SUFFICES ASSUME ApptInit PROVE ClosingInv
  OBVIOUS
<1>1. \A a \in Appts : appt[a].status = "NONE"
  BY IdleTyped DEF ApptInit, StoreInit
<1>2. CompletedIsOver /\ AnnouncedIsDurable
  BY <1>1 DEF ApptInit, StoreInit, CompletedIsOver, AnnouncedIsDurable
<1>3. RequestsRemember
  BY IdleTyped DEF ApptInit, RequestsRemember
<1> QED
  BY <1>2, <1>3, InitInv DEF ClosingInv, BookingInv

\* What every step leaves alone: dates and times of slots, the slot of a row,
\* and that a closed appointment is closed.  Time does not go back.
Steady ==
    /\ now' \in Nat /\ now' >= now
    /\ \A s \in Slots : slot'[s].date = slot[s].date /\ slot'[s].end = slot[s].end
    /\ \A a \in Appts :
          appt[a] # NoAppt => appt'[a] # NoAppt /\ appt'[a].slot = appt[a].slot
    /\ \A a \in Appts :
          appt[a].status \in ClosedStatus => appt'[a].status \in ClosedStatus

\* A steady step keeps the invariant if what it completes is over, what it
\* emits was committed, and a request that moves on remembers what it must.
LEMMA SteadyStep ==
    ASSUME ClosingInv, BookingCore', Steady,
           \A a \in Appts : appt'[a].status = "COMPLETED" =>
               \/ appt[a].status = "COMPLETED"
               \/ appt[a] # NoAppt /\ now >= EndOf(appt[a].slot),
           \A r \in Requests :
               \/ areq'[r] = areq[r]
               \/ areq'[r].pc \notin {"complete", "cancelled", "completed"}
               \/ /\ areq'[r].pc = "complete"
                  /\ now >= EndOf(appt[areq'[r].appt].slot)
                  /\ appt[areq'[r].appt] # NoAppt
               \/ /\ areq'[r].pc \in {"cancelled", "completed"}
                  /\ appt'[areq'[r].appt].status \in ClosedStatus,
           \A e \in events' :
               \/ e \in events
               \/ \E a \in Appts : e = <<"lost", a>>
               \/ \E r \in Requests : /\ areq[r].pc \in EventKinds
                                      /\ e = <<areq[r].pc, areq[r].appt>>
    PROVE  ClosingInv'
<1> USE DEF ClosingInv
<1>1. \A a \in Appts : appt[a] # NoAppt =>
         /\ appt[a].slot \in Slots /\ appt'[a].slot = appt[a].slot
         /\ EndOf(appt[a].slot)' = EndOf(appt[a].slot)
  BY IdleTyped DEF BookingCore, RowsComplete, Steady, EndOf
<1>2. \A a \in Appts : appt[a] # NoAppt => EndOf(appt[a].slot) \in Int
  BY <1>1, StoreAssumption DEF BookingCore, ApptTypeOK, StoreTypeOK, SlotRow, EndOf
<1>3. now \in Nat /\ now' \in Nat /\ now' >= now
  BY DEF BookingCore, ApptTypeOK, StoreTypeOK, Steady
<1>4. CompletedIsOver'
  <2> SUFFICES ASSUME NEW a \in Appts, appt'[a].status = "COMPLETED"
               PROVE  now' >= EndOf(appt[a].slot)'
    BY DEF CompletedIsOver
  <2>1. appt[a] # NoAppt /\ now >= EndOf(appt[a].slot)
    BY IdleTyped DEF CompletedIsOver
  <2> QED
    BY <1>1, <1>2, <1>3, <2>1
<1>5. RequestsRemember'
  <2> SUFFICES ASSUME NEW r \in Requests
               PROVE  /\ areq'[r].pc = "complete" =>
                            now' >= EndOf(appt[areq[r].appt].slot)'
                      /\ areq'[r].pc \in {"cancelled", "completed"} =>
                            appt'[areq'[r].appt].status \in ClosedStatus
    BY DEF RequestsRemember
  <2>1. ASSUME areq'[r].pc = "complete"
        PROVE  now' >= EndOf(appt[areq[r].appt].slot)'
    <3>1. areq'[r].appt \in Appts
      BY <2>1 DEF BookingCore, RequestShape
    <3>2. appt[areq'[r].appt] # NoAppt /\ now >= EndOf(appt[areq'[r].appt].slot)
      BY <2>1 DEF BookingCore, RequestShape, RequestsRemember
    <3> QED
      BY <1>1, <1>2, <1>3, <3>1, <3>2
  <2>2. ASSUME areq'[r].pc \in {"cancelled", "completed"}
        PROVE  appt'[areq'[r].appt].status \in ClosedStatus
    <3>1. areq'[r].appt \in Appts
      BY <2>2 DEF BookingCore, RequestShape, EventKinds
    <3> QED
      BY <2>2, <3>1 DEF RequestsRemember, Steady
  <2> QED
    BY <2>1, <2>2
<1>6. AnnouncedIsDurable'
  <2> SUFFICES ASSUME NEW a \in Appts, NEW k \in EventKinds, <<k, a>> \in events'
               PROVE  /\ appt'[a].status # "NONE"
                      /\ k \in {"cancelled", "completed"} =>
                            appt'[a].status \in ClosedStatus
    BY DEF AnnouncedIsDurable, EventKinds, ClosedStatus
  <2>1. /\ appt[a].status # "NONE"
        /\ k \in {"cancelled", "completed"} => appt[a].status \in ClosedStatus
    <3>1. CASE <<k, a>> \in events
      BY <3>1 DEF AnnouncedIsDurable, EventKinds, ClosedStatus
    <3>2. CASE <<k, a>> \notin events
      <4>1. PICK r \in Requests : /\ areq[r].pc \in EventKinds
                                  /\ <<k, a>> = <<areq[r].pc, areq[r].appt>>
        BY <3>2 DEF EventKinds
      <4>2. areq[r].pc = k /\ areq[r].appt = a
        BY <4>1
      <4>3. appt[a] # NoAppt /\ appt[a].status \in AppointmentStatus
        BY <4>1, <4>2 DEF BookingCore, RequestShape, RowsComplete
      <4> QED
        BY <4>2, <4>3 DEF RequestsRemember, AppointmentStatus
    <3> QED
      BY <3>1, <3>2
  <2>2. appt[a] # NoAppt => appt'[a].status \in AppointmentStatus
    BY DEF Steady, BookingCore, RowsComplete
  <2> QED
    BY <2>1, <2>2, IdleTyped DEF Steady, AppointmentStatus
<1> QED
  BY <1>4, <1>5, <1>6

-----------------------------------------------------------------------------
(* The steps *)

\* Steps that write no row and emit nothing.
LEMMA QuietStepClosing ==
    ASSUME ClosingInv, BookingCore', UNCHANGED <<slot, appt, events, now>>,
           \A r \in Requests :
               \/ areq'[r] = areq[r]
               \/ areq'[r].pc \notin {"complete", "cancelled", "completed"}
               \/ /\ areq'[r].pc = "complete"
                  /\ now >= EndOf(appt[areq'[r].appt].slot)
                  /\ appt[areq'[r].appt] # NoAppt
    PROVE  ClosingInv'
<1>1. now \in Nat
  BY DEF ClosingInv, BookingCore, ApptTypeOK, StoreTypeOK
<1>2. Steady
  BY <1>1 DEF Steady
<1> QED
  BY <1>2, SteadyStep

LEMMA ServeClosing ==
    ASSUME ClosingInv, BookingCore', NEW r \in Requests, Serve(r)
    PROVE  ClosingInv'
<1>1. BookingCore /\ ApptTypeOK /\ now \in Nat /\ areq \in [Requests -> ApptRequest]
  BY DEF ClosingInv, BookingCore, ApptTypeOK, StoreTypeOK
<1>2. CASE BookTurnedAway(r) \/ BookRefuse(r) \/ BookDuplicate(r) \/ CancelDeadlock(r)
  <2>1. areq' = [areq EXCEPT ![r] = Idle] /\ UNCHANGED <<slot, appt, events, now>>
    BY <1>2 DEF BookTurnedAway, BookRefuse, BookDuplicate, CancelDeadlock, Finish, storeVars
  <2> QED
    BY <1>1, <2>1, IdleTyped, QuietStepClosing
<1>3. CASE BookLock(r) \/ BookCheck(r)
  <2>1. PICK pc \in BookingPc : areq' = [areq EXCEPT ![r].pc = pc]
    BY <1>3 DEF BookLock, BookCheck, BookingPc
  <2>2. UNCHANGED <<slot, appt, events, now>>
    BY <1>3 DEF BookLock, BookCheck, storeVars
  <2>3. areq'[r].pc = pc /\ \A r2 \in Requests \ {r} : areq'[r2] = areq[r2]
    BY <1>1, <2>1 DEF ApptRequest
  <2> QED
    BY <2>2, <2>3, QuietStepClosing DEF BookingPc
<1>4. ASSUME NEW a \in Appts, BookCommit(r, a)
      PROVE  ClosingInv'
  <2> DEFINE row == [NoAppt EXCEPT !.status = "CONFIRMED",
                                   !.client = areq[r].client, !.slot = areq[r].slot]
             req == [Idle EXCEPT !.pc = "created", !.appt = a]
  <2>1. appt' = [appt EXCEPT ![a] = row] /\ areq' = [areq EXCEPT ![r] = req]
        /\ appt[a] = NoAppt /\ UNCHANGED <<events, now>>
    BY <1>4 DEF BookCommit
  <2>2. row.status = "CONFIRMED" /\ req.pc = "created"
    BY DEF NoAppt, Idle
  <2> HIDE DEF row, req
  <2>3. appt'[a] = row /\ areq'[r] = req
        /\ (\A b \in Appts \ {a} : appt'[b] = appt[b])
        /\ (\A r2 \in Requests \ {r} : areq'[r2] = areq[r2])
    BY <1>1, <2>1 DEF ApptTypeOK, StoreTypeOK
  <2>4. \A s \in Slots : slot'[s].date = slot[s].date /\ slot'[s].end = slot[s].end
    BY <1>1, <1>4 DEF BookCommit, ApptTypeOK, StoreTypeOK, SlotRow
  <2>5. Steady
    BY <1>1, <2>1, <2>3, <2>4, IdleTyped DEF Steady, ClosedStatus
  <2> QED
    BY <2>1, <2>2, <2>3, <2>5, SteadyStep
<1>5. CASE CancelCommit(r)
  <2> DEFINE a == areq[r].appt
             req == [Idle EXCEPT !.pc = "cancelled", !.appt = a]
  <2>1. a \in Appts /\ appt[a] \in ApptRow
    BY <1>1, <1>5, FieldsTyped DEF CancelCommit, BookingCore, RequestShape
  <2>2. /\ appt'[a].status = "CANCELLED" /\ appt'[a].slot = appt[a].slot
        /\ \A b \in Appts \ {a} : appt'[b] = appt[b]
    BY <1>1, <1>5, <2>1 DEF CancelCommit, ApptTypeOK, StoreTypeOK, ApptRow
  <2>3. areq' = [areq EXCEPT ![r] = req] /\ UNCHANGED <<events, now>>
    BY <1>5 DEF CancelCommit
  <2>4. req.pc = "cancelled" /\ req.appt = a
    BY DEF Idle
  <2> HIDE DEF req
  <2>5. \A s \in Slots : slot'[s].date = slot[s].date /\ slot'[s].end = slot[s].end
    BY <1>1, <1>5 DEF CancelCommit, ApptTypeOK, StoreTypeOK, SlotRow
  <2>6. Steady
    BY <1>1, <2>2, <2>3, <2>5, IdleTyped DEF Steady, ClosedStatus
  <2> QED
    BY <1>1, <2>1, <2>2, <2>3, <2>4, <2>6, SteadyStep DEF ClosedStatus
<1>6. CASE CompleteCommit(r)
  <2> DEFINE a == areq[r].appt
             req == [Idle EXCEPT !.pc = "completed", !.appt = a]
  <2>1. a \in Appts /\ appt[a] \in ApptRow /\ appt[a] # NoAppt
    BY <1>1, <1>6, FieldsTyped DEF CompleteCommit, BookingCore, RequestShape
  <2>2. /\ appt'[a].status = "COMPLETED" /\ appt'[a].slot = appt[a].slot
        /\ \A b \in Appts \ {a} : appt'[b] = appt[b]
    BY <1>1, <1>6, <2>1 DEF CompleteCommit, ApptTypeOK, StoreTypeOK, ApptRow
  <2>3. areq' = [areq EXCEPT ![r] = req] /\ UNCHANGED <<slot, events, now>>
    BY <1>6 DEF CompleteCommit
  <2>4. req.pc = "completed" /\ req.appt = a
    BY DEF Idle
  <2> HIDE DEF req
  <2>5. now >= EndOf(appt[a].slot)
    BY <1>6 DEF CompleteCommit, ClosingInv, RequestsRemember
  <2>6. Steady
    BY <1>1, <2>2, <2>3, IdleTyped DEF Steady, ClosedStatus
  <2> QED
    BY <1>1, <2>1, <2>2, <2>3, <2>4, <2>5, <2>6, SteadyStep DEF ClosedStatus
<1>7. CASE Emit(r)
  <2>1. areq' = [areq EXCEPT ![r] = Idle] /\ UNCHANGED <<slot, appt, now>>
        /\ events' = events \cup {<<areq[r].pc, areq[r].appt>>}
        /\ areq[r].pc \in EventKinds
    BY <1>7 DEF Emit, Finish
  <2>2. Steady
    BY <1>1, <2>1 DEF Steady
  <2> QED
    BY <1>1, <2>1, <2>2, IdleTyped, SteadyStep
<1>8. CASE ReloadFails(r)
  <2>1. areq' = [areq EXCEPT ![r] = Idle] /\ UNCHANGED <<slot, appt, now>>
        /\ events' = events \cup {<<"lost", areq[r].appt>>}
    BY <1>8 DEF ReloadFails, Finish
  <2>2. Steady
    BY <1>1, <2>1 DEF Steady
  <2>3. areq[r].appt \in Appts
    BY <1>8 DEF ReloadFails, ClosingInv, BookingCore, RequestShape, EventKinds
  <2> QED
    BY <1>1, <2>1, <2>2, <2>3, IdleTyped, SteadyStep
<1> QED
  BY <1>2, <1>3, <1>4, <1>5, <1>6, <1>7, <1>8 DEF Serve

LEMMA NextClosing == ClosingInv /\ [ApptNext]_apptVars => ClosingInv'
<1> SUFFICES ASSUME ClosingInv, [ApptNext]_apptVars PROVE ClosingInv'
  OBVIOUS
<1>1. BookingCore /\ ApptTypeOK /\ now \in Nat /\ areq \in [Requests -> ApptRequest]
  BY DEF ClosingInv, BookingCore, ApptTypeOK, StoreTypeOK
<1>2. BookingCore'
  BY <1>1, NextKeepsCore
<1>3. ASSUME NEW r \in Requests, Serve(r) PROVE ClosingInv'
  BY <1>2, <1>3, ServeClosing
<1>4. ASSUME NEW r \in Requests, Accept(r) PROVE ClosingInv'
  <2>1. ASSUME NEW c \in Clients, NEW s \in Slots, BookBegin(r, c, s)
        PROVE  ClosingInv'
    <3>1. areq' = [areq EXCEPT ![r] = [Idle EXCEPT !.pc = "lock", !.client = c,
                                                   !.slot = s]]
          /\ UNCHANGED <<slot, appt, events, now>>
      BY <2>1 DEF BookBegin, storeVars
    <3>2. areq'[r].pc = "lock" /\ \A r2 \in Requests \ {r} : areq'[r2] = areq[r2]
      BY <1>1, <3>1 DEF Idle
    <3> QED
      BY <1>2, <3>1, <3>2, QuietStepClosing
  <2>2. ASSUME NEW a \in Appts, NEW u \in Users, CancelBegin(r, a, u)
        PROVE  ClosingInv'
    <3>1. areq' = [areq EXCEPT ![r] = [Idle EXCEPT !.pc = "cancel", !.appt = a,
                                                   !.actor = u]]
          /\ UNCHANGED <<slot, appt, events, now>>
      BY <2>2 DEF CancelBegin, storeVars
    <3>2. areq'[r].pc = "cancel" /\ \A r2 \in Requests \ {r} : areq'[r2] = areq[r2]
      BY <1>1, <3>1 DEF Idle
    <3> QED
      BY <1>2, <3>1, <3>2, QuietStepClosing
  <2>3. ASSUME NEW a \in Appts, CompleteBegin(r, a)
        PROVE  ClosingInv'
    <3>1. areq' = [areq EXCEPT ![r] = [Idle EXCEPT !.pc = "complete", !.appt = a]]
          /\ UNCHANGED <<slot, appt, events, now>>
          /\ now >= EndOf(appt[a].slot) /\ appt[a] # NoAppt
      BY <2>3, IdleTyped DEF CompleteBegin, AfterEnd, storeVars
    <3>2. areq'[r].pc = "complete" /\ areq'[r].appt = a
          /\ \A r2 \in Requests \ {r} : areq'[r2] = areq[r2]
      BY <1>1, <3>1 DEF Idle
    <3> QED
      BY <1>2, <3>1, <3>2, QuietStepClosing
  <2> QED
    BY <1>4, <2>1, <2>2, <2>3 DEF Accept
<1>5. CASE AutoComplete
  <2>1. \A b \in Appts :
          \/ appt'[b] = appt[b]
          \/ /\ Overdue(b)
             /\ appt'[b] = [appt[b] EXCEPT !.status = "COMPLETED", !.completedAt = TRUE]
    BY <1>5 DEF AutoComplete
  <2>2. ASSUME NEW b \in Appts, Overdue(b)
        PROVE  appt[b] # NoAppt /\ now >= EndOf(appt[b].slot)
    <3>1. appt[b].status = "CONFIRMED" /\ EndOf(appt[b].slot) + AutoCompleteAge < now
      BY <2>2 DEF Overdue
    <3>2. appt[b] # NoAppt
      BY <3>1, IdleTyped
    <3>3. appt[b].slot \in Slots
      BY <1>1, <3>2 DEF BookingCore, RowsComplete
    <3>4. EndOf(appt[b].slot) \in Int
      BY <1>1, <3>3, StoreAssumption DEF ApptTypeOK, StoreTypeOK, SlotRow, EndOf
    <3> QED
      BY <1>1, <3>1, <3>2, <3>4, AppointmentsAssumption
  <2>3. ASSUME NEW b \in Appts, appt'[b] # appt[b]
        PROVE  /\ Overdue(b)
               /\ appt'[b].status = "COMPLETED"
               /\ appt'[b].slot = appt[b].slot
    <3>1. appt[b] \in ApptRow
      BY <1>1, FieldsTyped
    <3> QED
      BY <2>1, <2>3, <3>1 DEF ApptRow
  <2>4. UNCHANGED <<slot, events, now, areq>>
    BY <1>5 DEF AutoComplete
  <2>5. Steady
    BY <1>1, <2>2, <2>3, <2>4, IdleTyped DEF Steady, ClosedStatus
  <2> QED
    BY <1>2, <2>2, <2>3, <2>4, <2>5, SteadyStep
<1>6. CASE Tick
  <2>1. UNCHANGED <<slot, appt, events, areq>> /\ now' = now + 1
    BY <1>6 DEF Tick, ClockTick
  <2>2. Steady
    BY <1>1, <2>1 DEF Steady
  <2> QED
    BY <1>2, <2>1, <2>2, SteadyStep
<1>7. CASE Crash
  <2>1. areq' = [r \in Requests |-> Idle] /\ UNCHANGED <<slot, appt, events, now>>
    BY <1>7 DEF Crash
  <2> QED
    BY <1>2, <2>1, IdleTyped, QuietStepClosing
<1>8. CASE UNCHANGED apptVars
  BY <1>2, <1>8, QuietStepClosing DEF apptVars, storeVars
<1> QED
  BY <1>3, <1>4, <1>5, <1>6, <1>7, <1>8 DEF ApptNext, ApptRequestNext

LEMMA ClosingInvariant == ApptSpec => []ClosingInv
<1>1. ApptInit => ClosingInv
  BY InitClosing
<1>2. ClosingInv /\ [ApptNext]_apptVars => ClosingInv'
  BY NextClosing
<1> QED
  BY <1>1, <1>2, PTL DEF ApptSpec

\* A COMPLETED appointment is over, by whichever path it was completed.
THEOREM CompletedEndsFirst == ApptSpec => []CompletedIsOver
<1>1. ClosingInv => CompletedIsOver
  BY DEF ClosingInv
<1> QED
  BY <1>1, ClosingInvariant, PTL

\* Listeners hear only of what is committed, crashes included.
THEOREM EventsAreDurable == ApptSpec => []AnnouncedIsDurable
<1>1. ClosingInv => AnnouncedIsDurable
  BY DEF ClosingInv
<1> QED
  BY <1>1, ClosingInvariant, PTL

-----------------------------------------------------------------------------
(* One place at a time.  The lock is on the slot, so the check for another  *)
(* appointment of the client holds until the INSERT only if no other        *)
(* request of the same client runs meanwhile.                               *)

OneRequestEach ==
    \A r1, r2 \in Requests, c \in Clients :
        c \in Serves[r1] /\ c \in Serves[r2] => r1 = r2

\* A request that books does so for a client it serves.
BookerOf(r, q) == q.pc \in BookingPc \cup {"lock"} => q.client \in Serves[r]

\* Its client, when it is to insert, is not expected elsewhere.
StillFree(q) == q.pc = "insert" => ~ClientBusy(q.client, q.slot)

ApartInv ==
    /\ BookingCore
    /\ NoClientClash
    /\ \A r \in Requests : BookerOf(r, areq[r]) /\ StillFree(areq[r])

\* A step that confirms nothing and moves no slot can make nobody busy.
LEMMA NoNewBusy ==
    ASSUME ApartInv,
           BookingCore',
           \A a \in Appts : appt'[a].status = "CONFIRMED" => appt'[a] = appt[a],
           \A s \in Slots : slot'[s].date = slot[s].date /\ slot'[s].start = slot[s].start,
           \A r \in Requests :
              \/ areq'[r] = areq[r]
              \/ BookerOf(r, areq'[r]) /\ StillFree(areq'[r])
    PROVE  ApartInv'
<1>1. \A a \in Appts : appt'[a].status = "CONFIRMED" =>
         appt[a].status = "CONFIRMED" /\ appt[a].slot \in Slots
  BY IdleTyped DEF ApartInv, BookingCore, RowsComplete
<1>2. NoClientClash'
  BY <1>1 DEF ApartInv, NoClientClash
<1>3. ASSUME NEW r \in Requests PROVE BookerOf(r, areq'[r]) /\ StillFree(areq'[r])
  BY DEF ApartInv
<1>4. ASSUME NEW r \in Requests PROVE StillFree(areq[r])'
  <2> SUFFICES ASSUME areq'[r].pc = "insert",
                      ClientBusy(areq[r].client, areq[r].slot)'
               PROVE  FALSE
    BY DEF StillFree
  <2>1. areq'[r].slot \in Slots
    BY DEF BookingCore, RequestShape, BookingPc
  <2>2. ClientBusy(areq'[r].client, areq'[r].slot)
    BY <1>1, <2>1 DEF ClientBusy
  <2> QED
    BY <1>3, <2>2 DEF StillFree
<1> QED
  BY <1>2, <1>3, <1>4 DEF ApartInv, BookerOf, StillFree

LEMMA BookCommitApart ==
    ASSUME ApartInv, OneRequestEach, BookingCore',
           NEW r \in Requests, NEW a \in Appts, BookCommit(r, a)
    PROVE  ApartInv'
<1> DEFINE c == areq[r].client
           s == areq[r].slot
<1>1. /\ slot \in [Slots -> SlotRow] /\ appt \in [Appts -> ApptRow]
      /\ areq \in [Requests -> ApptRequest]
      /\ c \in Clients /\ s \in Slots /\ c \in Serves[r] /\ areq[r].pc = "insert"
      /\ ~ClientBusy(c, s)
      /\ appt[a] = NoAppt
  BY DEF ApartInv, BookingCore, ApptTypeOK, StoreTypeOK, RequestShape, BookingPc,
         BookCommit, BookerOf, StillFree
<1>2. /\ appt'[a].status = "CONFIRMED" /\ appt'[a].client = c /\ appt'[a].slot = s
      /\ \A b \in Appts \ {a} : appt'[b] = appt[b]
  BY <1>1 DEF BookCommit, NoAppt
<1>3. \A t \in Slots : slot'[t].date = slot[t].date /\ slot'[t].start = slot[t].start
  BY <1>1 DEF BookCommit, SlotRow
<1>4. /\ areq'[r].pc = "created"
      /\ \A r2 \in Requests \ {r} : areq'[r2] = areq[r2]
  BY <1>1 DEF BookCommit, Idle
<1>5. \A b \in Appts : appt'[b].status = "CONFIRMED" => appt'[b].slot \in Slots
  BY IdleTyped DEF BookingCore, RowsComplete
<1>6. ASSUME NEW b \in Appts \ {a},
             appt'[b].status = "CONFIRMED",
             appt'[b].client = c,
             slot'[appt'[b].slot].date = slot'[s].date,
             slot'[appt'[b].slot].start = slot'[s].start
      PROVE  FALSE
  BY <1>1, <1>2, <1>3, <1>5, <1>6 DEF ClientBusy
<1>7. NoClientClash'
  <2> SUFFICES ASSUME NEW x \in Appts, NEW y \in Appts, x # y,
                      appt'[x].status = "CONFIRMED", appt'[y].status = "CONFIRMED",
                      appt'[x].client = appt'[y].client,
                      slot'[appt'[x].slot].date = slot'[appt'[y].slot].date,
                      slot'[appt'[x].slot].start = slot'[appt'[y].slot].start
               PROVE  FALSE
    BY DEF NoClientClash
  <2>1. CASE x = a
    BY <1>2, <1>6, <2>1
  <2>2. CASE y = a
    BY <1>2, <1>6, <2>2
  <2>3. CASE x # a /\ y # a
    BY <1>2, <1>3, <1>5, <2>3 DEF ApartInv, NoClientClash
  <2> QED
    BY <2>1, <2>2, <2>3
<1>8. ASSUME NEW r2 \in Requests
      PROVE  BookerOf(r2, areq'[r2]) /\ StillFree(areq[r2])'
  <2>1. CASE r2 = r
    BY <1>4, <2>1 DEF BookerOf, StillFree, BookingPc
  <2>2. CASE r2 # r
    <3>1. areq'[r2] = areq[r2] /\ BookerOf(r2, areq'[r2])
      BY <1>4, <2>2 DEF ApartInv
    <3>2. SUFFICES ASSUME areq'[r2].pc = "insert",
                          ClientBusy(areq[r2].client, areq[r2].slot)'
                   PROVE  FALSE
      BY <3>1 DEF StillFree
    <3>3. areq[r2].client \in Clients /\ areq[r2].slot \in Slots
      BY <3>1, <3>2 DEF ApartInv, BookingCore, RequestShape, BookingPc
    <3>4. areq[r2].client # c
      BY <1>1, <2>2, <3>1, <3>2 DEF OneRequestEach, BookerOf, BookingPc
    <3>5. ClientBusy(areq[r2].client, areq[r2].slot)
      BY <1>2, <1>3, <1>5, <3>1, <3>2, <3>3, <3>4 DEF ClientBusy
    <3> QED
      BY <3>1, <3>2, <3>5 DEF ApartInv, StillFree
  <2> QED
    BY <2>1, <2>2
<1> QED
  BY <1>7, <1>8 DEF ApartInv, BookerOf

LEMMA NextApart == ApartInv /\ OneRequestEach /\ [ApptNext]_apptVars => ApartInv'
<1> SUFFICES ASSUME ApartInv, OneRequestEach, [ApptNext]_apptVars PROVE ApartInv'
  OBVIOUS
<1>1. /\ slot \in [Slots -> SlotRow] /\ appt \in [Appts -> ApptRow]
      /\ areq \in [Requests -> ApptRequest]
  BY DEF ApartInv, BookingCore, ApptTypeOK, StoreTypeOK
<1>2. BookingCore'
  BY NextKeepsCore DEF ApartInv
<1>3. ASSUME NEW r \in Requests, NEW req, areq' = [areq EXCEPT ![r] = req],
             BookerOf(r, req), StillFree(req), UNCHANGED <<slot, appt>>
      PROVE  ApartInv'
  <2>1. \A r2 \in Requests :
           \/ areq'[r2] = areq[r2]
           \/ BookerOf(r2, areq'[r2]) /\ StillFree(areq'[r2])
    BY <1>1, <1>3 DEF BookerOf, StillFree, ClientBusy
  <2> QED
    BY <1>2, <1>3, <2>1, NoNewBusy
<1>4. StillFree(Idle) /\ \A r \in Requests : BookerOf(r, Idle)
  BY DEF BookerOf, StillFree, Idle, BookingPc
<1>5. ASSUME NEW r \in Requests, Accept(r) PROVE ApartInv'
  <2>1. ASSUME NEW c \in Clients, NEW s \in Slots, BookBegin(r, c, s) PROVE ApartInv'
    <3> DEFINE req == [Idle EXCEPT !.pc = "lock", !.client = c, !.slot = s]
    <3>1. BookerOf(r, req) /\ StillFree(req)
      BY <2>1 DEF BookBegin, BookerOf, StillFree, Idle
    <3> QED
      BY <1>3, <2>1, <3>1 DEF BookBegin, storeVars
  <2>2. ASSUME NEW a \in Appts, NEW u \in Users, CancelBegin(r, a, u) PROVE ApartInv'
    <3> DEFINE req == [Idle EXCEPT !.pc = "cancel", !.appt = a, !.actor = u]
    <3>1. BookerOf(r, req) /\ StillFree(req)
      BY DEF BookerOf, StillFree, Idle, BookingPc
    <3> QED
      BY <1>3, <2>2, <3>1 DEF CancelBegin, storeVars
  <2>3. ASSUME NEW a \in Appts, CompleteBegin(r, a) PROVE ApartInv'
    <3> DEFINE req == [Idle EXCEPT !.pc = "complete", !.appt = a]
    <3>1. BookerOf(r, req) /\ StillFree(req)
      BY DEF BookerOf, StillFree, Idle, BookingPc
    <3> QED
      BY <1>3, <2>3, <3>1 DEF CompleteBegin, storeVars
  <2> QED
    BY <1>5, <2>1, <2>2, <2>3 DEF Accept
<1>6. ASSUME NEW r \in Requests, Serve(r) PROVE ApartInv'
  <2>1. CASE \/ BookTurnedAway(r) \/ BookRefuse(r) \/ BookDuplicate(r)
             \/ CancelDeadlock(r) \/ Emit(r) \/ ReloadFails(r)
    BY <1>3, <1>4, <2>1 DEF BookTurnedAway, BookRefuse, BookDuplicate, CancelDeadlock,
       Emit, ReloadFails, Finish, storeVars
  <2>2. CASE BookLock(r)
    <3> DEFINE req == [areq[r] EXCEPT !.pc = "locked"]
    <3>1. areq' = [areq EXCEPT ![r] = req] /\ UNCHANGED <<slot, appt>>
      BY <2>2 DEF BookLock
    <3>2. BookerOf(r, req) /\ StillFree(req)
      BY <1>1, <2>2 DEF BookLock, ApartInv, BookerOf, StillFree, ApptRequest
    <3> QED
      BY <1>3, <3>1, <3>2
  <2>3. CASE BookCheck(r)
    <3> DEFINE req == [areq[r] EXCEPT !.pc = "insert"]
    <3>1. areq' = [areq EXCEPT ![r] = req] /\ UNCHANGED <<slot, appt>>
      BY <2>3 DEF BookCheck, storeVars
    <3>2. BookerOf(r, req) /\ StillFree(req)
      BY <1>1, <2>3 DEF BookCheck, ApartInv, BookerOf, StillFree, ApptRequest, BookingPc
    <3> QED
      BY <1>3, <3>1, <3>2
  <2>4. CASE \E a \in Appts : BookCommit(r, a)
    BY <1>2, <2>4, BookCommitApart
  <2>5. CASE CancelCommit(r)
    <3>1. \A a \in Appts : appt'[a].status = "CONFIRMED" => appt'[a] = appt[a]
      BY <1>1, <2>5 DEF CancelCommit, ApptRow
    <3>2. \A s \in Slots : slot'[s].date = slot[s].date /\ slot'[s].start = slot[s].start
      BY <1>1, <2>5 DEF CancelCommit, SlotRow
    <3>3. \A r2 \in Requests :
             \/ areq'[r2] = areq[r2]
             \/ BookerOf(r2, areq'[r2]) /\ StillFree(areq'[r2])
      BY <1>1, <2>5 DEF CancelCommit, BookerOf, StillFree, ClientBusy, Idle, BookingPc
    <3> QED
      BY <1>2, <3>1, <3>2, <3>3, NoNewBusy
  <2>6. CASE CompleteCommit(r)
    <3>1. \A a \in Appts : appt'[a].status = "CONFIRMED" => appt'[a] = appt[a]
      BY <1>1, <2>6 DEF CompleteCommit, ApptRow
    <3>2. \A r2 \in Requests :
             \/ areq'[r2] = areq[r2]
             \/ BookerOf(r2, areq'[r2]) /\ StillFree(areq'[r2])
      BY <1>1, <2>6 DEF CompleteCommit, BookerOf, StillFree, ClientBusy, Idle, BookingPc
    <3> QED
      BY <1>2, <2>6, <3>1, <3>2, NoNewBusy DEF CompleteCommit
  <2> QED
    BY <1>6, <2>1, <2>2, <2>3, <2>4, <2>5, <2>6 DEF Serve
<1>7. CASE AutoComplete
  <2>1. \A a \in Appts : appt'[a].status = "CONFIRMED" => appt'[a] = appt[a]
    BY <1>1, <1>7 DEF AutoComplete, ApptRow
  <2> QED
    BY <1>2, <1>7, <2>1, NoNewBusy DEF AutoComplete
<1>8. CASE Tick
  BY <1>2, <1>8, NoNewBusy DEF Tick, ClockTick
<1>9. CASE Crash
  BY <1>2, <1>4, <1>9, NoNewBusy DEF Crash
<1>10. CASE UNCHANGED apptVars
  BY <1>2, <1>10, NoNewBusy DEF apptVars, storeVars
<1> QED
  BY <1>5, <1>6, <1>7, <1>8, <1>9, <1>10 DEF ApptNext, ApptRequestNext

\* A client whose requests are served one at a time is never expected in two
\* places at once, however many clients book at the same time.
THEOREM OneClientOnePlace ==
    ASSUME OneRequestEach
    PROVE  ApptSpec => []NoClientClash
<1>1. ApptInit => ApartInv
  BY InitInv DEF ApptInit, StoreInit, BookingInv, ApartInv, NoClientClash, NoAppt,
     BookerOf, StillFree, Idle, BookingPc
<1>2. ApartInv /\ [ApptNext]_apptVars => ApartInv'
  BY NextApart
<1>3. ApartInv => NoClientClash
  BY DEF ApartInv
<1> QED
  BY <1>1, <1>2, <1>3, PTL DEF ApptSpec
=============================================================================
