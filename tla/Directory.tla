----------------------------- MODULE Directory -----------------------------
(***************************************************************************)
(* Profiles and services as their owners and the administrators change     *)
(* them.  UsersService and ServicesService read a row, change the copy and *)
(* save() it; AdminService calls UsersService and then writes the audit    *)
(* log.                                                                    *)
(***************************************************************************)
EXTENDS Users

CONSTANTS
    Edits,          \* requests of these services
    EditCalls       \* bound: the changes of a column, <<key, column, value>>

VARIABLES
    edit,       \* edit[r]: a call in progress
    audit,      \* audit[<<i, op>>]: entries of the audit log about user i
    late,       \* history: rows changed by others since request r began
    stale,      \* history: rows written by a save whose copy was late
    acts,       \* history: acts[<<i, op>>]: times op was done to user i
    unlogged,   \* history: ... and broke off before its audit entry
    contested   \* history: users whom two calls were deciding on at once

directoryVars == <<edit, audit, late, stale, acts, unlogged, contested>>

AdminOps == {"approve", "reject", "suspend", "reactivate"}

Decisions == {"approve", "reject"}

\* Prestataires' columns that UpdatePrestataireDto names.
ProfileColumns == {"bio", "categories"}

\* Columns that UpdateServiceDto names.
ServiceColumns == {"isActive", "displayOrder"}

ASSUME DirectoryAssumption ==
    /\ EditCalls \subseteq Keys \X Columns \X Nat
    /\ IsFiniteSet(Edits)

\* What a request does next: compare its copy with the row (save() reads the
\* row again), write the columns that differ, do the act of the administrator,
\* or write the audit entry.
EditPc == {"idle", "load", "write", "act", "audit"}

\* id is the user concerned; key the row to save, rest those to save after it,
\* copy their copies, asks the columns the call is about, had the services that
\* came with the profile; dirty the columns to write.
EditRequest == [pc: EditPc, op: AdminOps \cup {"none", "update", "service"},
                id: Ids \cup {NoOne}, key: Keys \cup {NoOne}, rest: Seq(Services),
                copy: [Keys -> Row], asks: SUBSET Columns,
                had: SUBSET Services, dirty: SUBSET Columns]

IdleEdit == [pc |-> "idle", op |-> "none", id |-> NoOne, key |-> NoOne,
             rest |-> <<>>, copy |-> [k \in Keys |-> Blank], asks |-> {},
             had |-> {}, dirty |-> {}]

Counters == [Ids \X AdminOps -> Nat]

DirectoryTypeOK ==
    /\ edit \in [Edits -> EditRequest]
    /\ audit \in Counters
    /\ acts \in Counters
    /\ unlogged \in Counters
    /\ late \in [Edits -> SUBSET Keys]
    /\ stale \subseteq Keys
    /\ contested \subseteq Ids
    /\ \A r \in Edits :
          /\ edit[r].pc \in {"load", "write"} => edit[r].key \in Keys
          /\ edit[r].pc \in {"act", "audit"} => edit[r].op \in AdminOps
          /\ edit[r].op \in AdminOps => edit[r].id \in Ids

NoCount == [x \in Ids \X AdminOps |-> 0]

DirectoryInit ==
    /\ edit = [r \in Edits |-> IdleEdit]
    /\ audit = NoCount
    /\ late = [r \in Edits |-> {}]
    /\ stale = {}
    /\ acts = NoCount
    /\ unlogged = NoCount
    /\ contested = {}

Logs == <<audit, acts, unlogged>>

EditEnds(r) == edit' = [edit EXCEPT ![r] = IdleEdit]

\* A row that another request changes is late for those that hold a copy.
NoteLate ==
    late' = [r \in Edits |->
                IF edit'[r].pc = "idle" THEN {}
                ELSE late[r] \cup {k \in Keys : row'[k] # row[k]}]

ServicesOf(i) == {s \in kept \cap Services : Owner[s] = i}

-----------------------------------------------------------------------------
(* Owners: updateClient, updatePrestataire; services                       *)

\* Request r goes on to save copies of key and of the rows rest after it.
Save(r, op, i, key, rest, copy, asks) ==
    edit' = [edit EXCEPT ![r] = [IdleEdit EXCEPT !.pc = "load", !.op = op,
                !.id = i, !.key = key, !.rest = rest, !.copy = copy,
                !.asks = asks, !.had = ServicesOf(i)]]

Copy(k, columns) == [[x \in Keys |-> Blank] EXCEPT ![k] = columns]

\* checkProfileComplete
Complete(columns) ==
    IF columns["bio"] = 1 /\ columns["categories"] = 1 THEN 1 ELSE 0

\* Mutant: an emptied profile stays complete.
StillComplete(i, c, v) ==
    LET columns == [row[i] EXCEPT ![c] = v] IN
    IF v = 0 THEN columns
    ELSE [columns EXCEPT !["profileCompleted"] = Complete(columns)]

\* The copy of prestataire i with column c set to v.
Edited(i, c, v) ==
    LET columns == [row[i] EXCEPT ![c] = v] IN
    [columns EXCEPT !["profileCompleted"] = Complete(columns)]

UpdatePrestataireBegin(r, i, c, v) ==
    /\ edit[r].pc = "idle"
    /\ c \in ProfileColumns /\ <<i, c, v>> \in EditCalls
    /\ Admitted(i) /\ HasRole(i, "PRESTATAIRE") /\ i \in kept
    /\ Save(r, "update", i, i, <<>>, Copy(i, Edited(i, c, v)), {c, "profileCompleted"})
    /\ UNCHANGED <<usersVars, Logs, stale, contested>>

UpdateClientBegin(r, i, v) ==
    /\ edit[r].pc = "idle"
    /\ v \in {0, 1}
    /\ Admitted(i) /\ HasRole(i, "CLIENT") /\ i \in kept
    /\ Save(r, "update", i, i, <<>>, Copy(i, [row[i] EXCEPT !["bio"] = v]), {"bio"})
    /\ UNCHANGED <<usersVars, Logs, stale, contested>>

\* ServicesService.create is one INSERT; the prestataire must exist.
CreateService(s) ==
    /\ Admitted(Owner[s]) /\ Owner[s] \in kept
    /\ s \notin kept
    /\ Insert(s, NewService)
    /\ UNCHANGED <<user, reg, halfway, edit, Logs, stale, contested>>

\* The owner of s has read it and sets column c of the copy.
ServiceBegin(r, s, c, v) ==
    /\ edit[r].pc = "idle"
    /\ Admitted(Owner[s]) /\ s \in kept
    /\ Save(r, "service", Owner[s], s, <<>>, Copy(s, [row[s] EXCEPT ![c] = v]), {c})
    /\ UNCHANGED <<usersVars, Logs, stale, contested>>

UpdateServiceBegin(r, s, c, v) ==
    /\ c \in ServiceColumns /\ <<s, c, v>> \in EditCalls
    /\ ServiceBegin(r, s, c, v)

DeleteServiceBegin(r, s) == ServiceBegin(r, s, "isActive", 0)

\* The services are read together and saved one after the other, in the
\* order given.
ReorderBegin(r, s, t) ==
    /\ edit[r].pc = "idle"
    /\ Admitted(Owner[s]) /\ Owner[s] = Owner[t] /\ s # t
    /\ {s, t} \subseteq kept
    /\ Save(r, "service", Owner[s], s, <<t>>,
            [Copy(s, [row[s] EXCEPT !["displayOrder"] = 0])
                EXCEPT ![t] = [row[t] EXCEPT !["displayOrder"] = 1]],
            {"displayOrder"})
    /\ UNCHANGED <<usersVars, Logs, stale, contested>>

\* createAppointment, modelled in Appointments, increments the prestataire's
\* counter.
Book(i) ==
    /\ i \in kept /\ user[i].role = "PRESTATAIRE"
    /\ row' = [row EXCEPT ![i]["totalAppointments"] = @ + 1]
    /\ meant' = [meant EXCEPT ![i]["totalAppointments"] = @ + 1]
    /\ UNCHANGED <<user, kept, reg, halfway, edit, Logs, stale, contested>>

-----------------------------------------------------------------------------
(* Administrators: approve, reject, suspend, reactivate                    *)

AdminPresent == \E a \in Ids : Admitted(a) /\ HasRole(a, "ADMIN")

\* Request r is still deciding on prestataire i.
Deciding(r, i) ==
    /\ edit[r].op \in Decisions /\ edit[r].id = i
    /\ edit[r].pc \in {"load", "write", "act"}

\* The prestataire has been found PENDING.
Pending(r, i) ==
    /\ edit[r].pc = "idle"
    /\ AdminPresent
    /\ i \in kept /\ HasRole(i, "PRESTATAIRE")
    /\ row[i]["status"] = PENDING

NoteContest(i) ==
    contested' = IF \E q \in Edits : Deciding(q, i) THEN contested \cup {i}
                 ELSE contested

ApproveBegin(r, i) ==
    /\ Pending(r, i)
    /\ Save(r, "approve", i, i, <<>>, Copy(i, [row[i] EXCEPT !["status"] = ACTIVE]),
            {"status"})
    /\ NoteContest(i)
    /\ UNCHANGED <<usersVars, Logs, stale>>

\* Request r goes on to do op to user i.
Act(r, op, i) ==
    edit' = [edit EXCEPT ![r] = [IdleEdit EXCEPT !.pc = "act", !.op = op, !.id = i]]

RejectBegin(r, i) ==
    /\ Pending(r, i)
    /\ Act(r, "reject", i)
    /\ NoteContest(i)
    /\ UNCHANGED <<usersVars, Logs, stale>>

SuspendBegin(r, op, i) ==
    /\ edit[r].pc = "idle"
    /\ op \in {"suspend", "reactivate"}
    /\ AdminPresent
    /\ Stored(i)
    /\ Act(r, op, i)
    /\ UNCHANGED <<usersVars, Logs, stale, contested>>

\* Request r has done its act.
Acted(r) ==
    acts' = [acts EXCEPT ![<<edit[r].id, edit[r].op>>] = @ + 1]

ToAudit(r) == edit' = [edit EXCEPT ![r].pc = "audit"]

\* DELETE of the user, whatever its status is by now.
RejectAct(r) ==
    /\ edit[r].pc = "act" /\ edit[r].op = "reject"
    /\ IF Stored(edit[r].id) THEN DeleteUser(edit[r].id)
       ELSE UNCHANGED <<user, Tables>>
    /\ Acted(r)
    /\ ToAudit(r)
    /\ UNCHANGED <<reg, halfway, audit, unlogged, stale, contested>>

SuspendAct(r) ==
    LET i == edit[r].id IN
    /\ edit[r].pc = "act" /\ edit[r].op \in {"suspend", "reactivate"}
    /\ user' = IF Stored(i)
               THEN [user EXCEPT ![i].isActive = (edit[r].op = "reactivate")]
               ELSE user
    /\ Acted(r)
    /\ ToAudit(r)
    /\ UNCHANGED <<Tables, reg, halfway, audit, unlogged, stale, contested>>

\* createAuditLog
AuditStep(r) ==
    /\ edit[r].pc = "audit"
    /\ audit' = [audit EXCEPT ![<<edit[r].id, edit[r].op>>] = @ + 1]
    /\ EditEnds(r)
    /\ UNCHANGED <<usersVars, acts, unlogged, stale, contested>>

-----------------------------------------------------------------------------
(* save()                                                                  *)

\* Row key is saved: the next copy follows, the audit entry, or the answer.
Saved(r) ==
    LET q == edit[r] IN
    IF q.rest # <<>>
    THEN /\ edit' = [edit EXCEPT ![r] = [q EXCEPT !.pc = "load",
                        !.key = Head(q.rest), !.rest = Tail(q.rest), !.dirty = {}]]
         /\ acts' = acts
    ELSE IF q.op = "approve" THEN ToAudit(r) /\ Acted(r)
    ELSE EditEnds(r) /\ acts' = acts

\* The profile's services come with its copy; one created since would be
\* cut off from it, which the column does not allow.  A row that is gone would
\* be inserted again, which the foreign key does not allow.
Refused(q) ==
    \/ q.key \notin kept
    \/ q.op \in {"update", "approve"} /\ ~HasRole(q.key, "CLIENT")
           /\ ~(ServicesOf(q.id) \subseteq q.had)

SaveLoad(r) ==
    LET q == edit[r]
        dirty == {c \in Columns : q.copy[q.key][c] # row[q.key][c]}
    IN  /\ q.pc = "load"
        /\ ~Refused(q)
        /\ IF dirty = {} THEN Saved(r)
           ELSE /\ edit' = [edit EXCEPT ![r] = [q EXCEPT !.pc = "write",
                                                         !.dirty = dirty]]
                /\ acts' = acts
        /\ UNCHANGED <<usersVars, audit, unlogged, stale, contested>>

SaveRefused(r) ==
    /\ edit[r].pc = "load"
    /\ Refused(edit[r])
    /\ EditEnds(r)
    /\ UNCHANGED <<usersVars, Logs, stale, contested>>

\* The row with the columns of C as in columns.
Merge(old, columns, C) == [c \in Columns |-> IF c \in C THEN columns[c] ELSE old[c]]

\* The row a save is meant to leave: the columns the call is about are those of
\* its copy, and whether the profile is complete follows from what it holds.
Meant(q) ==
    LET merged == Merge(meant[q.key], q.copy[q.key], q.asks) IN
    IF "profileCompleted" \in q.asks
    THEN [merged EXCEPT !["profileCompleted"] = Complete(merged)] ELSE merged

SaveWrite(r) ==
    LET q == edit[r] IN
    /\ q.pc = "write"
    /\ IF q.key \in kept
       THEN /\ row' = [row EXCEPT ![q.key] = Merge(row[q.key], q.copy[q.key], q.dirty)]
            /\ meant' = [meant EXCEPT ![q.key] = Meant(q)]
            /\ stale' = IF q.key \in late[r] THEN stale \cup {q.key} ELSE stale
       ELSE UNCHANGED <<row, meant, stale>>
    /\ Saved(r)
    /\ UNCHANGED <<user, kept, reg, halfway, audit, unlogged, contested>>

\* A statement of the request fails, or the server stops.
EditFail(r) ==
    /\ edit[r].pc # "idle"
    /\ EditEnds(r)
    /\ unlogged' = IF edit[r].pc = "audit"
                   THEN [unlogged EXCEPT ![<<edit[r].id, edit[r].op>>] = @ + 1]
                   ELSE unlogged
    /\ UNCHANGED <<usersVars, audit, acts, stale, contested>>

ProfileCall(r) ==
    \/ \E i \in Ids, c \in Columns, v \in {0, 1} : UpdatePrestataireBegin(r, i, c, v)
    \/ \E i \in Ids, v \in {0, 1} : UpdateClientBegin(r, i, v)

ServiceCall(r) ==
    \E s \in Services : \/ \E c \in Columns, v \in {0, 1} : UpdateServiceBegin(r, s, c, v)
                        \/ DeleteServiceBegin(r, s)
                        \/ \E t \in Services : ReorderBegin(r, s, t)

AdminCall(r) ==
    \E i \in Ids : \/ ApproveBegin(r, i) \/ RejectBegin(r, i)
                   \/ \E op \in AdminOps : SuspendBegin(r, op, i)

EditStep(r) ==
    \/ SaveLoad(r) \/ SaveRefused(r) \/ SaveWrite(r)
    \/ RejectAct(r) \/ SuspendAct(r) \/ AuditStep(r)
    \/ EditFail(r)

-----------------------------------------------------------------------------
(* Properties *)

\* Each save changes the columns its call is about and no others, as if the
\* calls came one after the other, unless the copy it saved was late.
RowsAsMeant == \A k \in Keys : k \notin stale => row[k] = meant[k]

\* A prestataire is approved or rejected once, unless two calls decided at the
\* same time or a late copy made it PENDING again.
DecidedOnce ==
    \A i \in Ids : i \notin contested \cup stale
        => acts[<<i, "approve">>] + acts[<<i, "reject">>] =< 1

\* Every act of an administrator has its entry in the audit log, is about to
\* get it, or broke off before.
ActsAreLogged ==
    \A i \in Ids, op \in AdminOps :
        acts[<<i, op>>] =
            audit[<<i, op>>] + unlogged[<<i, op>>]
              + Cardinality({r \in Edits : /\ edit[r].pc = "audit"
                                           /\ edit[r].id = i /\ edit[r].op = op})
=============================================================================
