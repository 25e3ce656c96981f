----------------------------- MODULE Reminders -----------------------------
(***************************************************************************)
(* The reminder and review-request jobs of CronService.                    *)
(*                                                                         *)
(* A job looks for appointments whose time lies in a window of one hour    *)
(* around its target; for each it inserts a notification, then marks the   *)
(* appointment.  Nothing retries: an appointment that no run of the job    *)
(* serves while it is in the window is never served.                       *)
(*                                                                         *)
(* Time passes in half-hours.  Jobs fire when one begins and normally end  *)
(* before the next; appointments start when one begins, and are completed  *)
(* in the middle of one.                                                   *)
(***************************************************************************)
EXTENDS Integers, FiniteSets

CONSTANTS
    Appts,          \* ids of appointments
    StartOf,        \* when the slot of each begins
    Runs,           \* the runs of jobs that may be under way at one time
    Ahead,          \* the 24 hours of the long reminder, in half-hours
    Horizon,        \* bound: the last half-hour
    MaxFaults,      \* bound: how often something may go wrong
    Null

VARIABLES
    now,
    status,         \* appointments.status
    since,          \* when a was booked; when it was completed, once it is
    reviewed,       \* the appointments that have a review
    sent,           \* sent[k]: the appointments with kind k's flag set
    notes,          \* notes[k][a]: notifications of kind k inserted for a
    fire,           \* the jobs still to fire in this half-hour
    run,            \* run[j]: how far run j has got
    faults          \* history: what has gone wrong so far

vars == <<now, status, since, reviewed, sent, notes, fire, run, faults>>

Kinds == {"24h", "1h", "review"}

Hour == 2           \* half-hours

Window == 1         \* 30 minutes each way

ASSUME RemindersAssumption ==
    /\ StartOf \in [Appts -> Nat]
    /\ Ahead \in Nat
    /\ Horizon \in Nat
    /\ MaxFaults \in Nat
    /\ IsFiniteSet(Runs)
    /\ Null \notin Appts

-----------------------------------------------------------------------------
(* Types *)

Statuses == {"none", "CONFIRMED", "CANCELLED", "COMPLETED"}

\* A run holds the appointments it read and has not begun with, and the one
\* it is at.
RunState == [pc: {"idle", "find", "next", "mark"}, kind: Kinds \cup {Null},
             todo: SUBSET Appts, at: Appts \cup {Null}]

NoRun == [pc |-> "idle", kind |-> Null, todo |-> {}, at |-> Null]

TypeOK ==
    /\ now \in 0..Horizon
    /\ status \in [Appts -> Statuses]
    /\ since \in [Appts -> 0..Horizon]
    /\ reviewed \subseteq Appts
    /\ sent \in [Kinds -> SUBSET Appts]
    /\ notes \in [Kinds -> [Appts -> Nat]]
    /\ fire \subseteq Kinds
    /\ run \in [Runs -> RunState]
    /\ faults \in 0..MaxFaults

-----------------------------------------------------------------------------
(* When a job fires, and whom it finds *)

Every(k) == IF k = "1h" THEN 1 ELSE Hour

Fires(t) == {k \in Kinds : t % Every(k) = 0}

\* The target of kind k, counted from now.
Target(k) == CASE k = "24h" -> Ahead
               [] k = "1h" -> Hour
               [] k = "review" -> -2 * Hour

\* A run at t that reads the clock a little late misses the lower end.
Includes(t, k, a, late) ==
    IF k = "review"
    THEN since[a] - t - Target(k) \in {-Window, Window - 1}
    ELSE StartOf[a] - t - Target(k) \in
            (IF late THEN 1 - Window ELSE -Window)..Window

\* Mutant: the flags are not looked at.
DueAgain(k, a) ==
    IF k = "review" THEN status[a] = "COMPLETED" /\ a \notin reviewed
    ELSE status[a] = "CONFIRMED"

\* findAppointmentsForReminder, findAppointmentsForReviewRequest
Due(k, a) ==
    /\ a \notin sent[k]
    /\ IF k = "review" THEN status[a] = "COMPLETED" /\ a \notin reviewed
       ELSE status[a] = "CONFIRMED"

Init ==
    /\ now = 0
    /\ status = [a \in Appts |-> "none"]
    /\ since = [a \in Appts |-> 0]
    /\ reviewed = {}
    /\ sent = [k \in Kinds |-> {}]
    /\ notes = [k \in Kinds |-> [a \in Appts |-> 0]]
    /\ fire = Kinds
    /\ run = [j \in Runs |-> NoRun]
    /\ faults = 0

apptVars == <<status, since, reviewed>>

Fault == faults < MaxFaults /\ faults' = faults + 1

-----------------------------------------------------------------------------
(* A run of a job *)

Goes(j, state) == run' = [run EXCEPT ![j] = state]

Fire(j, k) ==
    /\ k \in fire
    /\ run[j].pc = "idle"
    /\ fire' = fire \ {k}
    /\ Goes(j, [NoRun EXCEPT !.pc = "find", !.kind = k])
    /\ UNCHANGED <<now, apptVars, sent, notes, faults>>

\* Mutant: the upper end of the window does not belong to it.
FindBefore(j) ==
    LET k == run[j].kind IN
    /\ run[j].pc = "find"
    /\ \E late \in BOOLEAN :
          Goes(j, [run[j] EXCEPT !.pc = "next",
                      !.todo = {a \in Appts : /\ Due(k, a)
                                             /\ Includes(now, k, a, late)
                                             /\ StartOf[a] - now - Target(k) # Window}])
    /\ UNCHANGED <<now, apptVars, sent, notes, fire, faults>>

FindDue(j) ==
    LET k == run[j].kind IN
    /\ run[j].pc = "find"
    /\ \E late \in BOOLEAN :
          Goes(j, [run[j] EXCEPT !.pc = "next",
                      !.todo = {a \in Appts : Due(k, a) /\ Includes(now, k, a, late)}])
    /\ UNCHANGED <<now, apptVars, sent, notes, fire, faults>>

\* Mutant: the appointment is marked, and then the notification inserted.
MarkFirst(j, a) ==
    /\ run[j].pc = "next"
    /\ a \in run[j].todo
    /\ sent' = [sent EXCEPT ![run[j].kind] = @ \cup {a}]
    /\ Goes(j, [run[j] EXCEPT !.pc = "mark", !.todo = @ \ {a}, !.at = a])
    /\ UNCHANGED <<now, apptVars, notes, fire, faults>>

\* notifyAppointmentReminder, notifyReviewRequest
Notify(j, a) ==
    /\ run[j].pc = "next"
    /\ a \in run[j].todo
    /\ notes' = [notes EXCEPT ![run[j].kind][a] = @ + 1]
    /\ Goes(j, [run[j] EXCEPT !.pc = "mark", !.todo = @ \ {a}, !.at = a])
    /\ UNCHANGED <<now, apptVars, sent, fire, faults>>

\* markReminderSent: one column of the row is updated.
Mark(j) ==
    /\ run[j].pc = "mark"
    /\ sent' = [sent EXCEPT ![run[j].kind] = @ \cup {run[j].at}]
    /\ Goes(j, [run[j] EXCEPT !.pc = "next", !.at = Null])
    /\ UNCHANGED <<now, apptVars, notes, fire, faults>>

RunEnds(j) ==
    /\ run[j].pc = "next"
    /\ run[j].todo = {}
    /\ Goes(j, NoRun)
    /\ UNCHANGED <<now, apptVars, sent, notes, fire, faults>>

-----------------------------------------------------------------------------
(* What goes wrong *)

\* The query fails: the error is caught, the run ends.
FindFails(j) ==
    /\ run[j].pc = "find"
    /\ Fault
    /\ Goes(j, NoRun)
    /\ UNCHANGED <<now, apptVars, sent, notes, fire>>

\* Inserting or marking fails: the error is caught, the run goes on with the
\* next appointment.
NotifyFails(j, a) ==
    /\ run[j].pc = "next"
    /\ a \in run[j].todo
    /\ Fault
    /\ Goes(j, [run[j] EXCEPT !.todo = @ \ {a}])
    /\ UNCHANGED <<now, apptVars, sent, notes, fire>>

MarkFails(j) ==
    /\ run[j].pc = "mark"
    /\ Fault
    /\ Goes(j, [run[j] EXCEPT !.pc = "next", !.at = Null])
    /\ UNCHANGED <<now, apptVars, sent, notes, fire>>

\* The server stops, and is up again at once: its runs are lost.
Crash ==
    /\ \E j \in Runs : run[j].pc # "idle"
    /\ Fault
    /\ run' = [j \in Runs |-> NoRun]
    /\ UNCHANGED <<now, apptVars, sent, notes, fire>>

\* The server is down when a job should fire.
Missed(k) ==
    /\ k \in fire
    /\ Fault
    /\ fire' = fire \ {k}
    /\ UNCHANGED <<now, apptVars, sent, notes, run>>

-----------------------------------------------------------------------------
(* Time, and the calls of users *)

Busy == \E j \in Runs : run[j].pc # "idle"

\* A run that takes longer than half an hour is something gone wrong too.
HalfHour ==
    /\ now < Horizon
    /\ fire = {}
    /\ IF Busy THEN Fault ELSE UNCHANGED faults
    /\ now' = now + 1
    /\ fire' = Fires(now + 1)
    /\ UNCHANGED <<apptVars, sent, notes, run>>

\* Booking, cancelling, completing and reviewing, modelled in Appointments and
\* Reviews.  That a late cancellation or completion may save over the other is
\* left to Appointments.
Book(a) ==
    /\ status[a] = "none"
    /\ now < StartOf[a]
    /\ status' = [status EXCEPT ![a] = "CONFIRMED"]
    /\ since' = [since EXCEPT ![a] = now]
    /\ UNCHANGED <<now, reviewed, sent, notes, fire, run, faults>>

Cancel(a) ==
    /\ status[a] = "CONFIRMED"
    /\ status' = [status EXCEPT ![a] = "CANCELLED"]
    /\ UNCHANGED <<now, since, reviewed, sent, notes, fire, run, faults>>

Complete(a) ==
    /\ status[a] = "CONFIRMED"
    /\ status' = [status EXCEPT ![a] = "COMPLETED"]
    /\ since' = [since EXCEPT ![a] = now]
    /\ UNCHANGED <<now, reviewed, sent, notes, fire, run, faults>>

Review(a) ==
    /\ status[a] = "COMPLETED"
    /\ a \notin reviewed
    /\ reviewed' = reviewed \cup {a}
    /\ UNCHANGED <<now, status, since, sent, notes, fire, run, faults>>

-----------------------------------------------------------------------------
RunStep(j) ==
    \/ FindDue(j)
    \/ \E a \in Appts : Notify(j, a)
    \/ Mark(j)
    \/ RunEnds(j)

RunFails(j) ==
    \/ FindFails(j)
    \/ \E a \in Appts : NotifyFails(j, a)
    \/ MarkFails(j)

Next ==
    \/ \E j \in Runs : RunStep(j) \/ RunFails(j) \/ \E k \in Kinds : Fire(j, k)
    \/ \E k \in Kinds : Missed(k)
    \/ Crash
    \/ HalfHour
    \/ \E a \in Appts : Book(a) \/ Cancel(a) \/ Complete(a) \/ Review(a)

Spec == Init /\ [][Next]_vars

-----------------------------------------------------------------------------
(* Properties *)

\* The times at which kind k fires, a having been there before, and includes
\* it whatever the clock says.
Chances(k, a) ==
    {t \in since[a] + 1 .. Horizon : k \in Fires(t) /\ Includes(t, k, a, TRUE)}

Waits(k, a) == IF k = "review" THEN status[a] = "COMPLETED" /\ a \notin reviewed
               ELSE status[a] = "CONFIRMED"

\* The windows of successive runs leave no gap: an appointment that was in
\* time for the job, and still waits when its last chance has gone, has been
\* served, unless as many things went wrong as it had chances.
ServedInTime ==
    \A k \in Kinds, a \in Appts :
        /\ Waits(k, a)
        /\ Cardinality(Chances(k, a)) > faults
        /\ \A t \in Chances(k, a) : t < now
        => notes[k][a] > 0

\* Each thing that goes wrong (a run that overlaps the next, a notification
\* that could not be marked, a crash between the two) causes at most one more
\* notification of the same kind.
NoIdleDuplicate ==
    \A k \in Kinds, a \in Appts : notes[k][a] =< 1 + faults

\* An appointment is marked only when its notification is there, so a crash
\* between the two statements never loses one.
MarkedWasSent == \A k \in Kinds : \A a \in sent[k] : notes[k][a] > 0
=============================================================================
