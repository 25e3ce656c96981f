------------------------------ MODULE Notices -------------------------------
(***************************************************************************)
(* What follows the booking and the cancellation of an appointment: the    *)
(* rows of NotificationsService, the pushes of the gateway and the mails   *)
(* of EmailService.                                                        *)
(*                                                                         *)
(* An event is emitted after its transaction, with what the request that   *)
(* emits it knows.  The two parties can both pass the check of             *)
(* cancelAppointment and both commit, so a cancellation is named by its    *)
(* call; a booking by its appointment.  The gateway's handler of an event  *)
(* runs at once; the other two go on in steps, side by side, and an error  *)
(* ends the one it happens in.  The event of a cancellation starts no      *)
(* mails: its handler reads the address of appointment.client.user, and    *)
(* cancelAppointment does not load client.user, so it ends with an error.  *)
(***************************************************************************)
EXTENDS Gateway

CONSTANT Cancels    \* ids of calls of cancelAppointment, one success of each

VARIABLES
    cancel,         \* cancel[x]: what call x has checked, and its payload
    stage,          \* stage[e]: how far the call and the listener of e are
    note,           \* note[e]: the row of the notification of event e
    mailer,         \* mailer[a]: EmailService.handleAppointmentCreated
    mailed          \* history: the users mailed about the booking of a

noticeVars == <<cancel, stage, note, mailer, mailed>>

ASSUME NoticesAssumption == Cancels \cap Appts = {} /\ Null \notin Cancels

Events == Appts \cup Cancels

CancelCall == [appt: Appts \cup {Null}, by: Users \cup {Null}]

NoCancel == [appt |-> Null, by |-> Null]

\* saving: past the checks of cancelAppointment; unsaid: committed, the event
\* not emitted; then handleAppointmentCreated or ...Cancelled of
\* NotificationsService, before its INSERT and before its own event.
Stages == {"idle", "saving", "unsaid", "insert", "push"}

\* old: created more than 30 days ago.
NoteRow == [state: {"none", "stored", "gone"}, to: Users \cup {Null},
            read: BOOLEAN, old: BOOLEAN]

NoNote == [state |-> "none", to |-> Null, read |-> FALSE, old |-> FALSE]

NoticesTypeOK ==
    /\ cancel \in [Cancels -> CancelCall]
    /\ stage \in [Events -> Stages]
    /\ note \in [Events -> NoteRow]
    /\ \A e \in Events : note[e].state # "none" => note[e].to # Null   \* NOT NULL
    /\ mailer \in [Appts -> {"idle", "client", "provider"}]
    /\ mailed \in [Appts -> SUBSET Users]

NoticesInit ==
    /\ cancel = [x \in Cancels |-> NoCancel]
    /\ stage = [e \in Events |-> "idle"]
    /\ note = [e \in Events |-> NoNote]
    /\ mailer = [a \in Appts |-> "idle"]
    /\ mailed = [a \in Appts |-> {}]

Stored(e) == note[e].state = "stored"

\* The transaction of call x has been committed.
Committed(x) == cancel[x].appt # Null /\ stage[x] # "saving"

Stage(e, from, to) ==
    /\ stage[e] = from
    /\ stage' = [stage EXCEPT ![e] = to]

-----------------------------------------------------------------------------
(* The events *)

Role(a, u) == IF Client[a] = u THEN "CLIENT" ELSE "PRESTATAIRE"

\* Mutant: the role is compared with 'client', as the mail handler does.
OtherPartyLower(a, role) == IF role = "client" THEN Provider[a] ELSE Client[a]

\* The party that did not cancel, by the role of the one who did.
OtherParty(a, role) == IF role = "CLIENT" THEN Provider[a] ELSE Client[a]

\* Whom the handlers of an event pick, by its payload.
Recipient(e) ==
    IF e \in Appts THEN Provider[e]
    ELSE OtherParty(cancel[e].appt, Role(cancel[e].appt, cancel[e].by))

\* bookAppointment loads its row again before it emits; that fails, and
\* nobody is told of the booking.
ReloadFails(a) ==
    /\ Stage(a, "unsaid", "idle")
    /\ UNCHANGED <<gatewayVars, cancel, note, mailer, mailed>>

\* Emitting appointment.created.
SayBooked(a) ==
    /\ Stage(a, "unsaid", "insert")
    /\ Emit({ToUser(Recipient(a), <<"new-booking", a>>)})
    /\ mailer' = [mailer EXCEPT ![a] = "client"]
    /\ UNCHANGED <<cancel, note, mailed>>

\* Emitting appointment.cancelled.
SayCancelled(x) ==
    /\ Stage(x, "unsaid", "insert")
    /\ Emit({ToUser(Recipient(x), <<"booking-cancelled", x>>)})
    /\ UNCHANGED <<cancel, note, mailer, mailed>>

-----------------------------------------------------------------------------
(* NotificationsService.handleAppointmentCreated and ...Cancelled *)

\* Mutant: a notification is for the user who cancelled.
NoteToCanceller(e) ==
    /\ Stage(e, "insert", "push")
    /\ note' = [note EXCEPT ![e] =
                   [state |-> "stored", read |-> FALSE, old |-> FALSE,
                    to |-> IF e \in Cancels THEN cancel[e].by ELSE Null]]
    /\ UNCHANGED <<gatewayVars, cancel, mailer, mailed>>

\* createNotification
InsertNote(e) ==
    /\ Stage(e, "insert", "push")
    /\ note' = [note EXCEPT ![e] = [state |-> "stored", to |-> Recipient(e),
                                    read |-> FALSE, old |-> FALSE]]
    /\ UNCHANGED <<gatewayVars, cancel, mailer, mailed>>

\* notification.created, and the gateway's handler.
PushNote(e) ==
    /\ Stage(e, "push", "idle")
    /\ Emit({ToUser(note[e].to, <<"notification", e>>)})
    /\ UNCHANGED <<cancel, note, mailer, mailed>>

\* The INSERT fails; the error is caught.
InsertFails(e) ==
    /\ Stage(e, "insert", "idle")
    /\ UNCHANGED <<gatewayVars, cancel, note, mailer, mailed>>

-----------------------------------------------------------------------------
(* EmailService.handleAppointmentCreated: two mails, one after the other *)

MailClient(a) ==
    /\ mailer[a] = "client"
    /\ mailer' = [mailer EXCEPT ![a] = "provider"]
    /\ mailed' = [mailed EXCEPT ![a] = @ \cup {Client[a]}]
    /\ UNCHANGED <<gatewayVars, cancel, stage, note>>

MailProvider(a) ==
    /\ mailer[a] = "provider"
    /\ mailer' = [mailer EXCEPT ![a] = "idle"]
    /\ mailed' = [mailed EXCEPT ![a] = @ \cup {Provider[a]}]
    /\ UNCHANGED <<gatewayVars, cancel, stage, note>>

\* sendEmail throws: the second mail is not sent if the first fails.
MailFails(a) ==
    /\ mailer[a] # "idle"
    /\ mailer' = [mailer EXCEPT ![a] = "idle"]
    /\ UNCHANGED <<gatewayVars, cancel, stage, note, mailed>>

-----------------------------------------------------------------------------
(* What users and the weekly job do with the rows *)

\* markAsRead
ReadNote(e) ==
    /\ Stored(e)
    /\ ~note[e].read
    /\ note' = [note EXCEPT ![e].read = TRUE]
    /\ UNCHANGED <<gatewayVars, cancel, stage, mailer, mailed>>

\* The rows that satisfy P become what F makes of them: one statement.
ForNotes(P(_), F(_)) ==
    note' = [e \in Events |-> IF P(note[e]) THEN F(note[e]) ELSE note[e]]

\* markAllAsRead
ReadAllNotes(u) ==
    /\ \E e \in Events : Stored(e) /\ note[e].to = u /\ ~note[e].read
    /\ ForNotes(LAMBDA n : n.state = "stored" /\ n.to = u,
                LAMBDA n : [n EXCEPT !.read = TRUE])
    /\ UNCHANGED <<gatewayVars, cancel, stage, mailer, mailed>>

\* deleteNotification
DeleteNote(e) ==
    /\ Stored(e)
    /\ note' = [note EXCEPT ![e].state = "gone"]
    /\ UNCHANGED <<gatewayVars, cancel, stage, mailer, mailed>>

Cleanable(n) == n.state = "stored" /\ n.read /\ n.old

\* deleteOldNotifications(30), on Sundays
CleanUpNotes ==
    /\ \E e \in Events : Cleanable(note[e])
    /\ ForNotes(Cleanable, LAMBDA n : [n EXCEPT !.state = "gone"])
    /\ UNCHANGED <<gatewayVars, cancel, stage, mailer, mailed>>

\* Thirty days pass.
MonthPasses ==
    /\ \E e \in Events : Stored(e) /\ ~note[e].old
    /\ ForNotes(LAMBDA n : n.state = "stored", LAMBDA n : [n EXCEPT !.old = TRUE])
    /\ UNCHANGED <<gatewayVars, cancel, stage, mailer, mailed>>

NoticeStep ==
    \/ \E a \in Appts : \/ SayBooked(a)
                        \/ ReloadFails(a)
                        \/ MailClient(a)
                        \/ MailProvider(a)
                        \/ MailFails(a)
    \/ \E x \in Cancels : SayCancelled(x)
    \/ \E e \in Events : InsertNote(e) \/ PushNote(e) \/ InsertFails(e)

NoticeCall ==
    \/ \E e \in Events : ReadNote(e) \/ DeleteNote(e)
    \/ \E u \in Users : ReadAllNotes(u)
    \/ CleanUpNotes
    \/ MonthPasses
=============================================================================
