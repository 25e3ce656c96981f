---------------------------- MODULE Conversation ----------------------------
(***************************************************************************)
(* The two parties of an appointment and what reaches them: messages,      *)
(* notifications and mails, stored in the database and told over sockets.  *)
(***************************************************************************)
EXTENDS Threads, Notices

CONSTANTS
    KnownStatus,    \* status of the appointments booked long ago, or "none"
    MaxCalls        \* bound: the calls and jobs of one behaviour

ASSUME ConversationAssumption ==
    KnownStatus \in [Appts -> Statuses] /\ MaxCalls \in Nat

VARIABLES
    completing,     \* appointments a completeAppointment is about to save
    calls           \* history: how many calls and jobs there have been

vars == <<gatewayVars, threadVars, noticeVars, completing, calls>>

TypeOK ==
    /\ calls \in 0..MaxCalls
    /\ completing \subseteq Appts
    /\ GatewayTypeOK
    /\ ThreadsTypeOK
    /\ NoticesTypeOK

Init ==
    /\ GatewayInit
    /\ ThreadsInit
    /\ NoticesInit
    /\ completing = {}
    /\ calls = 0
    /\ status = KnownStatus

-----------------------------------------------------------------------------
(* AppointmentsService, without the slots, whose locks and steps are those *)
(* of Appointments.  A cancellation and a completion check a copy of the   *)
(* row and save it later, whatever the row says by then; an event is       *)
(* emitted in a step after the commit.                                     *)

threadRows == <<message, mreq, settled>>

Book(a) ==
    /\ status[a] = "none"
    /\ status' = [status EXCEPT ![a] = "CONFIRMED"]
    /\ Stage(a, "idle", "unsaid")
    /\ UNCHANGED <<gatewayVars, threadRows, completing>>
    /\ UNCHANGED <<cancel, note, mailer, mailed>>

CancelBegin(x, a, u) ==
    /\ cancel[x] = NoCancel
    /\ status[a] = "CONFIRMED"
    /\ u \in {Client[a], Provider[a]}
    /\ cancel' = [cancel EXCEPT ![x] = [appt |-> a, by |-> u]]
    /\ Stage(x, "idle", "saving")
    /\ UNCHANGED <<gatewayVars, status, threadRows, completing>>
    /\ UNCHANGED <<note, mailer, mailed>>

CancelCommit(x) ==
    /\ Stage(x, "saving", "unsaid")
    /\ status' = [status EXCEPT ![cancel[x].appt] = "CANCELLED"]
    /\ UNCHANGED <<gatewayVars, threadRows, completing>>
    /\ UNCHANGED <<cancel, note, mailer, mailed>>

\* The window of the client is over, or the transaction is rolled back.
CancelFails(x) ==
    /\ Stage(x, "saving", "idle")
    /\ cancel' = [cancel EXCEPT ![x] = NoCancel]
    /\ UNCHANGED <<gatewayVars, status, threadRows, completing>>
    /\ UNCHANGED <<note, mailer, mailed>>

\* None of the three services listens to appointment.completed.
CompleteBegin(a) ==
    /\ a \notin completing
    /\ status[a] = "CONFIRMED"
    /\ completing' = completing \cup {a}
    /\ UNCHANGED <<gatewayVars, status, threadRows, noticeVars>>

CompleteSave(a) ==
    /\ a \in completing
    /\ completing' = completing \ {a}
    /\ status' = [status EXCEPT ![a] = "COMPLETED"]
    /\ UNCHANGED <<gatewayVars, threadRows, noticeVars>>

CompleteFails(a) ==
    /\ a \in completing
    /\ completing' = completing \ {a}
    /\ UNCHANGED <<gatewayVars, status, threadRows, noticeVars>>

\* The server stops and starts: requests, handlers and sockets are gone, the
\* rows stay.
Restart ==
    /\ GatewayStops
    /\ mreq' = [r \in Requests |-> IdleThread]
    /\ cancel' = [x \in Cancels |->
                     IF stage[x] = "saving" THEN NoCancel ELSE cancel[x]]
    /\ stage' = [e \in Events |-> "idle"]
    /\ mailer' = [a \in Appts |-> "idle"]
    /\ completing' = {}
    /\ UNCHANGED <<status, message, settled, note, mailed>>

OnlyGateway == UNCHANGED <<status, threadRows, noticeVars, completing>>

OnlyThreads == UNCHANGED <<noticeVars, completing>>

OnlyNotices == UNCHANGED <<status, threadRows, completing>>

\* A call of a user or a job begins.
Call ==
    \/ \E s \in Sockets : SocketCall(s) /\ OnlyGateway
    \/ \E r \in Requests, u \in Users : ThreadCall(r, u) /\ OnlyThreads
    \/ NoticeCall /\ OnlyNotices
    \/ \E a \in Appts : \/ Book(a)
                        \/ CompleteBegin(a)
                        \/ \E x \in Cancels, u \in Users : CancelBegin(x, a, u)

\* One that has begun goes on, or a socket closes.
Progress ==
    \/ \E s \in Sockets : handleDisconnect(s) /\ OnlyGateway
    \/ \E r \in Requests : ThreadStep(r) /\ OnlyThreads
    \/ NoticeStep /\ OnlyNotices
    \/ \E x \in Cancels : CancelCommit(x) \/ CancelFails(x)
    \/ \E a \in Appts : CompleteSave(a) \/ CompleteFails(a)
    \/ Restart

Next ==
    /\ \/ Call /\ calls < MaxCalls /\ calls' = calls + 1
       \/ Progress /\ UNCHANGED calls
    /\ Note

Spec == Init /\ [][Next]_vars

-----------------------------------------------------------------------------
(* Properties *)

\* The gateway's own map and socket.io's rooms are two records of who is
\* connected; they agree, with several sockets of a user coming and going:
\* isUserOnline says yes exactly of the users an emission reaches, and the
\* map keeps no empty entry.
PresenceAgrees ==
    \A u \in Users :
        /\ Online(u) <=> InRoom(u, UserRoom(u))
        /\ SocketsOf(u) = {s \in Sockets : UserOf[s] = u /\ Connected(s)}

\* Nobody is told over a socket, or mailed, of what was not stored before:
\* not of a message, a booking, a cancellation or a notification.
Happened(event) ==
    /\ event[1] \in {"new-message", "message-notification"} => Sent(event[2])
    /\ event[1] = "new-booking" => status[event[2]] # "none"
    /\ event[1] = "booking-cancelled" => Committed(event[2])
    /\ event[1] = "notification" => note[event[2]].state # "none"

ToldIsStored ==
    /\ \A u \in Users : \A event \in heard[u] : Happened(event)
    /\ \A a \in Appts : mailed[a] # {} => status[a] # "none"

\* The push and the notification of a cancellation, decided in two places,
\* go to the party that did not make that call, and only once it is committed:
\* also when both parties cancel at once and each call announces its own.
OtherPartyTold ==
    \A x \in Cancels, u \in Users :
        <<"booking-cancelled", x>> \in heard[u] \/ note[x].to = u
            => Committed(x) /\ u = Other(cancel[x].appt, cancel[x].by)

\* A message read stays read.  flagMessage saves the copy it made, which loses
\* the mark of a message read since; this is about every message read while no
\* such copy was on its way, however many are flagged, read or sent later.
ReadStays == \A m \in settled : message[m].read

\* getUnreadCount adds up queries made at different times; its answer still
\* counts every message unread during the whole call, and none that was at no
\* moment of it.
CountIsPlausible ==
    \A r \in Requests :
        mreq[r].pc = "count" /\ mreq[r].todo = {}
            => /\ mreq[r].sum >= Cardinality(span[r].all)
               /\ mreq[r].sum =< Cardinality(span[r].some)

-----------------------------------------------------------------------------
(* Conversation implements Delivery.  The events of an appointment's room   *)
(* are no part of it: any user may join that room.                          *)

Facts ==
    ({"message-notification"} \X Messages)
    \cup ({"new-booking"} \X Appts)
    \cup ({"booking-cancelled"} \X Cancels)
    \cup ({"notification"} \X Events)

\* Whom a fact concerns, by what is stored of it: the row of the message, of
\* the appointment or of the notification, or the call that cancelled.
Audience(f) ==
    CASE f[1] = "message-notification" ->
            IF Sent(f[2]) THEN {Other(message[f[2]].appt, message[f[2]].from)} ELSE {}
      [] f[1] = "new-booking" ->
            IF status[f[2]] # "none" THEN {Client[f[2]], Provider[f[2]]} ELSE {}
      [] f[1] = "booking-cancelled" ->
            IF Committed(f[2]) THEN {Other(cancel[f[2]].appt, cancel[f[2]].by)} ELSE {}
      [] f[1] = "notification" ->
            IF note[f[2]].state # "none" THEN {note[f[2]].to} ELSE {}

\* What a user got on a socket or by mail.
Told(u) == (heard[u] \cap Facts)
           \cup {<<"new-booking", a>> : a \in {b \in Appts : u \in mailed[b]}}

Audiences == [f \in Facts |-> Audience(f)]

AllTold == [u \in Users |-> Told(u)]

DeliveryOf == INSTANCE Delivery WITH
    People <- Users, audience <- Audiences, told <- AllTold

\* The gateway, the listeners and the mailer together tell of each message,
\* booking, committed cancellation and notification only those it concerns, and only
\* once it is stored; and none of them is stored over another, whatever sockets
\* come and go, handlers interleave and restarts drop what was under way.
DeliveryRefined == DeliveryOf!Spec
=============================================================================
