------------------------------ MODULE Threads -------------------------------
(***************************************************************************)
(* MessagesService: the messages of appointments.                          *)
(*                                                                         *)
(* A request goes on in steps, one per statement; requests and sockets     *)
(* interleave between them.  Reading the appointment of markAsRead is no   *)
(* step of its own: who takes part in one never changes.  Contents, dates  *)
(* and pages are left out.                                                 *)
(***************************************************************************)
EXTENDS Gateway, Integers, FiniteSets

CONSTANTS
    Messages,       \* ids of messages
    Requests,       \* the message requests being served at one time
    Calls           \* the calls: <<request, operation, user, appointment>>

VARIABLES
    status,         \* appointments.status
    message,        \* message[m]: the row of message m
    mreq,           \* mreq[r]: how far request r has got
    settled,        \* history: the messages read while no stale copy was about
    span            \* history: what each counting request could have seen

threadVars == <<status, message, mreq, settled, span>>

OpNames == {"send", "flag", "count", "read"}

ASSUME ThreadsAssumption ==
    /\ Calls \subseteq Requests \X OpNames \X Users \X Appts
    /\ \A c \in Calls : c[3] \in {Client[c[4]], Provider[c[4]]}
    /\ Null \notin Messages
    /\ IsFiniteSet(Messages)

-----------------------------------------------------------------------------
(* Types *)

Statuses == {"none", "CONFIRMED", "CANCELLED", "COMPLETED"}

MessageRow == [appt: Appts \cup {Null}, from: Users \cup {Null},
               read: BOOLEAN, flagged: BOOLEAN]

NoMessage == [appt |-> Null, from |-> Null, read |-> FALSE, flagged |-> FALSE]

ThreadPc == {"idle", "save", "emit", "load", "write", "count"}

\* read is the column in the copy that flagMessage saves, stale whether
\* save() found it to differ; todo and sum belong to getUnreadCount.
ThreadRequest == [pc: ThreadPc, user: Users \cup {Null}, appt: Appts \cup {Null},
                  msg: Messages \cup {Null}, read: BOOLEAN, stale: BOOLEAN,
                  todo: SUBSET Appts, sum: Nat]

IdleThread == [pc |-> "idle", user |-> Null, appt |-> Null, msg |-> Null,
               read |-> FALSE, stale |-> FALSE, todo |-> {}, sum |-> 0]

ThreadsTypeOK ==
    /\ status \in [Appts -> Statuses]
    /\ message \in [Messages -> MessageRow]
    /\ mreq \in [Requests -> ThreadRequest]
    /\ settled \subseteq Messages
    /\ span \in [Requests -> [all: SUBSET Messages, some: SUBSET Messages]]

-----------------------------------------------------------------------------
Other(a, u) == IF Client[a] = u THEN Provider[a] ELSE Client[a]

Mine(u) == {a \in Appts : u \in {Client[a], Provider[a]}}

Sent(m) == message[m].appt # Null

\* The messages of a that the other party sent u and u has not read.
Unread(u, a) == {m \in Messages : /\ message[m].appt = a
                                  /\ message[m].from = Other(a, u)
                                  /\ ~message[m].read}

AllUnread(u) == UNION {Unread(u, a) : a \in Mine(u)}

\* A flagMessage that copied m unread, and whose save() has not yet compared
\* the copy with the row or has found them to differ.
Threatens(r, m) ==
    LET q == mreq[r] IN
    /\ q.msg = m
    /\ ~q.read
    /\ q.pc = "load" \/ (q.pc = "write" /\ q.stale)

NoSpan == [all |-> {}, some |-> {}]

ThreadsInit ==
    /\ message = [m \in Messages |-> NoMessage]
    /\ mreq = [r \in Requests |-> IdleThread]
    /\ settled = {}
    /\ span = [r \in Requests |-> NoSpan]

Called(r, op, u, a) == mreq[r].pc = "idle" /\ <<r, op, u, a>> \in Calls

Goes(r, request) == mreq' = [mreq EXCEPT ![r] = request]

-----------------------------------------------------------------------------
(* sendMessage *)

SendBegin(r, u, a) ==
    /\ Called(r, "send", u, a)
    /\ status[a] \in {"CONFIRMED", "COMPLETED"}
    /\ Goes(r, [IdleThread EXCEPT !.pc = "save", !.user = u, !.appt = a])
    /\ UNCHANGED <<gatewayVars, status, message, settled>>

SendSave(r, m) ==
    /\ mreq[r].pc = "save"
    /\ ~Sent(m)
    /\ message' = [message EXCEPT ![m] = [appt |-> mreq[r].appt,
                      from |-> mreq[r].user, read |-> FALSE, flagged |-> FALSE]]
    /\ Goes(r, [mreq[r] EXCEPT !.pc = "emit", !.msg = m])
    /\ UNCHANGED <<gatewayVars, status, settled>>

\* Mutant: the notification goes to the sender.
EmitToSender(r) ==
    LET q == mreq[r] IN
    /\ q.pc = "emit"
    /\ Emit({ToAppt(q.appt, <<"new-message", q.msg>>),
             ToUser(q.user, <<"message-notification", q.msg>>)})
    /\ Goes(r, IdleThread)
    /\ UNCHANGED <<status, message, settled>>

\* message.sent, and the gateway's handler.
SendEmit(r) ==
    LET q == mreq[r] IN
    /\ q.pc = "emit"
    /\ Emit({ToAppt(q.appt, <<"new-message", q.msg>>),
             ToUser(Other(q.appt, q.user), <<"message-notification", q.msg>>)})
    /\ Goes(r, IdleThread)
    /\ UNCHANGED <<status, message, settled>>

-----------------------------------------------------------------------------
(* markAsRead: one UPDATE statement *)

MarkAsRead(r, u, a) ==
    /\ Called(r, "read", u, a)
    /\ Unread(u, a) # {}
    /\ message' = [m \in Messages |->
                      IF m \in Unread(u, a) THEN [message[m] EXCEPT !.read = TRUE]
                      ELSE message[m]]
    /\ settled' = settled \cup {m \in Unread(u, a) :
                                \A q \in Requests : ~Threatens(q, m)}
    /\ UNCHANGED <<gatewayVars, status, mreq>>

-----------------------------------------------------------------------------
(* flagMessage: findOne, then save() of the copy, which reads the row again *)
(* and updates the columns that differ                                      *)

FlagBegin(r, u, m) ==
    /\ Sent(m)
    /\ Called(r, "flag", u, message[m].appt)
    /\ Goes(r, [IdleThread EXCEPT !.pc = "load", !.msg = m,
                                  !.read = message[m].read])
    /\ UNCHANGED <<gatewayVars, status, message, settled>>

FlagLoad(r) ==
    LET q == mreq[r] IN
    /\ q.pc = "load"
    /\ Goes(r, IF message[q.msg].flagged /\ message[q.msg].read = q.read
               THEN IdleThread
               ELSE [q EXCEPT !.pc = "write",
                              !.stale = message[q.msg].read # q.read])
    /\ UNCHANGED <<gatewayVars, status, message, settled>>

\* Mutant: the whole copy is written, not only the columns that differ.
FlagWriteAll(r) ==
    LET q == mreq[r] IN
    /\ q.pc = "write"
    /\ message' = [message EXCEPT ![q.msg] =
                     [@ EXCEPT !.flagged = TRUE, !.read = q.read]]
    /\ Goes(r, IdleThread)
    /\ UNCHANGED <<gatewayVars, status, settled>>

FlagWrite(r) ==
    LET q == mreq[r] IN
    /\ q.pc = "write"
    /\ message' = [message EXCEPT ![q.msg] =
                     [@ EXCEPT !.flagged = TRUE,
                               !.read = IF q.stale THEN q.read
                                         ELSE message[q.msg].read]]
    /\ Goes(r, IdleThread)
    /\ UNCHANGED <<gatewayVars, status, settled>>

-----------------------------------------------------------------------------
(* getUnreadCount: the appointments of the user, then a query for each.     *)
(* The queries follow the order of the rows, which is any order.            *)

CountBegin(r, u, a) ==
    /\ Called(r, "count", u, a)
    /\ Goes(r, [IdleThread EXCEPT !.pc = "count", !.user = u,
                   !.todo = {b \in Mine(u) : status[b] # "none"}])
    /\ UNCHANGED <<gatewayVars, status, message, settled>>

\* Mutant: the user's own messages count too.
CountAll(r, a) ==
    LET q == mreq[r] IN
    /\ q.pc = "count"
    /\ a \in q.todo
    /\ Goes(r, [q EXCEPT !.todo = @ \ {a},
                   !.sum = @ + Cardinality({m \in Messages :
                               message[m].appt = a /\ ~message[m].read})])
    /\ UNCHANGED <<gatewayVars, status, message, settled>>

CountAppt(r, a) ==
    LET q == mreq[r] IN
    /\ q.pc = "count"
    /\ a \in q.todo
    /\ Goes(r, [q EXCEPT !.todo = @ \ {a},
                         !.sum = @ + Cardinality(Unread(q.user, a))])
    /\ UNCHANGED <<gatewayVars, status, message, settled>>

CountAnswer(r) ==
    /\ mreq[r].pc = "count"
    /\ mreq[r].todo = {}
    /\ Goes(r, IdleThread)
    /\ UNCHANGED <<gatewayVars, status, message, settled>>

-----------------------------------------------------------------------------
\* A statement of the request fails: what it has written stays.
ThreadFails(r) ==
    /\ mreq[r].pc # "idle"
    /\ Goes(r, IdleThread)
    /\ UNCHANGED <<gatewayVars, status, message, settled>>

ThreadCall(r, u) ==
    \/ \E a \in Appts : SendBegin(r, u, a) \/ MarkAsRead(r, u, a) \/ CountBegin(r, u, a)
    \/ \E m \in Messages : FlagBegin(r, u, m)

ThreadStep(r) ==
    \/ \E m \in Messages : SendSave(r, m)
    \/ \E a \in Appts : CountAppt(r, a)
    \/ SendEmit(r)
    \/ FlagLoad(r)
    \/ FlagWrite(r)
    \/ CountAnswer(r)
    \/ ThreadFails(r)

\* While a request counts, the messages unread all along, and at some time.
Note ==
    LET unread == [u \in Users |-> AllUnread(u)]' IN
    span' = [r \in Requests |->
               IF mreq'[r].pc # "count" THEN NoSpan
               ELSE LET now == unread[mreq'[r].user] IN
                    IF mreq[r].pc # "count" THEN [all |-> now, some |-> now]
                    ELSE [all |-> span[r].all \cap now,
                          some |-> span[r].some \cup now]]
=============================================================================
