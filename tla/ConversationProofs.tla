------------------------- MODULE ConversationProofs -------------------------
(***************************************************************************)
(* Conversation for every number of appointments, users, sockets, messages *)
(* and requests.                                                           *)
(***************************************************************************)
EXTENDS Conversation, FiniteSetTheorems, TLAPS

-----------------------------------------------------------------------------
(* What a step can be *)

AppointmentStep ==
    \/ \E a \in Appts : \/ Book(a)
                        \/ CompleteBegin(a)
                        \/ CompleteSave(a)
                        \/ CompleteFails(a)
    \/ \E x \in Cancels : \/ CancelCommit(x)
                          \/ CancelFails(x)
                          \/ \E a \in Appts, u \in Users : CancelBegin(x, a, u)

ThreadMove(r) == (\E u \in Users : ThreadCall(r, u)) \/ ThreadStep(r)

LEMMA StepCases ==
    ASSUME [Next]_vars
    PROVE  \/ UNCHANGED vars
           \/ \E s \in Sockets : (SocketCall(s) \/ handleDisconnect(s)) /\ OnlyGateway
           \/ \E r \in Requests : ThreadMove(r) /\ OnlyThreads
           \/ (NoticeCall \/ NoticeStep) /\ OnlyNotices
           \/ AppointmentStep
           \/ Restart
BY DEF Next, Call, Progress, AppointmentStep, ThreadMove

\* The steps of appointments leave messages, requests and sockets alone.
LEMMA AppointmentMoves ==
    ASSUME AppointmentStep
    PROVE  UNCHANGED <<gatewayVars, message, mreq, settled, note, mailer, mailed>>
<1>1. CASE \E a \in Appts : Book(a)
  BY <1>1 DEF Book, threadRows
<1>2. CASE \E a \in Appts : CompleteBegin(a)
  BY <1>2 DEF CompleteBegin, threadRows, noticeVars
<1>3. CASE \E a \in Appts : CompleteSave(a)
  BY <1>3 DEF CompleteSave, threadRows, noticeVars
<1>4. CASE \E a \in Appts : CompleteFails(a)
  BY <1>4 DEF CompleteFails, threadRows, noticeVars
<1>5. CASE \E x \in Cancels : CancelCommit(x)
  BY <1>5 DEF CancelCommit, threadRows
<1>6. CASE \E x \in Cancels : CancelFails(x)
  BY <1>6 DEF CancelFails, threadRows
<1>7. CASE \E x \in Cancels, a \in Appts, u \in Users : CancelBegin(x, a, u)
  BY <1>7 DEF CancelBegin, threadRows
<1> QED
  BY <1>1, <1>2, <1>3, <1>4, <1>5, <1>6, <1>7 DEF AppointmentStep

-----------------------------------------------------------------------------
(* Who is connected *)

\* What the map says of a user is what socket.io's rooms say, the map has no
\* empty entry, and no socket is in the room of another user.
OwnRooms ==
    \A s \in Sockets, v \in Users : UserRoom(v) \in rooms[s] => v = UserOf[s]

Presence ==
    /\ GatewayTypeOK
    /\ OwnRooms
    /\ \A u \in Users :
          /\ SocketsOf(u) = {s \in Sockets : UserOf[s] = u /\ Connected(s)}
          /\ Online(u) => SocketsOf(u) # {}

LEMMA RoomsDiffer ==
    \A u \in Users, a \in Appts : UserRoom(u) # ApptRoom(a)
BY DEF UserRoom, ApptRoom

LEMMA PresenceSame ==
    ASSUME Presence, UNCHANGED <<connectedUsers, rooms>>, DOMAIN heard' = Users
    PROVE  Presence'
BY DEF Presence, OwnRooms, GatewayTypeOK, SocketsOf, Connected, Online

LEMMA EmitPresence ==
    ASSUME Presence, NEW E, Emit(E)
    PROVE  Presence'
BY PresenceSame DEF Emit

LEMMA ConnectPresence ==
    ASSUME Presence, NEW s \in Sockets, handleConnection(s)
    PROVE  Presence'
<1> DEFINE u == UserOf[s]
<1>1. u \in Users /\ UserRoom(u) \in Rooms
  BY GatewayAssumption DEF Rooms
<1>2. /\ rooms' \in [Sockets -> SUBSET Rooms]
      /\ rooms'[s] = {UserRoom(u)}
      /\ \A t \in Sockets \ {s} : rooms'[t] = rooms[t]
  BY <1>1 DEF handleConnection, Presence, GatewayTypeOK
<1>3. /\ DOMAIN connectedUsers' = DOMAIN connectedUsers \cup {u}
      /\ connectedUsers'[u] = SocketsOf(u) \cup {s}
      /\ \A v \in DOMAIN connectedUsers \ {u} :
            connectedUsers'[v] = connectedUsers[v]
  BY DEF handleConnection, WithEntry
<1>4. SocketsOf(u) \subseteq Sockets
  BY DEF Presence, GatewayTypeOK, SocketsOf, Online
<1>5. GatewayTypeOK'
  <2>1. DOMAIN connectedUsers' \subseteq Users
    BY <1>1, <1>3 DEF GatewayTypeOK, Presence
  <2>2. ASSUME NEW v \in DOMAIN connectedUsers'
        PROVE  connectedUsers'[v] \subseteq Sockets
    <3>1. CASE v = u
      BY <1>3, <1>4, <3>1
    <3>2. CASE v # u
      BY <1>3, <2>2, <3>2 DEF GatewayTypeOK, Presence
    <3> QED
      BY <3>1, <3>2
  <2> QED
    BY <1>2, <2>1, <2>2 DEF GatewayTypeOK, Presence, handleConnection
<1>6. ASSUME NEW v \in Users
      PROVE  /\ SocketsOf(v)' = {t \in Sockets : UserOf[t] = v /\ Connected(t)'}
             /\ Online(v)' => SocketsOf(v)' # {}
  <2>1. CASE v = u
    BY <1>1, <1>2, <1>3, <2>1 DEF Presence, SocketsOf, Online, Connected
  <2>2. CASE v # u
    BY <1>1, <1>2, <1>3, <2>2 DEF Presence, SocketsOf, Online, Connected
  <2> QED
    BY <2>1, <2>2
<1>7. OwnRooms'
  BY <1>1, <1>2 DEF Presence, OwnRooms, UserRoom
<1> QED
  BY <1>5, <1>6, <1>7 DEF Presence

LEMMA DisconnectPresence ==
    ASSUME Presence, NEW s \in Sockets, handleDisconnect(s)
    PROVE  Presence'
<1> DEFINE u == UserOf[s]
           rest == SocketsOf(u) \ {s}
<1>1. u \in Users /\ s \in SocketsOf(u) /\ Online(u)
  BY GatewayAssumption DEF handleDisconnect, Presence, SocketsOf
<1>2. /\ rooms' \in [Sockets -> SUBSET Rooms]
      /\ rooms'[s] = {}
      /\ \A t \in Sockets \ {s} : rooms'[t] = rooms[t]
  BY DEF handleDisconnect, Presence, GatewayTypeOK
<1>3. /\ DOMAIN connectedUsers' =
            IF rest = {} THEN DOMAIN connectedUsers \ {u} ELSE DOMAIN connectedUsers
      /\ rest # {} => connectedUsers'[u] = rest
      /\ \A v \in DOMAIN connectedUsers \ {u} :
            connectedUsers'[v] = connectedUsers[v]
  BY <1>1 DEF handleDisconnect, WithEntry, WithoutEntry, Online
<1>4. rest \subseteq Sockets
  BY <1>1 DEF Presence, GatewayTypeOK, SocketsOf, Online
<1>5. GatewayTypeOK'
  BY <1>1, <1>2, <1>3, <1>4 DEF GatewayTypeOK, Presence, handleDisconnect
<1>6. ASSUME NEW v \in Users
      PROVE  /\ SocketsOf(v)' = {t \in Sockets : UserOf[t] = v /\ Connected(t)'}
             /\ Online(v)' => SocketsOf(v)' # {}
  <2>1. CASE v = u
    <3>1. SocketsOf(v)' = rest
      BY <1>3, <2>1 DEF SocketsOf, Online
    <3>2. rest = {t \in Sockets : UserOf[t] = v /\ Connected(t)'}
      BY <1>1, <1>2, <2>1 DEF Presence, Connected
    <3> QED
      BY <1>3, <2>1, <3>1, <3>2 DEF Online
  <2>2. CASE v # u
    <3>1. SocketsOf(v)' = SocketsOf(v) /\ (Online(v)' <=> Online(v))
      BY <1>1, <1>3, <2>2 DEF SocketsOf, Online
    <3>2. \A t \in Sockets : UserOf[t] = v => (Connected(t)' <=> Connected(t))
      BY <1>2, <2>2 DEF Connected
    <3> QED
      BY <3>1, <3>2 DEF Presence
  <2> QED
    BY <2>1, <2>2
<1>7. OwnRooms'
  BY <1>1, <1>2 DEF Presence, OwnRooms, UserRoom
<1> QED
  BY <1>5, <1>6, <1>7 DEF Presence

LEMMA RoomPresence ==
    ASSUME Presence, NEW s \in Sockets, NEW a \in Appts,
           handleJoinAppointment(s, a) \/ handleLeaveAppointment(s, a)
    PROVE  Presence'
<1>1. /\ rooms' \in [Sockets -> SUBSET Rooms]
      /\ \A t \in Sockets, u \in Users : UserRoom(u) \in rooms'[t]
                                            <=> UserRoom(u) \in rooms[t]
  <2>1. ApptRoom(a) \in Rooms
    BY DEF Rooms
  <2> QED
    BY <2>1, RoomsDiffer DEF Presence, GatewayTypeOK,
       handleJoinAppointment, handleLeaveAppointment
<1>2. UNCHANGED <<connectedUsers, heard>>
  BY DEF handleJoinAppointment, handleLeaveAppointment
<1>3. \A t \in Sockets : Connected(t)' <=> Connected(t)
  BY <1>1, GatewayAssumption DEF Connected
<1>4. OwnRooms'
  BY <1>1 DEF Presence, OwnRooms
<1> QED
  BY <1>1, <1>2, <1>3, <1>4 DEF Presence, GatewayTypeOK, SocketsOf, Online

LEMMA StopPresence ==
    ASSUME Presence, GatewayStops
    PROVE  Presence'
BY DEF Presence, OwnRooms, GatewayTypeOK, GatewayStops, SocketsOf, Online, Connected

LEMMA InitPresence == Init => Presence
BY DEF Init, GatewayInit, Presence, OwnRooms, GatewayTypeOK, SocketsOf, Online, Connected

\* What a step does to the gateway's own state.
LEMMA GatewayMoves ==
    ASSUME [Next]_vars
    PROVE  \/ \E s \in Sockets :
                 \/ handleConnection(s)
                 \/ handleDisconnect(s)
                 \/ \E a \in Appts : \/ handleJoinAppointment(s, a)
                                     \/ handleLeaveAppointment(s, a)
           \/ GatewayStops
           \/ \E E : Emit(E)
           \/ UNCHANGED gatewayVars
<1>1. CASE UNCHANGED vars
  BY <1>1 DEF vars
<1>2. CASE \E r \in Requests : ThreadMove(r)
  <2>1. CASE \E r \in Requests, u \in Users : ThreadCall(r, u)
    BY <2>1 DEF ThreadCall, SendBegin, MarkAsRead, CountBegin, FlagBegin
  <2>2. CASE \E r \in Requests : ThreadStep(r)
    BY <2>2 DEF ThreadStep, SendSave, CountAppt, SendEmit, FlagLoad, FlagWrite,
       CountAnswer, ThreadFails
  <2> QED
    BY <1>2, <2>1, <2>2 DEF ThreadMove
<1>3. CASE NoticeCall
  BY <1>3 DEF NoticeCall, ReadNote, DeleteNote, ReadAllNotes, CleanUpNotes,
     MonthPasses
<1>4. CASE AppointmentStep
  BY <1>4, AppointmentMoves
<1>5. CASE NoticeStep
  BY <1>5 DEF NoticeStep, SayBooked, ReloadFails, SayCancelled, MailClient,
     MailProvider, MailFails, InsertNote, PushNote, InsertFails
<1>6. CASE Restart
  BY <1>6 DEF Restart
<1>7. CASE \E s \in Sockets : SocketCall(s) \/ handleDisconnect(s)
  BY <1>7 DEF SocketCall
<1> QED
  BY <1>1, <1>2, <1>3, <1>4, <1>5, <1>6, <1>7, StepCases

LEMMA PresenceNext == Presence /\ [Next]_vars => Presence'
<1> SUFFICES ASSUME Presence, [Next]_vars
             PROVE  Presence'
  OBVIOUS
<1>1. CASE UNCHANGED gatewayVars
  BY <1>1, PresenceSame DEF gatewayVars, Presence, GatewayTypeOK
<1> QED
  BY <1>1, GatewayMoves, ConnectPresence, DisconnectPresence, RoomPresence,
     StopPresence, EmitPresence

\* isUserOnline answers yes exactly of the users whom an emission to their
\* room reaches.
THEOREM PresenceSound == Spec => []PresenceAgrees
<1>1. Presence => PresenceAgrees
  <2> SUFFICES ASSUME Presence, NEW u \in Users
               PROVE  /\ Online(u) <=> InRoom(u, UserRoom(u))
                      /\ SocketsOf(u) = {s \in Sockets : UserOf[s] = u /\ Connected(s)}
    BY DEF PresenceAgrees
  <2>1. SocketsOf(u) = {s \in Sockets : UserOf[s] = u /\ Connected(s)}
    BY DEF Presence
  <2>2. Online(u) => InRoom(u, UserRoom(u))
    BY <2>1 DEF Presence, InRoom, Connected
  <2>3. InRoom(u, UserRoom(u)) => SocketsOf(u) # {}
    BY <2>1 DEF InRoom, Connected
  <2> QED
    BY <2>1, <2>2, <2>3 DEF SocketsOf
<1> QED
  BY InitPresence, PresenceNext, <1>1, PTL DEF Spec

-----------------------------------------------------------------------------
(* Types *)

\* What a request has by the time it gets to a statement.
RequestsKnow ==
    \A r \in Requests :
        LET q == mreq[r] IN
        /\ q.pc \in {"save", "emit"} => q.user \in Users /\ q.appt \in Appts
        /\ q.pc \in {"emit", "load", "write"} => q.msg \in Messages /\ Sent(q.msg)
        /\ q.pc = "count" => q.user \in Users

Typed == TypeOK /\ RequestsKnow

LEMMA OtherIsUser ==
    \A a \in Appts : \A u : Other(a, u) \in Users /\ Client[a] \in Users
                         /\ Provider[a] \in Users
BY DEF Other, Users

LEMMA IdleThreadTyped == IdleThread \in ThreadRequest /\ IdleThread.pc = "idle"
BY DEF IdleThread, ThreadRequest, ThreadPc

LEMMA UnreadCounts ==
    ASSUME ThreadsTypeOK
    PROVE  \A u, a : /\ Unread(u, a) \subseteq Messages
                     /\ Cardinality(Unread(u, a)) \in Nat
<1>1. \A u, a : Unread(u, a) \subseteq Messages
  BY DEF Unread
<1> QED
  BY <1>1, ThreadsAssumption, FS_Subset, FS_CardinalityType

\* The spans are typed, and a request counts for a user.
LEMMA SpanTyped ==
    ASSUME Note, RequestsKnow', Typed
    PROVE  span' \in [Requests -> [all: SUBSET Messages, some: SUBSET Messages]]
<1> DEFINE unread == [u \in Users |-> AllUnread(u)]'
<1>1. \A u \in Users : unread[u] \subseteq Messages
  BY DEF AllUnread, Unread
<1>2. \A r \in Requests : span[r].all \subseteq Messages /\ span[r].some \subseteq Messages
  BY DEF Typed, TypeOK, ThreadsTypeOK
<1>3. \A r \in Requests : mreq'[r].pc = "count" => mreq'[r].user \in Users
  BY DEF RequestsKnow
<1>4. span' = [r \in Requests |->
                 IF mreq'[r].pc # "count" THEN NoSpan
                 ELSE IF mreq[r].pc # "count"
                      THEN [all |-> unread[mreq'[r].user], some |-> unread[mreq'[r].user]]
                      ELSE [all |-> span[r].all \cap unread[mreq'[r].user],
                            some |-> span[r].some \cup unread[mreq'[r].user]]]
  BY DEF Note
<1> HIDE DEF unread
<1> QED
  BY <1>1, <1>2, <1>3, <1>4 DEF NoSpan

-----------------------------------------------------------------------------
(* Steps of the message requests *)

ThreadsKeep ==
    /\ status' \in [Appts -> Statuses]
    /\ message' \in [Messages -> MessageRow]
    /\ mreq' \in [Requests -> ThreadRequest]
    /\ settled' \subseteq Messages
    /\ RequestsKnow'

\* Messages stay sent.
SentStays == \A m \in Messages : Sent(m) => Sent(m)'

LEMMA ThreadGoes ==
    ASSUME Typed, NEW r \in Requests, NEW q \in ThreadRequest, Goes(r, q),
           UNCHANGED <<status, settled>>, SentStays,
           message' \in [Messages -> MessageRow],
           q.pc \in {"save", "emit"} => q.user \in Users /\ q.appt \in Appts,
           q.pc \in {"emit", "load", "write"} => q.msg \in Messages /\ Sent(q.msg)',
           q.pc = "count" => q.user \in Users
    PROVE  ThreadsKeep
<1>1. /\ mreq' \in [Requests -> ThreadRequest]
      /\ mreq'[r] = q
      /\ \A i \in Requests \ {r} : mreq'[i] = mreq[i]
  BY DEF Goes, Typed, TypeOK, ThreadsTypeOK
<1>2. RequestsKnow'
  BY <1>1 DEF RequestsKnow, Typed, SentStays, Sent
<1> QED
  BY <1>1, <1>2 DEF ThreadsKeep, Typed, TypeOK, ThreadsTypeOK

LEMMA SendSaveKeeps ==
    ASSUME Typed, NEW r \in Requests, NEW m \in Messages, SendSave(r, m)
    PROVE  ThreadsKeep /\ SentStays
<1> DEFINE q == [mreq[r] EXCEPT !.pc = "emit", !.msg = m]
<1>1. mreq[r] \in ThreadRequest /\ mreq[r].user \in Users /\ mreq[r].appt \in Appts
  BY DEF Typed, TypeOK, ThreadsTypeOK, RequestsKnow, SendSave
<1>2. /\ q \in ThreadRequest /\ q.pc = "emit" /\ q.msg = m
      /\ q.user \in Users /\ q.appt \in Appts
  BY <1>1 DEF ThreadRequest, ThreadPc
<1>3. /\ message' \in [Messages -> MessageRow]
      /\ message'[m].appt = mreq[r].appt
      /\ \A n \in Messages \ {m} : message'[n] = message[n]
  BY <1>1 DEF SendSave, Typed, TypeOK, ThreadsTypeOK, MessageRow
<1>4. SentStays /\ Sent(m)'
  BY <1>1, <1>3, GatewayAssumption DEF SentStays, Sent
<1>5. Goes(r, q) /\ UNCHANGED <<status, settled>>
  BY DEF SendSave
<1> HIDE DEF q
<1> QED
  BY <1>2, <1>3, <1>4, <1>5, ThreadGoes

LEMMA FlagWriteKeeps ==
    ASSUME Typed, NEW r \in Requests, FlagWrite(r)
    PROVE  ThreadsKeep /\ SentStays
<1> DEFINE m == mreq[r].msg
<1>1. m \in Messages /\ Sent(m) /\ mreq[r].read \in BOOLEAN
  BY DEF Typed, TypeOK, ThreadsTypeOK, RequestsKnow, FlagWrite, ThreadRequest
<1>2. message[m] \in MessageRow
  BY <1>1 DEF Typed, TypeOK, ThreadsTypeOK
<1> DEFINE row == [message[m] EXCEPT !.flagged = TRUE,
                     !.read = IF mreq[r].stale THEN mreq[r].read ELSE message[m].read]
<1>3. /\ row \in MessageRow /\ row.appt = message[m].appt
      /\ message' = [message EXCEPT ![m] = row]
  <2>1. row \in MessageRow
    BY <1>1, <1>2 DEF MessageRow
  <2>2. row.appt = message[m].appt
    BY <1>2 DEF MessageRow
  <2>3. message' = [message EXCEPT ![m] = row]
    BY DEF FlagWrite
  <2> QED
    BY <2>1, <2>2, <2>3
<1> HIDE DEF row
<1>4. /\ message' \in [Messages -> MessageRow]
      /\ message'[m].appt = message[m].appt
      /\ \A n \in Messages \ {m} : message'[n] = message[n]
  BY <1>1, <1>3 DEF Typed, TypeOK, ThreadsTypeOK
<1>5. SentStays
  BY <1>1, <1>4 DEF SentStays, Sent
<1> QED
  BY <1>4, <1>5, IdleThreadTyped, ThreadGoes DEF FlagWrite

LEMMA MarkAsReadKeeps ==
    ASSUME Typed, NEW r \in Requests, NEW u \in Users, NEW a \in Appts,
           MarkAsRead(r, u, a)
    PROVE  ThreadsKeep /\ SentStays
<1>1. \A m \in Messages : [message[m] EXCEPT !.read = TRUE] \in MessageRow
  BY DEF Typed, TypeOK, ThreadsTypeOK, MessageRow
<1>2. /\ message' \in [Messages -> MessageRow]
      /\ \A m \in Messages : message'[m].appt = message[m].appt
  BY <1>1 DEF MarkAsRead, Typed, TypeOK, ThreadsTypeOK, MessageRow
<1>3. SentStays
  BY <1>2 DEF SentStays, Sent
<1>4. RequestsKnow'
  BY <1>3 DEF RequestsKnow, SentStays, MarkAsRead, Typed
<1> QED
  BY <1>2, <1>3, <1>4 DEF ThreadsKeep, MarkAsRead, Unread, Typed, TypeOK, ThreadsTypeOK

LEMMA ThreadKeeps ==
    ASSUME Typed, NEW r \in Requests,
           \/ \E u \in Users : ThreadCall(r, u)
           \/ ThreadStep(r)
    PROVE  ThreadsKeep /\ SentStays
<1>1. /\ mreq[r] \in ThreadRequest
      /\ message \in [Messages -> MessageRow]
      /\ mreq[r].sum \in Nat /\ mreq[r].todo \in SUBSET Appts
  BY DEF Typed, TypeOK, ThreadsTypeOK, ThreadRequest
<1>2. message' = message => SentStays
  BY DEF SentStays, Sent
<1>3. ASSUME NEW u \in Users, NEW a \in Appts, SendBegin(r, u, a)
      PROVE  ThreadsKeep /\ SentStays
  <2> DEFINE q == [IdleThread EXCEPT !.pc = "save", !.user = u, !.appt = a]
  <2>1. q \in ThreadRequest /\ q.pc = "save" /\ q.user = u /\ q.appt = a
    BY DEF IdleThread, ThreadRequest, ThreadPc
  <2>2. Goes(r, q) /\ UNCHANGED <<status, message, settled>>
    BY <1>3 DEF SendBegin
  <2> HIDE DEF q
  <2> QED
    BY <1>1, <1>2, <2>1, <2>2, ThreadGoes
<1>4. ASSUME NEW u \in Users, NEW a \in Appts, CountBegin(r, u, a)
      PROVE  ThreadsKeep /\ SentStays
  <2> DEFINE q == [IdleThread EXCEPT !.pc = "count", !.user = u,
                     !.todo = {b \in Mine(u) : status[b] # "none"}]
  <2>1. q \in ThreadRequest /\ q.pc = "count" /\ q.user = u
    BY DEF IdleThread, ThreadRequest, ThreadPc, Mine
  <2>2. Goes(r, q) /\ UNCHANGED <<status, message, settled>>
    BY <1>4 DEF CountBegin
  <2> HIDE DEF q
  <2> QED
    BY <1>1, <1>2, <2>1, <2>2, ThreadGoes
<1>5. ASSUME NEW u \in Users, NEW m \in Messages, FlagBegin(r, u, m)
      PROVE  ThreadsKeep /\ SentStays
  <2> DEFINE q == [IdleThread EXCEPT !.pc = "load", !.msg = m, !.read = message[m].read]
  <2>1. q \in ThreadRequest /\ q.pc = "load" /\ q.msg = m
    BY <1>1 DEF IdleThread, ThreadRequest, ThreadPc, MessageRow
  <2>2. Goes(r, q) /\ UNCHANGED <<status, message, settled>> /\ Sent(m)
    BY <1>5 DEF FlagBegin
  <2> HIDE DEF q
  <2> QED
    BY <1>1, <1>2, <2>1, <2>2, ThreadGoes DEF SentStays
<1>6. ASSUME NEW a \in Appts, CountAppt(r, a)
      PROVE  ThreadsKeep /\ SentStays
  <2> DEFINE n == Cardinality(Unread(mreq[r].user, a))
             q == [mreq[r] EXCEPT !.todo = mreq[r].todo \ {a}, !.sum = mreq[r].sum + n]
  <2>1. n \in Nat /\ mreq[r].user \in Users /\ mreq[r].pc = "count"
    BY <1>6, UnreadCounts DEF Typed, TypeOK, RequestsKnow, CountAppt
  <2>2. Goes(r, q) /\ UNCHANGED <<status, message, settled>>
    BY <1>6 DEF CountAppt
  <2> HIDE DEF n
  <2>3. mreq[r].sum + n \in Nat /\ mreq[r].todo \ {a} \in SUBSET Appts
    BY <1>1, <2>1
  <2>4. q \in ThreadRequest /\ q.pc = "count" /\ q.user \in Users
    BY <1>1, <2>1, <2>3 DEF ThreadRequest
  <2> HIDE DEF q
  <2> QED
    BY <1>1, <1>2, <2>2, <2>4, ThreadGoes
<1>7. CASE FlagLoad(r)
  <2> DEFINE q == IF message[mreq[r].msg].flagged
                     /\ message[mreq[r].msg].read = mreq[r].read
                  THEN IdleThread
                  ELSE [mreq[r] EXCEPT !.pc = "write",
                         !.stale = message[mreq[r].msg].read # mreq[r].read]
  <2>1. mreq[r].msg \in Messages /\ Sent(mreq[r].msg)
    BY <1>7 DEF FlagLoad, Typed, RequestsKnow
  <2>2. q \in ThreadRequest /\ q.pc \in {"idle", "write"}
        /\ (q.pc = "write" => q.msg = mreq[r].msg)
    BY <1>1, IdleThreadTyped DEF ThreadRequest, ThreadPc
  <2>3. Goes(r, q) /\ UNCHANGED <<status, message, settled>>
    BY <1>7 DEF FlagLoad
  <2> HIDE DEF q
  <2> QED
    BY <1>1, <1>2, <2>1, <2>2, <2>3, ThreadGoes DEF SentStays
<1>8. CASE SendEmit(r) \/ CountAnswer(r) \/ ThreadFails(r)
  BY <1>1, <1>2, <1>8, IdleThreadTyped, ThreadGoes DEF SendEmit, CountAnswer, ThreadFails
<1> QED
  BY <1>3, <1>4, <1>5, <1>6, <1>7, <1>8, SendSaveKeeps, FlagWriteKeeps,
     MarkAsReadKeeps DEF ThreadCall, ThreadStep

-----------------------------------------------------------------------------
(* Steps of the notices *)

\* Rows stay rows, and never become those of another user.
NotesKeep ==
    \A e \in Events :
        /\ note'[e] \in NoteRow
        /\ note[e].state # "none" => /\ note'[e].state # "none"
                                     /\ note'[e].to = note[e].to

LEMMA NotesTyped ==
    ASSUME Typed
    PROVE  \A e \in Events :
              /\ note[e] \in NoteRow
              /\ note[e].state # "none" => note[e].to \in Users
BY DEF Typed, TypeOK, NoticesTypeOK, NoteRow

LEMMA StageWrite ==
    ASSUME Typed, NEW e \in Events, NEW from, NEW to \in Stages, Stage(e, from, to)
    PROVE  /\ stage' \in [Events -> Stages]
           /\ stage[e] = from /\ stage'[e] = to
           /\ \A f \in Events \ {e} : stage'[f] = stage[f]
BY DEF Typed, TypeOK, NoticesTypeOK, Stage

\* One statement that changes only states, read marks and ages of rows.
LEMMA NotesUpdated ==
    ASSUME Typed,
           note' \in [Events -> NoteRow],
           \A e \in Events : /\ note'[e].to = note[e].to
                             /\ note'[e].state = "none" <=> note[e].state = "none",
           UNCHANGED <<cancel, stage, mailer, mailed>>
    PROVE  NoticesTypeOK' /\ NotesKeep
<1>1. NotesKeep
  BY DEF NotesKeep
<1>2. NoticesTypeOK
  BY DEF Typed, TypeOK
<1> QED
  BY <1>1, <1>2 DEF NoticesTypeOK

LEMMA NoticeCallKeeps ==
    ASSUME Typed, NoticeCall
    PROVE  /\ NoticesTypeOK' /\ NotesKeep
           /\ \A e \in Events : /\ note'[e].to = note[e].to
                                /\ note'[e].state = "none" <=> note[e].state = "none"
           /\ UNCHANGED <<gatewayVars, cancel, stage, mailer, mailed>>
<1> DEFINE Keeps == /\ note' \in [Events -> NoteRow]
                    /\ \A e \in Events :
                          /\ note'[e].to = note[e].to
                          /\ note'[e].state = "none" <=> note[e].state = "none"
<1>1. \A n \in NoteRow :
         /\ [n EXCEPT !.read = TRUE] \in NoteRow
         /\ [n EXCEPT !.old = TRUE] \in NoteRow
         /\ [n EXCEPT !.state = "gone"] \in NoteRow
         /\ [n EXCEPT !.read = TRUE].to = n.to
         /\ [n EXCEPT !.old = TRUE].to = n.to
         /\ [n EXCEPT !.state = "gone"].to = n.to
         /\ [n EXCEPT !.state = "gone"].state = "gone"
         /\ [n EXCEPT !.read = TRUE].state = n.state
         /\ [n EXCEPT !.old = TRUE].state = n.state
  BY DEF NoteRow
<1>2. /\ note \in [Events -> NoteRow]
      /\ \A e \in Events : note[e] \in NoteRow
  BY DEF Typed, TypeOK, NoticesTypeOK
<1>3. ASSUME NEW e \in Events, ReadNote(e)
      PROVE  Keeps
  <2>1. note' = [note EXCEPT ![e] = [note[e] EXCEPT !.read = TRUE]]
    BY <1>2, <1>3 DEF ReadNote
  <2>2. [note[e] EXCEPT !.read = TRUE] \in NoteRow
    BY <1>1, <1>2
  <2> QED
    BY <1>1, <1>2, <2>1, <2>2
<1>4. ASSUME NEW e \in Events, DeleteNote(e)
      PROVE  Keeps
  <2>1. note' = [note EXCEPT ![e] = [note[e] EXCEPT !.state = "gone"]]
    BY <1>2, <1>4 DEF DeleteNote
  <2>2. [note[e] EXCEPT !.state = "gone"] \in NoteRow
    BY <1>1, <1>2
  <2> QED
    BY <1>1, <1>2, <1>4, <2>1, <2>2 DEF DeleteNote, Stored
<1>5. ASSUME NEW u \in Users, ReadAllNotes(u)
      PROVE  Keeps
  <2>1. note' = [e \in Events |->
                   IF note[e].state = "stored" /\ note[e].to = u
                   THEN [note[e] EXCEPT !.read = TRUE] ELSE note[e]]
    BY <1>5 DEF ReadAllNotes, ForNotes
  <2> QED
    BY <1>1, <1>2, <2>1
<1>6. ASSUME CleanUpNotes
      PROVE  Keeps
  BY <1>1, <1>2, <1>6 DEF CleanUpNotes, ForNotes, Cleanable
<1>7. ASSUME MonthPasses
      PROVE  Keeps
  BY <1>1, <1>2, <1>7 DEF MonthPasses, ForNotes
<1>8. UNCHANGED <<gatewayVars, cancel, stage, mailer, mailed>>
  BY DEF NoticeCall, ReadNote, DeleteNote, ReadAllNotes, CleanUpNotes, MonthPasses
<1>9. Keeps
  BY <1>3, <1>4, <1>5, <1>6, <1>7 DEF NoticeCall
<1> QED
  BY <1>8, <1>9, NotesUpdated

-----------------------------------------------------------------------------
(* What is announced has happened *)

Announcements ==
    ({"new-message", "message-notification"} \X Messages)
    \cup ({"new-booking"} \X Appts)
    \cup ({"booking-cancelled"} \X Cancels)
    \cup ({"notification"} \X Events)

Heard == \A u \in Users : \A e \in heard[u] : e \in Announcements /\ Happened(e)

\* An event waiting to be emitted, a handler at work: the database is ahead.
BookingKnown(a) ==
    /\ stage[a] # "saving"
    /\ stage[a] # "idle" \/ mailer[a] # "idle" \/ mailed[a] # {} => status[a] # "none"
    /\ a \in completing => status[a] # "none"

\* A call under way, or over with success, cancels what was booked, for a party.
CancelKnown(x) ==
    \/ cancel[x] = NoCancel /\ stage[x] = "idle"
    \/ /\ cancel[x].appt \in Appts
       /\ cancel[x].by \in {Client[cancel[x].appt], Provider[cancel[x].appt]}
       /\ status[cancel[x].appt] # "none"

NoteKnown(e) == stage[e] = "push" => note[e].state # "none"

Announced ==
    /\ \A a \in Appts : BookingKnown(a)
    /\ \A x \in Cancels : CancelKnown(x)
    /\ \A e \in Events : NoteKnown(e)

Inv == Typed /\ Presence /\ Heard /\ Announced /\ OtherPartyTold

\* What has happened is not undone.
Later ==
    /\ SentStays
    /\ \A a \in Appts : status[a] # "none" => status'[a] # "none"
    /\ \A x \in Cancels : Committed(x) => Committed(x)' /\ cancel'[x] = cancel[x]
    /\ \A e \in Events : note[e].state # "none" => note'[e].state # "none"

LEMMA EventIds ==
    /\ Appts \subseteq Events /\ Cancels \subseteq Events
    /\ Events = Appts \cup Cancels
    /\ \A x \in Cancels : x \notin Appts
    /\ Null \notin Appts /\ Null \notin Users
BY GatewayAssumption, NoticesAssumption DEF Events

LEMMA HappenedStays ==
    ASSUME Later, NEW e \in Announcements, Happened(e)
    PROVE  Happened(e)'
<1>1. CASE e \in {"new-message", "message-notification"} \X Messages
  BY <1>1 DEF Later, SentStays, Happened
<1>2. CASE e \in {"new-booking"} \X Appts
  <2>1. PICK a \in Appts : e = <<"new-booking", a>>
    BY <1>2
  <2>2. status'[a] # "none"
    BY <2>1 DEF Later, Happened
  <2> QED
    BY <2>1, <2>2 DEF Happened
<1>3. CASE e \in {"booking-cancelled"} \X Cancels
  <2>1. PICK x \in Cancels : e = <<"booking-cancelled", x>>
    BY <1>3
  <2>2. Committed(x)'
    BY <2>1 DEF Later, Happened
  <2>3. Happened(<<"booking-cancelled", x>>)'
    BY <2>2 DEF Happened
  <2> QED
    BY <2>1, <2>3
<1>4. CASE e \in {"notification"} \X Events
  <2>1. PICK f \in Events : e = <<"notification", f>>
    BY <1>4
  <2>2. note'[f].state # "none"
    BY <2>1 DEF Later, Happened
  <2> QED
    BY <2>1, <2>2 DEF Happened
<1> QED
  BY <1>1, <1>2, <1>3, <1>4 DEF Announcements

LEMMA HeardSame ==
    ASSUME Heard, Later, UNCHANGED heard
    PROVE  Heard'
BY HappenedStays DEF Heard

LEMMA HeardMore ==
    ASSUME Heard, Later, NEW E, Emit(E),
           \A x \in E : x[2] \in Announcements /\ Happened(x[2])'
    PROVE  Heard'
<1>1. \A u \in Users : \A e \in heard'[u] : e \in heard[u] \/ \E x \in E : e = x[2]
  BY DEF Emit
<1> QED
  BY <1>1, HappenedStays DEF Heard

\* The parties of a cancellation, where no cancellation is told or noted.
LEMMA OtherSame ==
    ASSUME OtherPartyTold, Later,
           \A u \in Users, x \in Cancels :
              <<"booking-cancelled", x>> \in heard'[u]
                  => <<"booking-cancelled", x>> \in heard[u],
           \A x \in Cancels : note'[x].to = note[x].to
    PROVE  OtherPartyTold'
BY DEF OtherPartyTold, Other, Later

LEMMA RecipientIsOther ==
    ASSUME Announced, NEW x \in Cancels, stage[x] \notin {"idle", "saving"}
    PROVE  /\ Committed(x)
           /\ cancel[x].appt \in Appts
           /\ Recipient(x) = Other(cancel[x].appt, cancel[x].by)
<1>1. cancel[x].appt \in Appts
  BY DEF Announced, CancelKnown
<1> QED
  BY <1>1, EventIds DEF Committed, Recipient, OtherParty, Role, Other

LEMMA RecipientIsUser ==
    ASSUME Announced, NEW e \in Events, stage[e] \notin {"idle", "saving"}
    PROVE  Recipient(e) \in Users /\ Recipient(e) # Null
<1>1. CASE e \in Appts
  BY <1>1, EventIds, OtherIsUser DEF Recipient
<1>2. CASE e \in Cancels
  BY <1>2, EventIds, OtherIsUser, RecipientIsOther
<1> QED
  BY <1>1, <1>2, EventIds

\* An event goes on, after the commit.
LEMMA StageMoves ==
    ASSUME Typed, Announced, NEW e \in Events, NEW from \in Stages \ {"idle"},
           NEW to \in Stages \ {"saving"}, Stage(e, from, to),
           SentStays, UNCHANGED <<cancel, mailed, completing>>,
           \A a \in Appts : status[a] # "none" => status'[a] # "none",
           \A a \in Appts : mailer'[a] # "idle" => mailer[a] # "idle" \/ a = e,
           \A f \in Events : note[f].state # "none" => note'[f].state # "none",
           to = "push" => note'[e].state # "none"
    PROVE  Announced' /\ Later /\ stage' \in [Events -> Stages]
<1>1. /\ stage' \in [Events -> Stages]
      /\ stage[e] = from /\ stage'[e] = to
      /\ \A f \in Events \ {e} : stage'[f] = stage[f]
  BY StageWrite
<1>2. \A a \in Appts : BookingKnown(a)'
  BY <1>1, EventIds DEF Announced, BookingKnown
<1>3. \A x \in Cancels : CancelKnown(x)'
  BY <1>1, EventIds DEF Announced, CancelKnown
<1>4. \A f \in Events : NoteKnown(f)'
  BY <1>1 DEF Announced, NoteKnown
<1>5. \A x \in Cancels : Committed(x) => Committed(x)' /\ cancel'[x] = cancel[x]
  BY <1>1, EventIds DEF Committed
<1> QED
  BY <1>1, <1>2, <1>3, <1>4, <1>5 DEF Announced, Later

\* The columns that steps of the listeners and the mailer leave alone.
LEMMA NoticeRest ==
    ASSUME Typed, OnlyNotices, Presence', calls' = calls,
           span' \in [Requests -> [all: SUBSET Messages, some: SUBSET Messages]]
    PROVE  /\ SentStays /\ UNCHANGED <<status, completing>>
           /\ NoticesTypeOK' => Typed'
BY DEF Typed, TypeOK, ThreadsTypeOK, RequestsKnow, OnlyNotices, threadRows, SentStays,
   Sent, Presence

LEMMA NoticesTypes ==
    ASSUME Typed
    PROVE  /\ cancel \in [Cancels -> CancelCall]
           /\ stage \in [Events -> Stages]
           /\ note \in [Events -> NoteRow]
           /\ mailer \in [Appts -> {"idle", "client", "provider"}]
           /\ mailed \in [Appts -> SUBSET Users]
           /\ \A e \in Events : note[e].state # "none" => note[e].to # Null
BY DEF Typed, TypeOK, NoticesTypeOK

LEMMA SayBookedInv ==
    ASSUME Inv, NEW a \in Appts, SayBooked(a), OnlyNotices, Presence', calls' = calls,
           span' \in [Requests -> [all: SUBSET Messages, some: SUBSET Messages]]
    PROVE  Inv'
<1> USE DEF Inv
<1>1. /\ Stage(a, "unsaid", "insert") /\ stage[a] = "unsaid"
      /\ mailer' = [mailer EXCEPT ![a] = "client"]
      /\ UNCHANGED <<cancel, note, mailed>>
      /\ Emit({ToUser(Recipient(a), <<"new-booking", a>>)})
  BY DEF SayBooked, Stage
<1>2. Announced' /\ Later /\ stage' \in [Events -> Stages]
  <2>1. \A b \in Appts : mailer'[b] # "idle" => mailer[b] # "idle" \/ b = a
    BY <1>1, NoticesTypes
  <2> QED
    BY <1>1, <2>1, EventIds, NoticeRest, StageMoves DEF Stages
<1>3. NoticesTypeOK'
  BY <1>1, <1>2, NoticesTypes DEF NoticesTypeOK
<1>4. Heard'
  <2>1. /\ <<"new-booking", a>> \in Announcements
        /\ Happened(<<"new-booking", a>>)'
    BY <1>1, NoticeRest DEF Announcements, Happened, Announced, BookingKnown
  <2> QED
    BY <1>1, <1>2, <2>1, HeardMore DEF ToUser
<1>5. OtherPartyTold'
  <2>1. \A u \in Users, x \in Cancels :
           <<"booking-cancelled", x>> \in heard'[u] => <<"booking-cancelled", x>> \in heard[u]
    BY <1>1 DEF Emit, ToUser
  <2> QED
    BY <1>1, <1>2, <2>1, OtherSame
<1> QED
  BY <1>2, <1>3, <1>4, <1>5, NoticeRest

LEMMA SayCancelledInv ==
    ASSUME Inv, NEW x \in Cancels, SayCancelled(x), OnlyNotices, Presence', calls' = calls,
           span' \in [Requests -> [all: SUBSET Messages, some: SUBSET Messages]]
    PROVE  Inv'
<1> USE DEF Inv
<1>1. /\ Stage(x, "unsaid", "insert") /\ stage[x] = "unsaid"
      /\ UNCHANGED <<cancel, note, mailer, mailed>>
      /\ Emit({ToUser(Recipient(x), <<"booking-cancelled", x>>)})
  BY DEF SayCancelled, Stage
<1>2. Announced' /\ Later /\ stage' \in [Events -> Stages]
  BY <1>1, EventIds, NoticeRest, StageMoves DEF Stages
<1>3. NoticesTypeOK'
  BY <1>1, <1>2, NoticesTypes DEF NoticesTypeOK
<1>4. /\ Committed(x)' /\ cancel'[x] = cancel[x]
      /\ Recipient(x) = Other(cancel[x].appt, cancel[x].by)
      /\ Recipient(x) \in Users
  BY <1>1, <1>2, EventIds, RecipientIsOther, RecipientIsUser DEF Later
<1>5. Heard'
  <2>1. <<"booking-cancelled", x>> \in Announcements
    BY DEF Announcements
  <2>2. Happened(<<"booking-cancelled", x>>)'
    BY <1>4 DEF Happened
  <2> QED
    BY <1>1, <1>2, <2>1, <2>2, HeardMore DEF ToUser
<1>6. ASSUME NEW u \in Users, NEW y \in Cancels, <<"booking-cancelled", y>> \in heard'[u]
      PROVE  <<"booking-cancelled", y>> \in heard[u] \/ (y = x /\ u = Recipient(x))
  <2>1. \/ <<"booking-cancelled", y>> \in heard[u]
        \/ /\ <<"booking-cancelled", y>> = <<"booking-cancelled", x>>
           /\ InRoom(u, UserRoom(Recipient(x)))
    BY <1>1, <1>6 DEF Emit, ToUser
  <2>2. InRoom(u, UserRoom(Recipient(x))) => u = Recipient(x)
    BY <1>4 DEF InRoom, Presence, OwnRooms
  <2> QED
    BY <2>1, <2>2
<1>7. OtherPartyTold'
  <2> SUFFICES ASSUME NEW y \in Cancels, NEW u \in Users,
                      <<"booking-cancelled", y>> \in heard'[u] \/ note'[y].to = u
               PROVE  /\ Committed(y)'
                      /\ u = Other(cancel'[y].appt, cancel'[y].by)
    BY DEF OtherPartyTold, Other
  <2>1. CASE y = x /\ u = Recipient(x)
    BY <1>4, <2>1
  <2>2. CASE <<"booking-cancelled", y>> \in heard[u] \/ note[y].to = u
    BY <1>2, <2>2 DEF OtherPartyTold, Later
  <2> QED
    BY <1>1, <1>6, <2>1, <2>2
<1> QED
  BY <1>2, <1>3, <1>5, <1>7, NoticeRest

LEMMA InsertNoteInv ==
    ASSUME Inv, NEW e \in Events, InsertNote(e), OnlyNotices, Presence', calls' = calls,
           span' \in [Requests -> [all: SUBSET Messages, some: SUBSET Messages]]
    PROVE  Inv'
<1> USE DEF Inv
<1> DEFINE n == [state |-> "stored", to |-> Recipient(e), read |-> FALSE, old |-> FALSE]
<1>1. /\ Stage(e, "insert", "push") /\ stage[e] = "insert"
      /\ note' = [note EXCEPT ![e] = n]
      /\ UNCHANGED <<gatewayVars, cancel, mailer, mailed>>
  BY DEF InsertNote, Stage
<1>2. /\ n \in NoteRow /\ n.state = "stored" /\ n.to = Recipient(e)
      /\ Recipient(e) \in Users /\ Recipient(e) # Null
  BY <1>1, RecipientIsUser DEF NoteRow
<1> HIDE DEF n
<1>3. /\ note' \in [Events -> NoteRow]
      /\ note'[e] = n
      /\ \A f \in Events \ {e} : note'[f] = note[f]
  BY <1>1, <1>2, NoticesTypes
<1>4. Announced' /\ Later /\ stage' \in [Events -> Stages]
  <2>1. /\ \A f \in Events : note[f].state # "none" => note'[f].state # "none"
        /\ note'[e].state # "none"
    BY <1>2, <1>3
  <2> QED
    BY <1>1, <2>1, EventIds, NoticeRest, StageMoves DEF Stages
<1>5. NoticesTypeOK'
  <2>1. \A f \in Events : note'[f].state # "none" => note'[f].to # Null
    BY <1>2, <1>3, NoticesTypes
  <2> QED
    BY <1>1, <1>3, <1>4, <2>1, NoticesTypes DEF NoticesTypeOK
<1>6. Heard'
  BY <1>1, <1>4, HeardSame DEF gatewayVars
<1>7. OtherPartyTold'
  <2> SUFFICES ASSUME NEW y \in Cancels, NEW u \in Users,
                      <<"booking-cancelled", y>> \in heard'[u] \/ note'[y].to = u
               PROVE  /\ Committed(y)'
                      /\ u = Other(cancel'[y].appt, cancel'[y].by)
    BY DEF OtherPartyTold, Other
  <2>1. CASE y = e /\ u = Recipient(e)
    <3>1. Committed(y) /\ Recipient(y) = Other(cancel[y].appt, cancel[y].by)
      BY <1>1, <2>1, RecipientIsOther
    <3> QED
      BY <1>4, <2>1, <3>1 DEF Later
  <2>2. CASE <<"booking-cancelled", y>> \in heard[u] \/ note[y].to = u
    BY <1>4, <2>2 DEF OtherPartyTold, Later
  <2> QED
    BY <1>1, <1>2, <1>3, <2>1, <2>2, EventIds DEF gatewayVars
<1> QED
  BY <1>4, <1>5, <1>6, <1>7, NoticeRest

LEMMA PushNoteInv ==
    ASSUME Inv, NEW e \in Events, PushNote(e), OnlyNotices, Presence', calls' = calls,
           span' \in [Requests -> [all: SUBSET Messages, some: SUBSET Messages]]
    PROVE  Inv'
<1> USE DEF Inv
<1>1. /\ Stage(e, "push", "idle") /\ stage[e] = "push"
      /\ UNCHANGED <<cancel, note, mailer, mailed>>
      /\ Emit({ToUser(note[e].to, <<"notification", e>>)})
  BY DEF PushNote, Stage
<1>2. Announced' /\ Later /\ stage' \in [Events -> Stages]
  BY <1>1, EventIds, NoticeRest, StageMoves DEF Stages
<1>3. NoticesTypeOK'
  BY <1>1, <1>2, NoticesTypes DEF NoticesTypeOK
<1>4. Heard'
  <2>1. /\ <<"notification", e>> \in Announcements
        /\ Happened(<<"notification", e>>)'
    BY <1>1 DEF Announcements, Happened, Announced, NoteKnown
  <2> QED
    BY <1>1, <1>2, <2>1, HeardMore DEF ToUser
<1>5. OtherPartyTold'
  <2>1. \A u \in Users, x \in Cancels :
           <<"booking-cancelled", x>> \in heard'[u] => <<"booking-cancelled", x>> \in heard[u]
    BY <1>1 DEF Emit, ToUser
  <2> QED
    BY <1>1, <1>2, <2>1, OtherSame
<1> QED
  BY <1>2, <1>3, <1>4, <1>5, NoticeRest

\* The steps that tell nobody anything: two failures, and the mailer.
LEMMA QuietNoticeInv ==
    ASSUME Inv, OnlyNotices, Presence', calls' = calls,
           span' \in [Requests -> [all: SUBSET Messages, some: SUBSET Messages]],
           \/ \E a \in Appts : \/ ReloadFails(a) \/ MailClient(a)
                               \/ MailProvider(a) \/ MailFails(a)
           \/ \E e \in Events : InsertFails(e)
    PROVE  Inv'
<1> USE DEF Inv
<1>1. ASSUME Announced', Later, NoticesTypeOK', UNCHANGED <<gatewayVars, note>>
      PROVE  Inv'
  <2>1. Heard' /\ OtherPartyTold'
    BY <1>1, HeardSame, OtherSame DEF gatewayVars
  <2> QED
    BY <1>1, <2>1, NoticeRest
<1>2. ASSUME NEW e \in Events, NEW from \in {"unsaid", "insert"},
             Stage(e, from, "idle"), UNCHANGED <<gatewayVars, cancel, note, mailer, mailed>>
      PROVE  Inv'
  <2>1. Announced' /\ Later /\ stage' \in [Events -> Stages]
    BY <1>2, NoticeRest, StageMoves DEF Stages
  <2>2. NoticesTypeOK'
    BY <1>2, <2>1, NoticesTypes DEF NoticesTypeOK
  <2> QED
    BY <1>1, <1>2, <2>1, <2>2
<1>3. ASSUME NEW a \in Appts, ReloadFails(a)
      PROVE  Inv'
  BY <1>2, <1>3, EventIds DEF ReloadFails
<1>4. ASSUME NEW e \in Events, InsertFails(e)
      PROVE  Inv'
  BY <1>2, <1>4 DEF InsertFails
<1>5. ASSUME NEW a \in Appts, MailClient(a) \/ MailProvider(a) \/ MailFails(a)
      PROVE  Inv'
  <2>1. /\ UNCHANGED <<gatewayVars, cancel, stage, note>>
        /\ mailer[a] # "idle"
        /\ mailer' \in [Appts -> {"idle", "client", "provider"}]
        /\ mailed' \in [Appts -> SUBSET Users]
        /\ \A b \in Appts \ {a} : mailer'[b] = mailer[b] /\ mailed'[b] = mailed[b]
    <3>1. Client[a] \in Users /\ Provider[a] \in Users
      BY DEF Users
    <3> QED
      BY <1>5, <3>1, NoticesTypes DEF MailClient, MailProvider, MailFails
  <2>2. NoticesTypeOK'
    BY <2>1, NoticesTypes DEF NoticesTypeOK
  <2>3. Later
    BY <2>1, NoticeRest DEF Later, Committed
  <2>4. Announced'
    BY <2>1, NoticeRest DEF Announced, BookingKnown, CancelKnown, NoteKnown
  <2> QED
    BY <1>1, <2>1, <2>2, <2>3, <2>4
<1> QED
  BY <1>3, <1>4, <1>5

\* Steps of the listeners and the mailer.
LEMMA NoticeStepInv ==
    ASSUME Inv, NoticeStep, OnlyNotices, Presence', calls' = calls,
           span' \in [Requests -> [all: SUBSET Messages, some: SUBSET Messages]]
    PROVE  Inv'
BY SayBookedInv, SayCancelledInv, InsertNoteInv, PushNoteInv, QuietNoticeInv
   DEF NoticeStep

\* Steps of the message requests.
LEMMA ThreadInv ==
    ASSUME Inv, NEW r \in Requests, ThreadMove(r),
           OnlyThreads, Presence', calls' \in 0..MaxCalls,
           span' \in [Requests -> [all: SUBSET Messages, some: SUBSET Messages]]
    PROVE  Inv'
<1>1. ThreadsKeep /\ SentStays
  BY ThreadKeeps DEF Inv, ThreadMove
<1>2. /\ UNCHANGED status
      /\ heard' = heard \/ SendEmit(r)
  BY DEF ThreadMove, ThreadCall, ThreadStep, SendBegin, MarkAsRead, CountBegin,
     FlagBegin, SendSave, CountAppt, SendEmit, FlagLoad, FlagWrite, CountAnswer,
     ThreadFails, gatewayVars
<1>3. /\ UNCHANGED <<cancel, stage, note, mailer, mailed, completing>>
      /\ Later
  BY <1>1, <1>2 DEF Later, Committed, OnlyThreads, noticeVars
<1>4. Heard' /\ OtherPartyTold'
  <2>1. CASE SendEmit(r)
    <3>1. PICK m \in Messages : m = mreq[r].msg /\ Sent(m)
      BY <2>1 DEF Inv, Typed, RequestsKnow, SendEmit
    <3>2. Sent(m)'
      BY <1>1, <3>1 DEF SentStays
    <3>3. /\ <<"new-message", m>> \in Announcements /\ Happened(<<"new-message", m>>)'
          /\ <<"message-notification", m>> \in Announcements
          /\ Happened(<<"message-notification", m>>)'
      BY <3>1, <3>2 DEF Announcements, Happened
    <3>4. PICK x, y : Emit({<<x, <<"new-message", m>>>>,
                            <<y, <<"message-notification", m>>>>})
      BY <2>1, <3>1 DEF SendEmit, ToAppt, ToUser
    <3>5. Heard'
      BY <1>3, <3>3, <3>4, HeardMore DEF Inv
    <3>6. \A u \in Users, z \in Cancels : <<"booking-cancelled", z>> \in heard'[u]
                                            => <<"booking-cancelled", z>> \in heard[u]
      BY <3>4 DEF Emit
    <3> QED
      BY <1>3, <3>5, <3>6, OtherSame DEF Inv
  <2>2. CASE heard' = heard
    BY <1>3, <2>2, HeardSame, OtherSame DEF Inv
  <2> QED
    BY <1>2, <2>1, <2>2
<1>5. Announced'
  BY <1>2, <1>3 DEF Inv, Announced, BookingKnown, CancelKnown, NoteKnown
<1>6. Typed'
  BY <1>1, <1>3 DEF Inv, Typed, TypeOK, ThreadsKeep, ThreadsTypeOK, NoticesTypeOK, Presence
<1> QED
  BY <1>4, <1>5, <1>6 DEF Inv

\* What users and the weekly job do with the notifications.
LEMMA NoticeCallInv ==
    ASSUME Inv, NoticeCall, OnlyNotices, Presence', calls' \in 0..MaxCalls,
           span' \in [Requests -> [all: SUBSET Messages, some: SUBSET Messages]]
    PROVE  Inv'
<1>1. /\ NoticesTypeOK' /\ NotesKeep
      /\ \A e \in Events : note'[e].to = note[e].to
      /\ UNCHANGED <<connectedUsers, rooms, heard>>
      /\ UNCHANGED <<cancel, stage, mailer, mailed>>
      /\ UNCHANGED <<status, message, mreq, settled, completing>>
  BY NoticeCallKeeps DEF Inv, OnlyNotices, threadRows, gatewayVars
<1>2. Later
  BY <1>1 DEF Later, NotesKeep, SentStays, Sent, Committed
<1>3. Heard'
  BY <1>1, <1>2, HeardSame DEF Inv
<1>4. OtherPartyTold'
  BY <1>1, <1>2, EventIds, OtherSame DEF Inv
<1>5. Announced'
  BY <1>1 DEF Inv, Announced, BookingKnown, CancelKnown, NoteKnown, NotesKeep
<1>6. Typed'
  BY <1>1 DEF Inv, Typed, TypeOK, ThreadsTypeOK, RequestsKnow, Sent, Presence
<1> QED
  BY <1>3, <1>4, <1>5, <1>6 DEF Inv

\* A step of an appointment: who is told stays, if what has happened does.
LEMMA AppointmentRest ==
    ASSUME Inv, AppointmentStep, Presence', calls' \in 0..MaxCalls,
           span' \in [Requests -> [all: SUBSET Messages, some: SUBSET Messages]],
           status' \in [Appts -> Statuses], completing' \subseteq Appts,
           cancel' \in [Cancels -> CancelCall], stage' \in [Events -> Stages],
           Announced',
           \A a \in Appts : status[a] # "none" => status'[a] # "none",
           \A x \in Cancels : Committed(x) => Committed(x)' /\ cancel'[x] = cancel[x]
    PROVE  Inv'
<1>1. /\ UNCHANGED <<connectedUsers, rooms, heard, message, mreq, settled>>
      /\ UNCHANGED <<note, mailer, mailed>>
  BY AppointmentMoves DEF gatewayVars
<1>2. Later
  BY <1>1 DEF Later, SentStays, Sent
<1>3. Heard' /\ OtherPartyTold'
  BY <1>1, <1>2, HeardSame, OtherSame DEF Inv
<1>4. Typed'
  BY <1>1 DEF Inv, Typed, TypeOK, ThreadsTypeOK, NoticesTypeOK, RequestsKnow, Sent,
     Presence
<1> QED
  BY <1>3, <1>4 DEF Inv

LEMMA BookInv ==
    ASSUME Inv, NEW a \in Appts, Book(a)
    PROVE  /\ status' \in [Appts -> Statuses] /\ completing' \subseteq Appts
           /\ cancel' \in [Cancels -> CancelCall] /\ stage' \in [Events -> Stages]
           /\ Announced'
           /\ \A b \in Appts : status[b] # "none" => status'[b] # "none"
           /\ \A x \in Cancels : Committed(x) => Committed(x)' /\ cancel'[x] = cancel[x]
<1>1. /\ status \in [Appts -> Statuses] /\ completing \subseteq Appts
      /\ cancel \in [Cancels -> CancelCall]
      /\ Typed /\ Announced
  BY DEF Inv, Typed, TypeOK, ThreadsTypeOK, NoticesTypeOK
<1>2. /\ stage' \in [Events -> Stages]
      /\ stage[a] = "idle" /\ stage'[a] = "unsaid"
      /\ \A e \in Events \ {a} : stage'[e] = stage[e]
  BY <1>1, EventIds, StageWrite DEF Book, Stages
<1>3. /\ status' = [status EXCEPT ![a] = "CONFIRMED"]
      /\ UNCHANGED <<cancel, note, mailer, mailed, completing>>
  BY DEF Book
<1>4. status' \in [Appts -> Statuses] /\ \A b \in Appts : status[b] # "none" => status'[b] # "none"
  BY <1>1, <1>3 DEF Statuses
<1>5. \A b \in Appts : BookingKnown(b)'
  BY <1>1, <1>2, <1>3, EventIds DEF Announced, BookingKnown
<1>6. \A x \in Cancels : CancelKnown(x)' /\ stage'[x] = stage[x]
  BY <1>1, <1>2, <1>3, <1>4, EventIds DEF Announced, CancelKnown
<1>7. \A e \in Events : NoteKnown(e)'
  BY <1>1, <1>2, <1>3 DEF Announced, NoteKnown
<1> QED
  BY <1>1, <1>2, <1>3, <1>4, <1>5, <1>6, <1>7 DEF Announced, Committed

LEMMA CompleteInv ==
    ASSUME Inv, NEW a \in Appts, CompleteBegin(a) \/ CompleteSave(a) \/ CompleteFails(a)
    PROVE  /\ status' \in [Appts -> Statuses] /\ completing' \subseteq Appts
           /\ cancel' \in [Cancels -> CancelCall] /\ stage' \in [Events -> Stages]
           /\ Announced'
           /\ \A b \in Appts : status[b] # "none" => status'[b] # "none"
           /\ \A x \in Cancels : Committed(x) => Committed(x)' /\ cancel'[x] = cancel[x]
<1>1. /\ status \in [Appts -> Statuses] /\ completing \subseteq Appts
      /\ cancel \in [Cancels -> CancelCall] /\ stage \in [Events -> Stages]
      /\ Announced
  BY DEF Inv, Typed, TypeOK, ThreadsTypeOK, NoticesTypeOK
<1>2. /\ status' \in {status, [status EXCEPT ![a] = "COMPLETED"]}
      /\ completing' \subseteq completing \cup {a}
      /\ completing' \subseteq completing \/ status[a] # "none"
      /\ UNCHANGED <<cancel, stage, note, mailer, mailed>>
  BY DEF CompleteBegin, CompleteSave, CompleteFails, noticeVars
<1>3. status' \in [Appts -> Statuses] /\ \A b \in Appts : status[b] # "none" => status'[b] # "none"
  BY <1>1, <1>2 DEF Statuses
<1>4. Announced'
  BY <1>1, <1>2, <1>3 DEF Announced, BookingKnown, CancelKnown, NoteKnown
<1> QED
  BY <1>1, <1>2, <1>3, <1>4 DEF Committed

LEMMA CancelInv ==
    ASSUME Inv, NEW x \in Cancels,
           \/ CancelCommit(x) \/ CancelFails(x)
           \/ \E a \in Appts, u \in Users : CancelBegin(x, a, u)
    PROVE  /\ status' \in [Appts -> Statuses] /\ completing' \subseteq Appts
           /\ cancel' \in [Cancels -> CancelCall] /\ stage' \in [Events -> Stages]
           /\ Announced'
           /\ \A b \in Appts : status[b] # "none" => status'[b] # "none"
           /\ \A y \in Cancels : Committed(y) => Committed(y)' /\ cancel'[y] = cancel[y]
<1>1. /\ status \in [Appts -> Statuses] /\ completing \subseteq Appts
      /\ cancel \in [Cancels -> CancelCall]
      /\ Typed /\ Announced /\ x \in Events
  BY EventIds DEF Inv, Typed, TypeOK, ThreadsTypeOK, NoticesTypeOK
<1>2. UNCHANGED <<note, mailer, mailed, completing>>
  BY DEF CancelCommit, CancelFails, CancelBegin
\* A step of x changes what is known of x alone.
<1>3. ASSUME status' \in [Appts -> Statuses], stage' \in [Events -> Stages],
             cancel' \in [Cancels -> CancelCall],
             \A b \in Appts : status[b] # "none" => status'[b] # "none",
             \A e \in Events \ {x} : stage'[e] = stage[e],
             \A y \in Cancels \ {x} : cancel'[y] = cancel[y],
             stage'[x] # "push", CancelKnown(x)',
             Committed(x) => Committed(x)' /\ cancel'[x] = cancel[x]
      PROVE  /\ Announced'
             /\ \A y \in Cancels : Committed(y) => Committed(y)' /\ cancel'[y] = cancel[y]
  <2>1. \A b \in Appts : BookingKnown(b)'
    BY <1>1, <1>2, <1>3, EventIds DEF Announced, BookingKnown
  <2>2. \A y \in Cancels \ {x} : CancelKnown(y)'
    BY <1>1, <1>3, EventIds DEF Announced, CancelKnown
  <2>3. \A e \in Events : NoteKnown(e)'
    BY <1>1, <1>2, <1>3 DEF Announced, NoteKnown
  <2>4. \A y \in Cancels \ {x} : Committed(y) => Committed(y)' /\ cancel'[y] = cancel[y]
    BY <1>3, EventIds DEF Committed
  <2> QED
    BY <1>3, <2>1, <2>2, <2>3, <2>4 DEF Announced
<1>4. CASE CancelCommit(x)
  <2>1. /\ stage' \in [Events -> Stages]
        /\ stage[x] = "saving" /\ stage'[x] = "unsaid"
        /\ \A e \in Events \ {x} : stage'[e] = stage[e]
    BY <1>1, <1>4, StageWrite DEF CancelCommit, Stages
  <2>2. /\ status' = [status EXCEPT ![cancel[x].appt] = "CANCELLED"]
        /\ cancel' = cancel
    BY <1>4 DEF CancelCommit
  <2>3. status' \in [Appts -> Statuses] /\ \A b \in Appts : status[b] # "none" => status'[b] # "none"
    BY <1>1, <2>2 DEF Statuses
  <2>4. CancelKnown(x)' /\ ~Committed(x)
    BY <1>1, <2>1, <2>2, <2>3 DEF Announced, CancelKnown, Committed
  <2>5. stage'[x] # "push" /\ cancel' \in [Cancels -> CancelCall]
    BY <1>1, <2>1, <2>2
  <2> QED
    BY <1>1, <1>2, <1>3, <2>1, <2>2, <2>3, <2>4, <2>5
<1>5. CASE CancelFails(x)
  <2>1. /\ stage' \in [Events -> Stages]
        /\ stage[x] = "saving" /\ stage'[x] = "idle"
        /\ \A e \in Events \ {x} : stage'[e] = stage[e]
    BY <1>1, <1>5, StageWrite DEF CancelFails, Stages
  <2>2. /\ cancel' \in [Cancels -> CancelCall]
        /\ cancel'[x] = NoCancel /\ status' = status
        /\ \A y \in Cancels \ {x} : cancel'[y] = cancel[y]
    BY <1>1, <1>5 DEF CancelFails, CancelCall, NoCancel
  <2>3. CancelKnown(x)' /\ ~Committed(x)
    BY <2>1, <2>2 DEF CancelKnown, Committed
  <2> QED
    BY <1>1, <1>2, <1>3, <2>1, <2>2, <2>3
<1>6. ASSUME NEW a \in Appts, NEW u \in Users, CancelBegin(x, a, u)
      PROVE  /\ status' \in [Appts -> Statuses] /\ completing' \subseteq Appts
             /\ cancel' \in [Cancels -> CancelCall] /\ stage' \in [Events -> Stages]
             /\ Announced'
             /\ \A b \in Appts : status[b] # "none" => status'[b] # "none"
             /\ \A y \in Cancels : Committed(y) => Committed(y)' /\ cancel'[y] = cancel[y]
  <2>1. /\ stage' \in [Events -> Stages]
        /\ stage[x] = "idle" /\ stage'[x] = "saving"
        /\ \A e \in Events \ {x} : stage'[e] = stage[e]
    BY <1>1, <1>6, StageWrite DEF CancelBegin, Stages
  <2>2. /\ cancel' \in [Cancels -> CancelCall] /\ status' = status
        /\ cancel'[x] = [appt |-> a, by |-> u]
        /\ cancel[x] = NoCancel /\ u \in {Client[a], Provider[a]}
        /\ status[a] # "none"
        /\ \A y \in Cancels \ {x} : cancel'[y] = cancel[y]
    BY <1>1, <1>6 DEF CancelBegin, CancelCall
  <2>3. CancelKnown(x)' /\ ~Committed(x)
    BY <2>2 DEF CancelKnown, Committed, NoCancel
  <2> QED
    BY <1>1, <1>2, <1>3, <2>1, <2>2, <2>3
<1> QED
  BY <1>4, <1>5, <1>6

\* Booking, cancelling and completing an appointment.
LEMMA AppointmentInv ==
    ASSUME Inv, AppointmentStep, Presence', calls' \in 0..MaxCalls,
           span' \in [Requests -> [all: SUBSET Messages, some: SUBSET Messages]]
    PROVE  Inv'
<1>1. CASE \E a \in Appts : Book(a)
  BY <1>1, BookInv, AppointmentRest
<1>2. CASE \E a \in Appts : CompleteBegin(a) \/ CompleteSave(a) \/ CompleteFails(a)
  BY <1>2, CompleteInv, AppointmentRest
<1>3. CASE \E x \in Cancels : \/ CancelCommit(x) \/ CancelFails(x)
                              \/ \E a \in Appts, u \in Users : CancelBegin(x, a, u)
  BY <1>3, CancelInv, AppointmentRest
<1> QED
  BY <1>1, <1>2, <1>3 DEF AppointmentStep

LEMMA RestartInv ==
    ASSUME Inv, Restart, Presence', calls' \in 0..MaxCalls,
           span' \in [Requests -> [all: SUBSET Messages, some: SUBSET Messages]]
    PROVE  Inv'
<1>1. /\ UNCHANGED <<status, message, settled, note, mailed, heard>>
      /\ mreq' = [r \in Requests |-> IdleThread]
      /\ cancel' = [x \in Cancels |-> IF stage[x] = "saving" THEN NoCancel ELSE cancel[x]]
      /\ stage' = [e \in Events |-> "idle"]
      /\ mailer' = [b \in Appts |-> "idle"]
      /\ completing' = {}
  BY DEF Restart, GatewayStops
<1>2. \A x \in Cancels : /\ stage'[x] = "idle"
                         /\ Committed(x) => cancel'[x] = cancel[x]
                         /\ cancel'[x] \in {NoCancel, cancel[x]}
  BY <1>1, EventIds DEF Committed
<1>3. Later
  BY <1>1, <1>2 DEF Later, SentStays, Sent, Committed
<1>4. Heard' /\ OtherPartyTold'
  BY <1>1, <1>3, HeardSame, OtherSame DEF Inv
<1>5. Announced'
  <2>1. \A a \in Appts : BookingKnown(a)'
    BY <1>1, EventIds DEF Inv, Announced, BookingKnown
  <2>2. \A x \in Cancels : CancelKnown(x)'
    BY <1>1, <1>2 DEF Inv, Announced, CancelKnown
  <2>3. \A e \in Events : NoteKnown(e)'
    BY <1>1 DEF NoteKnown
  <2> QED
    BY <2>1, <2>2, <2>3 DEF Announced
<1>6. RequestsKnow' /\ ThreadsTypeOK'
  BY <1>1, IdleThreadTyped DEF Inv, Typed, TypeOK, RequestsKnow, ThreadsTypeOK
<1>7. NoticesTypeOK'
  <2>1. cancel' \in [Cancels -> CancelCall]
    BY <1>1, NoticesTypes DEF Inv, CancelCall, NoCancel
  <2>2. /\ stage' \in [Events -> Stages]
        /\ mailer' \in [Appts -> {"idle", "client", "provider"}]
    BY <1>1 DEF Stages
  <2> QED
    BY <1>1, <2>1, <2>2, NoticesTypes DEF Inv, NoticesTypeOK
<1> QED
  BY <1>1, <1>4, <1>5, <1>6, <1>7 DEF Inv, Typed, TypeOK, Presence

\* Sockets come and go, or nothing happens.
LEMMA GatewayInv ==
    ASSUME Inv, UNCHANGED <<status, threadRows, noticeVars, completing, heard>>,
           Presence', calls' \in 0..MaxCalls,
           span' \in [Requests -> [all: SUBSET Messages, some: SUBSET Messages]]
    PROVE  Inv'
<1>1. /\ UNCHANGED <<status, message, mreq, settled, heard>>
      /\ UNCHANGED <<cancel, stage, note, mailer, mailed, completing>>
  BY DEF threadRows, noticeVars
<1>2. Later
  BY <1>1 DEF Later, SentStays, Sent, Committed
<1>3. Heard' /\ OtherPartyTold'
  BY <1>1, <1>2, HeardSame, OtherSame DEF Inv
<1>4. Announced'
  BY <1>1 DEF Inv, Announced, BookingKnown, CancelKnown, NoteKnown
<1>5. Typed'
  BY <1>1 DEF Inv, Typed, TypeOK, RequestsKnow, Sent, ThreadsTypeOK, NoticesTypeOK,
     Presence
<1> QED
  BY <1>3, <1>4, <1>5 DEF Inv

LEMMA InitInv == Init => Inv
<1> SUFFICES ASSUME Init
             PROVE  Inv
  OBVIOUS
<1>1. Typed
  <2>1. GatewayTypeOK /\ ThreadsTypeOK /\ RequestsKnow
    BY IdleThreadTyped, ConversationAssumption DEF Init, GatewayInit, ThreadsInit,
       GatewayTypeOK, ThreadsTypeOK, RequestsKnow, NoMessage, MessageRow, NoSpan
  <2>2. NoticesTypeOK
    BY DEF Init, NoticesInit, NoticesTypeOK, NoNote, NoteRow, NoCancel, CancelCall, Stages
  <2> QED
    BY <2>1, <2>2, ConversationAssumption DEF Init, Typed, TypeOK
<1>2. Heard /\ Announced /\ OtherPartyTold
  <2>1. \A e \in Events : stage[e] = "idle" /\ note[e] = NoNote
    BY DEF Init, NoticesInit
  <2>2. /\ \A x \in Cancels : cancel[x] = NoCancel
        /\ \A a \in Appts : mailer[a] = "idle" /\ mailed[a] = {}
        /\ \A u \in Users : heard[u] = {}
    BY DEF Init, NoticesInit, GatewayInit
  <2>3. Announced
    BY <2>1, <2>2, EventIds DEF Init, Announced, BookingKnown, CancelKnown, NoteKnown
  <2>4. OtherPartyTold
    BY <2>1, <2>2, EventIds DEF OtherPartyTold, NoNote
  <2> QED
    BY <2>2, <2>3, <2>4 DEF Heard
<1> QED
  BY <1>1, <1>2, InitPresence DEF Inv

LEMMA NextInv == Inv /\ [Next]_vars => Inv'
<1> SUFFICES ASSUME Inv, [Next]_vars
             PROVE  Inv'
  OBVIOUS
<1>1. Presence'
  BY PresenceNext DEF Inv
<1>2. Typed
  BY DEF Inv
<1>3. CASE UNCHANGED vars
  <2>1. /\ UNCHANGED <<status, threadRows, noticeVars, completing, heard>>
        /\ calls' = calls /\ span' = span
    BY <1>3 DEF vars, gatewayVars, threadVars, threadRows
  <2> QED
    BY <1>1, <1>2, <2>1, GatewayInv DEF Typed, TypeOK, ThreadsTypeOK
<1>4. CASE Next
  <2>1. calls' \in 0..MaxCalls
    BY <1>2, <1>4, ConversationAssumption DEF Next, Typed, TypeOK
  <2>2. RequestsKnow'
    <3>1. CASE \E r \in Requests : ThreadMove(r)
      BY <1>2, <3>1, ThreadKeeps DEF ThreadsKeep, ThreadMove
    <3>2. CASE UNCHANGED <<message, mreq>>
      BY <1>2, <3>2 DEF Typed, RequestsKnow, Sent
    <3>3. CASE Restart
      BY <3>3, IdleThreadTyped DEF Restart, RequestsKnow
    <3> QED
      BY <1>3, <3>1, <3>2, <3>3, StepCases, AppointmentMoves
         DEF OnlyGateway, OnlyNotices, threadRows, vars, threadVars
  <2>3. span' \in [Requests -> [all: SUBSET Messages, some: SUBSET Messages]]
    BY <1>2, <1>4, <2>2, SpanTyped DEF Next
  <2>4. CASE \E s \in Sockets : (SocketCall(s) \/ handleDisconnect(s)) /\ OnlyGateway
    <3>1. heard' = heard
      BY <2>4 DEF SocketCall, handleConnection, handleDisconnect,
         handleJoinAppointment, handleLeaveAppointment
    <3> QED
      BY <1>1, <2>1, <2>3, <2>4, <3>1, GatewayInv DEF OnlyGateway
  <2>5. CASE \E r \in Requests : ThreadMove(r) /\ OnlyThreads
    BY <1>1, <2>1, <2>3, <2>5, ThreadInv
  <2>6. CASE NoticeCall /\ OnlyNotices
    BY <1>1, <2>1, <2>3, <2>6, NoticeCallInv
  <2>7. CASE NoticeStep /\ OnlyNotices /\ UNCHANGED calls
    BY <1>1, <2>3, <2>7, NoticeStepInv
  <2>8. CASE AppointmentStep
    BY <1>1, <2>1, <2>3, <2>8, AppointmentInv
  <2>9. CASE Restart
    BY <1>1, <2>1, <2>3, <2>9, RestartInv
  <2> QED
    BY <1>4, <2>4, <2>5, <2>6, <2>7, <2>8, <2>9
       DEF Next, Call, Progress, AppointmentStep, ThreadMove
<1> QED
  BY <1>3, <1>4

-----------------------------------------------------------------------------
(* Theorems *)

\* The types, with what a request, a handler and a socket know.
THEOREM ConversationTyped == Spec => []TypeOK
<1>1. Inv => TypeOK
  BY DEF Inv, Typed
<1> QED
  BY InitInv, NextInv, <1>1, PTL DEF Spec

\* No event reaches a socket, and no mail is sent, before what it tells of is
\* in the database: of a cancellation, before the call that emits it has
\* committed, whatever other cancellations and completions save over the row.
THEOREM ToldSound == Spec => []ToldIsStored
<1>1. Inv => ToldIsStored
  BY DEF Inv, Heard, Announced, BookingKnown, ToldIsStored
<1> QED
  BY InitInv, NextInv, <1>1, PTL DEF Spec

\* The row and the push of a cancellation are for the party that did not make
\* the call that announces it, also when both parties cancel at once.
THEOREM OtherPartySound == Spec => []OtherPartyTold
<1>1. Inv => OtherPartyTold
  BY DEF Inv
<1> QED
  BY InitInv, NextInv, <1>1, PTL DEF Spec

-----------------------------------------------------------------------------
(* Read marks.  A copy that could undo a mark is of a message not settled: *)
(* it was made when the row said unread.                                    *)

Reads ==
    \A m \in settled : /\ Sent(m)
                       /\ message[m].read
                       /\ \A r \in Requests : ~Threatens(r, m)

\* Request r goes on to q, and the settled messages stay read.
LEMMA ReadsGo ==
    ASSUME Inv, Reads, NEW r \in Requests, NEW q, Goes(r, q), UNCHANGED settled,
           \A m \in settled : Sent(m)' /\ message'[m].read,
           \A m \in settled : /\ q.pc \in {"load", "write"}
                              /\ q.msg = m
                              => q.read \/ (q.pc = "write" /\ ~q.stale)
    PROVE  Reads'
<1>1. mreq'[r] = q /\ \A i \in Requests \ {r} : mreq'[i] = mreq[i]
  BY DEF Goes, Inv, Typed, TypeOK, ThreadsTypeOK
<1> QED
  BY <1>1 DEF Reads, Threatens

LEMMA ReadsNext == Inv /\ Reads /\ [Next]_vars => Reads'
<1> SUFFICES ASSUME Inv, Reads, [Next]_vars
             PROVE  Reads'
  OBVIOUS
<1>1. /\ settled \subseteq Messages
      /\ message \in [Messages -> MessageRow]
      /\ mreq \in [Requests -> ThreadRequest]
  BY DEF Inv, Typed, TypeOK, ThreadsTypeOK
<1>2. CASE UNCHANGED <<message, mreq, settled>>
  BY <1>2 DEF Reads, Sent, Threatens
<1>3. CASE Restart
  BY <1>3, IdleThreadTyped DEF Restart, Reads, Sent, Threatens
<1>4. UNCHANGED message => \A m \in settled : Sent(m)' /\ message'[m].read
  BY DEF Reads, Sent
<1>5. ASSUME NEW r \in Requests, NEW q, Goes(r, q), UNCHANGED <<message, settled>>,
             q.pc \notin {"load", "write"}
      PROVE  Reads'
  BY <1>4, <1>5, ReadsGo
<1>6. ASSUME NEW r \in Requests, NEW u \in Users, NEW a \in Appts,
             SendBegin(r, u, a) \/ CountBegin(r, u, a)
      PROVE  Reads'
  BY <1>5, <1>6 DEF SendBegin, CountBegin, IdleThread
<1>7. ASSUME NEW r \in Requests, NEW a \in Appts, CountAppt(r, a)
      PROVE  Reads'
  BY <1>1, <1>5, <1>7 DEF CountAppt, ThreadRequest
<1>8. ASSUME NEW r \in Requests, SendEmit(r) \/ CountAnswer(r) \/ ThreadFails(r)
      PROVE  Reads'
  BY <1>5, <1>8, IdleThreadTyped DEF SendEmit, CountAnswer, ThreadFails
<1>9. ASSUME NEW r \in Requests, NEW m \in Messages, SendSave(r, m)
      PROVE  Reads'
  <2> DEFINE q == [mreq[r] EXCEPT !.pc = "emit", !.msg = m]
  <2>1. Goes(r, q) /\ UNCHANGED settled /\ q.pc = "emit"
    BY <1>1, <1>9 DEF SendSave, ThreadRequest
  <2>2. m \notin settled /\ \A n \in settled : message'[n] = message[n]
    BY <1>1, <1>9 DEF SendSave, Reads
  <2>3. \A n \in settled : Sent(n)' /\ message'[n].read
    BY <2>2 DEF Reads, Sent
  <2> HIDE DEF q
  <2> QED
    BY <2>1, <2>3, ReadsGo
<1>10. ASSUME NEW r \in Requests, NEW u \in Users, NEW m \in Messages, FlagBegin(r, u, m)
       PROVE  Reads'
  <2> DEFINE q == [IdleThread EXCEPT !.pc = "load", !.msg = m, !.read = message[m].read]
  <2>1. Goes(r, q) /\ UNCHANGED <<message, settled>>
        /\ q.msg = m /\ q.read = message[m].read
    BY <1>10 DEF FlagBegin, IdleThread
  <2> HIDE DEF q
  <2> QED
    BY <1>4, <2>1, ReadsGo DEF Reads
<1>11. ASSUME NEW r \in Requests, FlagLoad(r)
       PROVE  Reads'
  <2> DEFINE q == [mreq[r] EXCEPT !.pc = "write",
                     !.stale = message[mreq[r].msg].read # mreq[r].read]
  <2>1. UNCHANGED <<message, settled>> /\ (Goes(r, IdleThread) \/ Goes(r, q))
        /\ mreq[r].pc = "load"
    BY <1>11 DEF FlagLoad
  <2>2. q.msg = mreq[r].msg /\ q.read = mreq[r].read
    BY <1>1 DEF ThreadRequest
  <2>3. \A m \in settled : mreq[r].msg = m => mreq[r].read
    BY <2>1 DEF Reads, Threatens
  <2> HIDE DEF q
  <2>4. CASE Goes(r, IdleThread)
    BY <1>5, <2>1, <2>4, IdleThreadTyped
  <2>5. CASE Goes(r, q)
    BY <1>4, <2>1, <2>2, <2>3, <2>5, ReadsGo
  <2> QED
    BY <2>1, <2>4, <2>5
<1>12. ASSUME NEW r \in Requests, FlagWrite(r)
       PROVE  Reads'
  <2>1. /\ Goes(r, IdleThread) /\ UNCHANGED settled /\ mreq[r].pc = "write"
        /\ SentStays
    BY <1>12, FlagWriteKeeps DEF FlagWrite, Inv
  <2>2. \A m \in Messages :
           message'[m].read = IF m = mreq[r].msg /\ mreq[r].stale
                              THEN mreq[r].read ELSE message[m].read
    BY <1>1, <1>12 DEF FlagWrite, MessageRow
  <2>3. \A m \in settled : Sent(m)' /\ message'[m].read
    BY <1>1, <2>1, <2>2 DEF Reads, Threatens, SentStays
  <2> QED
    BY <2>1, <2>3, IdleThreadTyped, ReadsGo
<1>13. ASSUME NEW r \in Requests, NEW u \in Users, NEW a \in Appts, MarkAsRead(r, u, a)
       PROVE  Reads'
  <2>1. /\ mreq' = mreq
        /\ settled' = settled \cup {m \in Unread(u, a) :
                                      \A i \in Requests : ~Threatens(i, m)}
        /\ SentStays
    BY <1>13, MarkAsReadKeeps DEF MarkAsRead, Inv
  <2>2. \A m \in Unread(u, a) : m \in Messages /\ Sent(m)
    BY GatewayAssumption DEF Unread, Sent
  <2>3. \A m \in Messages : /\ m \in Unread(u, a) => message'[m].read
                            /\ message[m].read => message'[m].read
    BY <1>1, <1>13 DEF MarkAsRead, MessageRow
  <2>4. \A m \in settled' : /\ m \in Messages /\ Sent(m)
                            /\ message'[m].read
                            /\ \A i \in Requests : ~Threatens(i, m)
    BY <1>1, <2>1, <2>2, <2>3 DEF Reads
  <2> QED
    BY <2>1, <2>4 DEF Reads, SentStays, Threatens
<1>14. CASE \E r \in Requests : ThreadMove(r)
  BY <1>6, <1>7, <1>8, <1>9, <1>10, <1>11, <1>12, <1>13, <1>14
     DEF ThreadMove, ThreadCall, ThreadStep
<1> QED
  BY <1>2, <1>3, <1>14, StepCases, AppointmentMoves
     DEF OnlyGateway, OnlyNotices, threadRows, vars, threadVars

\* However many messages are flagged, sent and read at once, a message that was
\* read while no older copy of it was on its way shows as read from then on.
THEOREM ReadSound == Spec => []ReadStays
<1>1. Init => Reads
  BY DEF Init, ThreadsInit, Reads
<1>2. Reads => ReadStays
  BY DEF Reads, ReadStays
<1> QED
  BY InitInv, NextInv, ReadsNext, <1>1, <1>2, PTL DEF Spec

-----------------------------------------------------------------------------
(* Conversation implements Delivery.  A fact is stored once because each    *)
(* event is emitted once and its listener inserts once, which Inv does not  *)
(* say; and a message is announced by the request that stored it.           *)

\* What has not been booked has no notification, and an event that waits to be
\* emitted or noted has none yet.
OnceOf(e) ==
    /\ e \in Appts /\ status[e] = "none" => note[e].state = "none"
    /\ stage[e] \in {"unsaid", "insert"} => note[e].state = "none"

Once == \A e \in Events : OnceOf(e)

\* A request emits the message it has stored.
EmitsOwn ==
    \A r \in Requests : mreq[r].pc = "emit" =>
        /\ message[mreq[r].msg].appt = mreq[r].appt
        /\ message[mreq[r].msg].from = mreq[r].user

Delivering == Once /\ EmitsOwn

\* What a step is to Delivery.
Delivers == [DeliveryOf!Next]_<<Audiences, AllTold>>

LEMMA FactCases ==
    \A f \in Facts :
        \/ \E m \in Messages : f = <<"message-notification", m>>
        \/ \E a \in Appts : f = <<"new-booking", a>>
        \/ \E x \in Cancels : f = <<"booking-cancelled", x>>
        \/ \E e \in Events : f = <<"notification", e>>
BY DEF Facts

LEMMA MessageAudience ==
    ASSUME NEW m \in Messages
    PROVE  /\ <<"message-notification", m>> \in Facts
           /\ Audience(<<"message-notification", m>>) =
                 IF Sent(m) THEN {Other(message[m].appt, message[m].from)} ELSE {}
           /\ Audience(<<"message-notification", m>>)' =
                 IF Sent(m)' THEN {Other(message'[m].appt, message'[m].from)} ELSE {}
BY DEF Facts, Audience, Other

LEMMA BookingAudience ==
    ASSUME NEW a \in Appts
    PROVE  /\ <<"new-booking", a>> \in Facts
           /\ Audience(<<"new-booking", a>>) =
                 IF status[a] # "none" THEN {Client[a], Provider[a]} ELSE {}
           /\ Audience(<<"new-booking", a>>)' =
                 IF status'[a] # "none" THEN {Client[a], Provider[a]} ELSE {}
BY DEF Facts, Audience

LEMMA CancellationAudience ==
    ASSUME NEW x \in Cancels
    PROVE  /\ <<"booking-cancelled", x>> \in Facts
           /\ Audience(<<"booking-cancelled", x>>) =
                 IF Committed(x) THEN {Other(cancel[x].appt, cancel[x].by)} ELSE {}
           /\ Audience(<<"booking-cancelled", x>>)' =
                 IF Committed(x)' THEN {Other(cancel'[x].appt, cancel'[x].by)} ELSE {}
BY DEF Facts, Audience, Other

LEMMA NoteAudience ==
    ASSUME NEW e \in Events
    PROVE  /\ <<"notification", e>> \in Facts
           /\ Audience(<<"notification", e>>) =
                 IF note[e].state # "none" THEN {note[e].to} ELSE {}
           /\ Audience(<<"notification", e>>)' =
                 IF note'[e].state # "none" THEN {note'[e].to} ELSE {}
BY DEF Facts, Audience

\* Facts keep their audience when the rows keep whom they are for.
SameParties(m) ==
    message'[m].appt = message[m].appt /\ message'[m].from = message[m].from

SameAppt(a) == status'[a] = "none" <=> status[a] = "none"

SameCancel(x) ==
    /\ Committed(x)' <=> Committed(x)
    /\ Committed(x) => cancel'[x] = cancel[x]

SameNote(e) ==
    /\ note'[e].state = "none" <=> note[e].state = "none"
    /\ note[e].state # "none" => note'[e].to = note[e].to

LEMMA SameMessage ==
    ASSUME NEW m \in Messages, SameParties(m)
    PROVE  Audience(<<"message-notification", m>>)'
              = Audience(<<"message-notification", m>>)
BY MessageAudience DEF SameParties, Sent

LEMMA SameBooking ==
    ASSUME NEW a \in Appts, SameAppt(a)
    PROVE  Audience(<<"new-booking", a>>)' = Audience(<<"new-booking", a>>)
BY BookingAudience DEF SameAppt

LEMMA SameCancellation ==
    ASSUME NEW x \in Cancels, SameCancel(x)
    PROVE  Audience(<<"booking-cancelled", x>>)' = Audience(<<"booking-cancelled", x>>)
BY CancellationAudience DEF SameCancel

LEMMA SameNotice ==
    ASSUME NEW e \in Events, SameNote(e)
    PROVE  Audience(<<"notification", e>>)' = Audience(<<"notification", e>>)
BY NoteAudience DEF SameNote

\* The audiences that change are at most that of one fact.
LEMMA SameButOne ==
    ASSUME NEW f,
           \A m \in Messages : f # <<"message-notification", m>> => SameParties(m),
           \A a \in Appts : f # <<"new-booking", a>> => SameAppt(a),
           \A x \in Cancels : f # <<"booking-cancelled", x>> => SameCancel(x),
           \A e \in Events : f # <<"notification", e>> => SameNote(e)
    PROVE  \A g \in Facts \ {f} : Audience(g)' = Audience(g)
<1> TAKE g \in Facts \ {f}
<1>1. CASE \E m \in Messages : g = <<"message-notification", m>>
  BY <1>1, SameMessage
<1>2. CASE \E a \in Appts : g = <<"new-booking", a>>
  BY <1>2, SameBooking
<1>3. CASE \E x \in Cancels : g = <<"booking-cancelled", x>>
  BY <1>3, SameCancellation
<1>4. CASE \E e \in Events : g = <<"notification", e>>
  BY <1>4, SameNotice
<1> QED
  BY <1>1, <1>2, <1>3, <1>4, FactCases

LEMMA SameAudience ==
    ASSUME \A m \in Messages : SameParties(m),
           \A a \in Appts : SameAppt(a),
           \A x \in Cancels : SameCancel(x),
           \A e \in Events : SameNote(e)
    PROVE  \A f \in Facts : Audience(f)' = Audience(f)
<1> PICK f : f \notin Facts
  BY NoSetContainsEverything
<1> QED
  BY SameButOne

\* The three things a step can be.
LEMMA DeliversNothing ==
    ASSUME \A f \in Facts : Audience(f)' = Audience(f),
           \A u \in Users : Told(u)' = Told(u)
    PROVE  Delivers
BY DEF Delivers, Audiences, AllTold

LEMMA DeliversStore ==
    ASSUME NEW f \in Facts, Audience(f) = {}, Audience(f)' \subseteq Users,
           \A g \in Facts \ {f} : Audience(g)' = Audience(g),
           \A u \in Users : Told(u)' = Told(u)
    PROVE  Delivers
<1> DEFINE S == Audience(f)'
<1>1. Audiences[f] = {} /\ AllTold' = AllTold
  BY DEF Audiences, AllTold
<1>2. Audiences' = [Audiences EXCEPT ![f] = S]
  BY DEF Audiences
<1>3. Audiences'[f] = S
  BY DEF Audiences
<1>4. DeliveryOf!Store(f, Audiences'[f])
  BY <1>1, <1>2, <1>3 DEF DeliveryOf!Store
<1>5. CASE S = {}
  BY <1>5, DeliversNothing
<1>6. CASE S # {}
  <2>1. f \in DeliveryOf!Stored
    BY <1>1, <1>3, <1>6 DEF DeliveryOf!Stored
  <2> QED
    BY <1>1, <1>3, <1>4, <2>1 DEF Delivers, DeliveryOf!Next
<1> QED
  BY <1>5, <1>6

LEMMA DeliversTell ==
    ASSUME NEW f \in Facts, NEW U \in SUBSET Users, U \subseteq Audience(f),
           \A g \in Facts : Audience(g)' = Audience(g),
           \A u \in Users : Told(u)' = IF u \in U THEN Told(u) \cup {f} ELSE Told(u)
    PROVE  Delivers
<1>1. U \subseteq Audiences[f] /\ Audiences' = Audiences
  BY DEF Audiences
<1>2. AllTold' = [u \in Users |-> IF u \in U THEN AllTold[u] \cup {f} ELSE AllTold[u]]
  BY DEF AllTold
<1> DEFINE V == {u \in Users : AllTold'[u] # AllTold[u]}
<1>3. \A u \in Users : u \in V <=> u \in U /\ f \notin AllTold[u]
  BY <1>2
<1>4. AllTold' = [u \in Users |-> IF u \in V THEN AllTold[u] \cup {f} ELSE AllTold[u]]
  BY <1>2, <1>3
<1>5. V \subseteq Audiences[f]
  BY <1>1, <1>3
<1>6. DeliveryOf!Tell(f, V)
  BY <1>1, <1>4, <1>5 DEF DeliveryOf!Tell
<1>7. V = DeliveryOf!Reached
  BY DEF DeliveryOf!Reached
<1> QED
  BY <1>1, <1>6, <1>7 DEF Delivers, DeliveryOf!Next

LEMMA ToldSame ==
    ASSUME UNCHANGED <<heard, mailed>>
    PROVE  \A u \in Users : Told(u)' = Told(u)
BY DEF Told

\* An emission to the room of a user who is among those a fact concerns.
LEMMA DeliversEmit ==
    ASSUME Presence, NEW f \in Facts, NEW v \in Users, v \in Audience(f),
           NEW E, Emit(E), UNCHANGED mailed,
           \A x \in E : x[2] \in Facts => x = ToUser(v, f),
           ToUser(v, f) \in E,
           \A g \in Facts : Audience(g)' = Audience(g)
    PROVE  Delivers
<1> DEFINE U == {u \in Users : InRoom(u, UserRoom(v))}
<1>1. \A u \in U : u = v
  BY DEF InRoom, Presence, OwnRooms
<1>2. ASSUME NEW u \in Users
      PROVE  heard'[u] \cap Facts = (heard[u] \cap Facts) \cup (IF u \in U THEN {f} ELSE {})
  <2>1. heard'[u] = heard[u] \cup {x[2] : x \in {y \in E : InRoom(u, y[1])}}
    BY DEF Emit
  <2>2. \A x \in {y \in E : InRoom(u, y[1])} : x[2] \in Facts => x[2] = f /\ u \in U
    BY DEF ToUser
  <2>3. u \in U => f \in {x[2] : x \in {y \in E : InRoom(u, y[1])}}
    BY DEF ToUser
  <2> QED
    BY <2>1, <2>2, <2>3
<1>3. \A u \in Users : Told(u)' = IF u \in U THEN Told(u) \cup {f} ELSE Told(u)
  BY <1>2 DEF Told
<1>4. U \in SUBSET Users /\ U \subseteq Audience(f)
  BY <1>1
<1> HIDE DEF U
<1> QED
  BY <1>3, <1>4, DeliversTell

-----------------------------------------------------------------------------
(* The steps, to Delivery *)

LEMMA OnceSame ==
    ASSUME Once, \A a \in Appts : SameAppt(a), \A e \in Events : SameNote(e),
           UNCHANGED stage
    PROVE  Once'
BY DEF Once, OnceOf, SameAppt, SameNote

\* The rows of appointments, cancellations and notifications are left alone.
LEMMA RowsSame ==
    ASSUME UNCHANGED <<status, cancel, stage, note>>
    PROVE  /\ \A a \in Appts : SameAppt(a)
           /\ \A x \in Cancels : SameCancel(x)
           /\ \A e \in Events : SameNote(e)
BY DEF SameAppt, SameCancel, SameNote, Committed

\* One request goes on; messages that were sent keep their parties.
LEMMA OwnKept ==
    ASSUME Typed, EmitsOwn, NEW r \in Requests, NEW q, Goes(r, q),
           \A m \in Messages : Sent(m) => SameParties(m),
           q.pc = "emit" => /\ message'[q.msg].appt = q.appt
                            /\ message'[q.msg].from = q.user
    PROVE  EmitsOwn'
<1>1. mreq'[r] = q /\ \A i \in Requests \ {r} : mreq'[i] = mreq[i]
  BY DEF Goes, Typed, TypeOK, ThreadsTypeOK
<1>2. \A i \in Requests \ {r} : mreq[i].pc = "emit" => SameParties(mreq[i].msg)
  BY DEF Typed, RequestsKnow
<1> QED
  BY <1>1, <1>2 DEF EmitsOwn, SameParties

\* A request that neither stores a message nor emits one.
LEMMA ThreadQuiet ==
    ASSUME Inv, Delivering, NEW r \in Requests, NEW q, Goes(r, q) \/ UNCHANGED mreq,
           q.pc # "emit", \A m \in Messages : SameParties(m),
           UNCHANGED <<status, heard, noticeVars>>
    PROVE  Delivering' /\ Delivers
<1>1. UNCHANGED <<cancel, stage, note, mailer, mailed>>
  BY DEF noticeVars
<1>2. /\ \A a \in Appts : SameAppt(a)
      /\ \A x \in Cancels : SameCancel(x)
      /\ \A e \in Events : SameNote(e)
  BY <1>1, RowsSame
<1>3. Delivers
  BY <1>1, <1>2, SameAudience, ToldSame, DeliversNothing
<1>4. Once'
  BY <1>1, <1>2, OnceSame DEF Delivering
<1>5. EmitsOwn'
  <2>1. CASE Goes(r, q)
    BY <2>1, OwnKept DEF Inv, Delivering
  <2>2. CASE UNCHANGED mreq
    BY <2>2 DEF Inv, Typed, RequestsKnow, Delivering, EmitsOwn, SameParties
  <2> QED
    BY <2>1, <2>2
<1> QED
  BY <1>3, <1>4, <1>5 DEF Delivering

LEMMA SendSaveDelivers ==
    ASSUME Inv, Delivering, NEW r \in Requests, NEW m \in Messages, SendSave(r, m),
           UNCHANGED noticeVars
    PROVE  Delivering' /\ Delivers
<1> DEFINE f == <<"message-notification", m>>
           q == [mreq[r] EXCEPT !.pc = "emit", !.msg = m]
<1>1. /\ mreq[r] \in ThreadRequest /\ mreq[r].user \in Users /\ mreq[r].appt \in Appts
      /\ message \in [Messages -> MessageRow]
  BY DEF Inv, Typed, TypeOK, ThreadsTypeOK, RequestsKnow, SendSave
<1>2. /\ ~Sent(m)
      /\ message'[m].appt = mreq[r].appt /\ message'[m].from = mreq[r].user
      /\ \A n \in Messages \ {m} : SameParties(n)
  BY <1>1 DEF SendSave, SameParties
<1>3. UNCHANGED <<status, cancel, stage, note, mailer, mailed, heard>>
  BY DEF SendSave, noticeVars, gatewayVars
<1>4. /\ \A a \in Appts : SameAppt(a)
      /\ \A x \in Cancels : SameCancel(x)
      /\ \A e \in Events : SameNote(e)
  BY <1>3, RowsSame
<1>5. f \in Facts /\ Audience(f) = {} /\ Audience(f)' \subseteq Users
  <2>1. Other(message'[m].appt, message'[m].from) \in Users
    BY <1>1, <1>2, OtherIsUser
  <2>2. f \in Facts /\ Audience(f) = {}
    BY <1>2, MessageAudience
  <2>3. \/ Audience(f)' = {Other(message'[m].appt, message'[m].from)}
        \/ Audience(f)' = {}
    BY MessageAudience
  <2> QED
    BY <2>1, <2>2, <2>3
<1>6. \A g \in Facts \ {f} : Audience(g)' = Audience(g)
  BY <1>2, <1>4, SameButOne
<1>7. Delivers
  BY <1>3, <1>5, <1>6, ToldSame, DeliversStore
<1>8. Once'
  BY <1>3, <1>4, OnceSame DEF Delivering
<1>9. EmitsOwn'
  <2>1. /\ q.pc = "emit" /\ q.msg = m /\ q.appt = mreq[r].appt
        /\ q.user = mreq[r].user
    BY <1>1 DEF ThreadRequest
  <2>2. Goes(r, q)
    BY DEF SendSave
  <2>3. \A n \in Messages : Sent(n) => SameParties(n)
    BY <1>2
  <2> HIDE DEF q
  <2> QED
    BY <1>2, <2>1, <2>2, <2>3, OwnKept DEF Inv, Delivering
<1> QED
  BY <1>7, <1>8, <1>9 DEF Delivering

LEMMA SendEmitDelivers ==
    ASSUME Inv, Delivering, NEW r \in Requests, SendEmit(r), UNCHANGED noticeVars
    PROVE  Delivering' /\ Delivers
<1> DEFINE q == mreq[r]
           m == q.msg
           v == Other(q.appt, q.user)
           f == <<"message-notification", m>>
           E == {ToAppt(q.appt, <<"new-message", m>>), ToUser(v, f)}
<1>1. /\ q.pc = "emit" /\ m \in Messages /\ Sent(m) /\ q.appt \in Appts
      /\ message[m].appt = q.appt /\ message[m].from = q.user
  BY DEF SendEmit, Inv, Typed, RequestsKnow, Delivering, EmitsOwn
<1>2. /\ Emit(E) /\ Goes(r, IdleThread)
      /\ UNCHANGED <<status, message, cancel, stage, note, mailed>>
  BY DEF SendEmit, noticeVars
<1>3. /\ \A n \in Messages : SameParties(n)
      /\ \A a \in Appts : SameAppt(a)
      /\ \A x \in Cancels : SameCancel(x)
      /\ \A e \in Events : SameNote(e)
  BY <1>2, RowsSame DEF SameParties
<1>4. f \in Facts /\ v \in Users /\ v \in Audience(f)
  BY <1>1, MessageAudience, OtherIsUser
<1>5. ToUser(v, f) \in E /\ \A x \in E : x[2] \in Facts => x = ToUser(v, f)
  BY DEF ToAppt, ToUser, Facts
<1>6. Delivers
  <2>1. \A g \in Facts : Audience(g)' = Audience(g)
    BY <1>3, SameAudience
  <2>2. Presence
    BY DEF Inv
  <2> HIDE DEF E, f, v
  <2> QED
    BY <1>2, <1>4, <1>5, <2>1, <2>2, DeliversEmit
<1>7. Once'
  BY <1>2, <1>3, OnceSame DEF Delivering
<1>8. EmitsOwn'
  BY <1>2, <1>3, IdleThreadTyped, OwnKept DEF Inv, Delivering
<1> QED
  BY <1>6, <1>7, <1>8 DEF Delivering

LEMMA ThreadDelivers ==
    ASSUME Inv, Delivering, NEW r \in Requests, ThreadMove(r), OnlyThreads
    PROVE  Delivering' /\ Delivers
<1>0. UNCHANGED noticeVars
  BY DEF OnlyThreads
<1>1. /\ mreq[r] \in ThreadRequest
      /\ message \in [Messages -> MessageRow]
  BY DEF Inv, Typed, TypeOK, ThreadsTypeOK
<1>2. UNCHANGED message => \A m \in Messages : SameParties(m)
  BY DEF SameParties
<1>3. CASE \E q : /\ Goes(r, q) /\ q.pc # "emit"
                  /\ UNCHANGED <<status, message, heard>>
  BY <1>0, <1>2, <1>3, ThreadQuiet
<1>4. CASE \E u \in Users, a \in Appts : SendBegin(r, u, a) \/ CountBegin(r, u, a)
  BY <1>3, <1>4 DEF SendBegin, CountBegin, IdleThread, gatewayVars
<1>5. CASE \E u \in Users, m \in Messages : FlagBegin(r, u, m)
  BY <1>3, <1>5 DEF FlagBegin, IdleThread, gatewayVars
<1>6. CASE \E a \in Appts : CountAppt(r, a)
  BY <1>1, <1>3, <1>6 DEF CountAppt, ThreadRequest, gatewayVars
<1>7. CASE FlagLoad(r)
  BY <1>1, <1>3, <1>7, IdleThreadTyped DEF FlagLoad, ThreadRequest, gatewayVars
<1>8. CASE CountAnswer(r) \/ ThreadFails(r)
  BY <1>3, <1>8, IdleThreadTyped DEF CountAnswer, ThreadFails, gatewayVars
<1>9. CASE FlagWrite(r)
  <2>1. /\ Goes(r, IdleThread) /\ UNCHANGED <<status, heard>>
        /\ \A m \in Messages : SameParties(m)
    BY <1>1, <1>9 DEF FlagWrite, SameParties, MessageRow, gatewayVars
  <2> QED
    BY <1>0, <2>1, IdleThreadTyped, ThreadQuiet
<1>10. CASE \E u \in Users, a \in Appts : MarkAsRead(r, u, a)
  <2>1. /\ UNCHANGED <<mreq, status, heard>>
        /\ \A m \in Messages : SameParties(m)
    BY <1>1, <1>10 DEF MarkAsRead, SameParties, MessageRow, gatewayVars
  <2> QED
    BY <1>0, <2>1, IdleThreadTyped, ThreadQuiet
<1> QED
  BY <1>0, <1>4, <1>5, <1>6, <1>7, <1>8, <1>9, <1>10, SendSaveDelivers, SendEmitDelivers
     DEF ThreadMove, ThreadCall, ThreadStep

\* Steps that change neither messages nor requests.
LEMMA OwnSame ==
    ASSUME EmitsOwn, UNCHANGED <<message, mreq>>
    PROVE  EmitsOwn'
BY DEF EmitsOwn

\* A step of the handlers of one event.
LEMMA OnceMoves ==
    ASSUME Inv, Once, NEW e \in Events, NEW from \in Stages \ {"idle"}, NEW to \in Stages,
           Stage(e, from, to), UNCHANGED status,
           \A f \in Events \ {e} : note'[f].state = note[f].state,
           to \in {"unsaid", "insert"} => note'[e].state = "none"
    PROVE  Once'
<1>1. /\ stage[e] = from /\ stage'[e] = to
      /\ \A f \in Events \ {e} : stage'[f] = stage[f]
  BY StageWrite DEF Inv
<1>2. e \in Appts => status[e] # "none"
  BY <1>1 DEF Inv, Announced, BookingKnown
<1> QED
  BY <1>1, <1>2 DEF Once, OnceOf

\* Who is told of the cancellation by x stays while its event goes on.
LEMMA CancelGoes ==
    ASSUME Inv, NEW e \in Events, NEW from \in Stages \ {"saving"},
           NEW to \in Stages \ {"saving"}, Stage(e, from, to), UNCHANGED cancel
    PROVE  \A x \in Cancels : SameCancel(x)
<1>1. \A x \in Cancels : stage'[x] = "saving" <=> stage[x] = "saving"
  BY StageWrite, EventIds DEF Inv
<1> QED
  BY <1>1 DEF SameCancel, Committed

\* What steps of the listeners and the mailer leave alone.
LEMMA NoticeQuiet ==
    ASSUME Delivering, OnlyNotices
    PROVE  /\ status' = status /\ EmitsOwn'
           /\ \A m \in Messages : SameParties(m)
           /\ \A a \in Appts : SameAppt(a)
BY OwnSame DEF OnlyNotices, threadRows, Delivering, SameParties, SameAppt

LEMMA SayBookedDelivers ==
    ASSUME Inv, Delivering, NEW a \in Appts, SayBooked(a), OnlyNotices
    PROVE  Delivering' /\ Delivers
<1> DEFINE f == <<"new-booking", a>>
           v == Recipient(a)
           E == {ToUser(v, f)}
<1>1. /\ Stage(a, "unsaid", "insert") /\ stage[a] = "unsaid"
      /\ Emit(E)
      /\ UNCHANGED <<cancel, note, mailed>>
  BY DEF SayBooked, Stage
<1>2. status[a] # "none" /\ note[a].state = "none"
  BY <1>1, EventIds DEF Inv, Announced, BookingKnown, Delivering, Once, OnceOf
<1>3. Once'
  BY <1>1, <1>2, EventIds, NoticeQuiet, OnceMoves DEF Delivering, Stages
<1>4. v = Provider[a] /\ v \in Users
  BY OtherIsUser DEF Recipient
<1>5. f \in Facts /\ v \in Audience(f)
  BY <1>2, <1>4, BookingAudience
<1>6. \A g \in Facts : Audience(g)' = Audience(g)
  <2>1. \A x \in Cancels : SameCancel(x)
    BY <1>1, EventIds, CancelGoes DEF Stages
  <2>2. \A e \in Events : SameNote(e)
    BY <1>1 DEF SameNote
  <2> QED
    BY <2>1, <2>2, NoticeQuiet, SameAudience
<1> HIDE DEF v
<1>7. Delivers
  BY <1>1, <1>4, <1>5, <1>6, DeliversEmit DEF Inv
<1> QED
  BY <1>3, <1>7, NoticeQuiet DEF Delivering

LEMMA SayCancelledDelivers ==
    ASSUME Inv, Delivering, NEW x \in Cancels, SayCancelled(x), OnlyNotices
    PROVE  Delivering' /\ Delivers
<1> DEFINE f == <<"booking-cancelled", x>>
           v == Recipient(x)
           E == {ToUser(v, f)}
<1>1. /\ Stage(x, "unsaid", "insert") /\ stage[x] = "unsaid"
      /\ Emit(E)
      /\ UNCHANGED <<cancel, note, mailed>>
  BY DEF SayCancelled, Stage
<1>2. /\ Committed(x) /\ v = Other(cancel[x].appt, cancel[x].by)
      /\ v \in Users /\ note[x].state = "none"
  BY <1>1, EventIds, RecipientIsOther, RecipientIsUser DEF Inv, Delivering, Once, OnceOf
<1>3. Once'
  BY <1>1, <1>2, EventIds, NoticeQuiet, OnceMoves DEF Delivering, Stages
<1>4. f \in Facts /\ v \in Audience(f)
  BY <1>2, CancellationAudience
<1>5. \A g \in Facts : Audience(g)' = Audience(g)
  <2>1. \A y \in Cancels : SameCancel(y)
    BY <1>1, EventIds, CancelGoes DEF Stages
  <2>2. \A e \in Events : SameNote(e)
    BY <1>1 DEF SameNote
  <2> QED
    BY <2>1, <2>2, NoticeQuiet, SameAudience
<1> HIDE DEF v
<1>6. Delivers
  BY <1>1, <1>2, <1>4, <1>5, DeliversEmit DEF Inv
<1> QED
  BY <1>3, <1>6, NoticeQuiet DEF Delivering

LEMMA InsertNoteDelivers ==
    ASSUME Inv, Delivering, NEW e \in Events, InsertNote(e), OnlyNotices
    PROVE  Delivering' /\ Delivers
<1> DEFINE f == <<"notification", e>>
           n == [state |-> "stored", to |-> Recipient(e), read |-> FALSE, old |-> FALSE]
<1>1. /\ Stage(e, "insert", "push") /\ stage[e] = "insert"
      /\ note' = [note EXCEPT ![e] = n]
      /\ UNCHANGED <<heard, cancel, mailed>>
  BY DEF InsertNote, Stage, gatewayVars
<1>2. /\ note'[e] = n
      /\ \A g \in Events \ {e} : note'[g] = note[g]
  BY <1>1, NoticesTypes DEF Inv
<1>3. note[e].state = "none"
  BY <1>1 DEF Delivering, Once, OnceOf
<1>4. Once'
  BY <1>1, <1>2, EventIds, NoticeQuiet, OnceMoves DEF Delivering, Stages
<1>5. f \in Facts /\ Audience(f) = {} /\ Audience(f)' \subseteq Users
  <2>1. note'[e].to \in Users
    BY <1>1, <1>2, RecipientIsUser DEF Inv
  <2>2. f \in Facts /\ Audience(f) = {}
    BY <1>3, NoteAudience
  <2>3. Audience(f)' = {note'[e].to} \/ Audience(f)' = {}
    BY NoteAudience
  <2> QED
    BY <2>1, <2>2, <2>3
<1>6. \A g \in Facts \ {f} : Audience(g)' = Audience(g)
  <2>1. \A x \in Cancels : SameCancel(x)
    BY <1>1, CancelGoes DEF Stages
  <2>2. \A g \in Events : f # <<"notification", g>> => SameNote(g)
    BY <1>2 DEF SameNote
  <2> HIDE DEF f
  <2> QED
    BY <2>1, <2>2, NoticeQuiet, SameButOne
<1>7. Delivers
  BY <1>1, <1>5, <1>6, ToldSame, DeliversStore
<1> QED
  BY <1>4, <1>7, NoticeQuiet DEF Delivering

LEMMA PushNoteDelivers ==
    ASSUME Inv, Delivering, NEW e \in Events, PushNote(e), OnlyNotices
    PROVE  Delivering' /\ Delivers
<1> DEFINE f == <<"notification", e>>
           v == note[e].to
           E == {ToUser(v, f)}
<1>1. /\ Stage(e, "push", "idle") /\ stage[e] = "push"
      /\ Emit(E)
      /\ UNCHANGED <<cancel, note, mailed>>
  BY DEF PushNote, Stage
<1>2. note[e].state # "none" /\ v \in Users
  BY <1>1, NotesTyped DEF Inv, Announced, NoteKnown
<1>3. Once'
  BY <1>1, NoticeQuiet, OnceMoves DEF Delivering, Stages
<1>4. f \in Facts /\ v \in Audience(f)
  BY <1>2, NoteAudience
<1>5. \A g \in Facts : Audience(g)' = Audience(g)
  <2>1. \A y \in Cancels : SameCancel(y)
    BY <1>1, CancelGoes DEF Stages
  <2>2. \A g \in Events : SameNote(g)
    BY <1>1 DEF SameNote
  <2> QED
    BY <2>1, <2>2, NoticeQuiet, SameAudience
<1> HIDE DEF v
<1>6. Delivers
  BY <1>1, <1>2, <1>4, <1>5, DeliversEmit DEF Inv
<1> QED
  BY <1>3, <1>6, NoticeQuiet DEF Delivering

\* A failure, after which nobody is told.
LEMMA FailureDelivers ==
    ASSUME Inv, Delivering, OnlyNotices, NEW e \in Events,
           \/ e \in Appts /\ ReloadFails(e)
           \/ InsertFails(e)
    PROVE  Delivering' /\ Delivers
<1>1. PICK from \in {"unsaid", "insert"} :
         Stage(e, from, "idle") /\ UNCHANGED <<heard, cancel, note, mailed>>
  BY DEF ReloadFails, InsertFails, gatewayVars
<1>2. Once'
  BY <1>1, NoticeQuiet, OnceMoves DEF Delivering, Stages
<1>3. \A x \in Cancels : SameCancel(x)
  BY <1>1, CancelGoes DEF Stages
<1>4. \A g \in Events : SameNote(g)
  BY <1>1 DEF SameNote
<1>5. Delivers
  BY <1>1, <1>3, <1>4, NoticeQuiet, SameAudience, ToldSame, DeliversNothing
<1> QED
  BY <1>2, <1>5, NoticeQuiet DEF Delivering

LEMMA MailDelivers ==
    ASSUME Inv, Delivering, NEW a \in Appts,
           MailClient(a) \/ MailProvider(a) \/ MailFails(a), OnlyNotices
    PROVE  Delivering' /\ Delivers
<1>1. /\ UNCHANGED <<heard, cancel, stage, note>>
      /\ mailer[a] # "idle"
  BY DEF MailClient, MailProvider, MailFails, gatewayVars
<1>2. /\ \A x \in Cancels : SameCancel(x)
      /\ \A g \in Events : SameNote(g)
  BY <1>1, NoticeQuiet, RowsSame
<1>3. Once'
  BY <1>1, <1>2, NoticeQuiet, OnceSame DEF Delivering
<1>4. \A g \in Facts : Audience(g)' = Audience(g)
  BY <1>2, NoticeQuiet, SameAudience
<1>5. mailed \in [Appts -> SUBSET Users]
  BY NoticesTypes DEF Inv
<1>6. PICK U \in {{}, {Client[a]}, {Provider[a]}} :
          mailed' = [mailed EXCEPT ![a] = mailed[a] \cup U]
  <2>1. CASE MailClient(a)
    BY <2>1 DEF MailClient
  <2>2. CASE MailProvider(a)
    BY <2>2 DEF MailProvider
  <2>3. CASE MailFails(a)
    BY <1>5, <2>3 DEF MailFails
  <2> QED
    BY <2>1, <2>2, <2>3
<1>7. status[a] # "none"
  BY <1>1 DEF Inv, Announced, BookingKnown
<1>8. /\ <<"new-booking", a>> \in Facts
      /\ U \in SUBSET Users /\ U \subseteq Audience(<<"new-booking", a>>)
  BY <1>7, BookingAudience, OtherIsUser
<1>9. ASSUME NEW u \in Users
      PROVE  Told(u)' = IF u \in U THEN Told(u) \cup {<<"new-booking", a>>}
                        ELSE Told(u)
  <2>1. {b \in Appts : u \in mailed'[b]}
           = {b \in Appts : u \in mailed[b]} \cup (IF u \in U THEN {a} ELSE {})
    BY <1>5, <1>6
  <2>2. heard' = heard
    BY <1>1
  <2> QED
    BY <2>1, <2>2 DEF Told
<1>10. Delivers
  BY <1>4, <1>8, <1>9, DeliversTell
<1> QED
  BY <1>3, <1>10, NoticeQuiet DEF Delivering

LEMMA NoticeStepDelivers ==
    ASSUME Inv, Delivering, NoticeStep, OnlyNotices
    PROVE  Delivering' /\ Delivers
BY SayBookedDelivers, SayCancelledDelivers, InsertNoteDelivers, PushNoteDelivers,
   FailureDelivers, MailDelivers, EventIds DEF NoticeStep

\* What users and the weekly job do with the notifications.
LEMMA NoticeCallDelivers ==
    ASSUME Inv, Delivering, NoticeCall, OnlyNotices
    PROVE  Delivering' /\ Delivers
<1>1. /\ \A e \in Events : /\ note'[e].to = note[e].to
                           /\ note'[e].state = "none" <=> note[e].state = "none"
      /\ UNCHANGED <<heard, cancel, stage, mailed>>
  BY NoticeCallKeeps DEF Inv, gatewayVars
<1>2. /\ \A x \in Cancels : SameCancel(x)
      /\ \A e \in Events : SameNote(e)
  BY <1>1 DEF SameCancel, SameNote, Committed
<1>3. Delivers
  BY <1>1, <1>2, NoticeQuiet, SameAudience, ToldSame, DeliversNothing
<1> QED
  BY <1>1, <1>2, <1>3, NoticeQuiet, OnceSame DEF Delivering

\* A step of an appointment, which tells nobody of anything yet.
LEMMA AppointmentQuiet ==
    ASSUME Delivering, AppointmentStep
    PROVE  /\ EmitsOwn' /\ UNCHANGED <<heard, note, mailed>>
           /\ \A m \in Messages : SameParties(m)
           /\ \A e \in Events : SameNote(e)
           /\ \A u \in Users : Told(u)' = Told(u)
<1>1. UNCHANGED <<heard, message, mreq, note, mailed>>
  BY AppointmentMoves DEF gatewayVars
<1> QED
  BY <1>1, OwnSame, ToldSame DEF Delivering, SameParties, SameNote

LEMMA BookDelivers ==
    ASSUME Inv, Delivering, NEW a \in Appts, Book(a)
    PROVE  Delivering' /\ Delivers
<1> DEFINE f == <<"new-booking", a>>
<1>1. AppointmentStep
  BY DEF AppointmentStep
<1>2. /\ status[a] = "none" /\ status'[a] = "CONFIRMED"
      /\ \A b \in Appts \ {a} : status'[b] = status[b]
      /\ Stage(a, "idle", "unsaid") /\ cancel' = cancel
  BY DEF Book, Inv, Typed, TypeOK, ThreadsTypeOK
<1>3. Once'
  <2>1. /\ stage'[a] = "unsaid"
        /\ \A e \in Events \ {a} : stage'[e] = stage[e]
    BY <1>2, EventIds, StageWrite DEF Inv, Stages
  <2>2. note[a].state = "none" /\ note' = note
    BY <1>1, <1>2, EventIds, AppointmentQuiet DEF Delivering, Once, OnceOf
  <2> QED
    BY <1>2, <2>1, <2>2 DEF Delivering, Once, OnceOf
<1>4. f \in Facts /\ Audience(f) = {}
  BY <1>2, BookingAudience
<1>5. Audience(f)' \subseteq Users
  BY <1>2, BookingAudience, OtherIsUser
<1>6. \A g \in Facts \ {f} : Audience(g)' = Audience(g)
  <2>1. \A b \in Appts : f # <<"new-booking", b>> => SameAppt(b)
    BY <1>2 DEF SameAppt
  <2>2. \A x \in Cancels : SameCancel(x)
    BY <1>2, EventIds, CancelGoes DEF Stages
  <2> HIDE DEF f
  <2> QED
    BY <1>1, <2>1, <2>2, AppointmentQuiet, SameButOne
<1>7. Delivers
  BY <1>1, <1>4, <1>5, <1>6, AppointmentQuiet, DeliversStore
<1> QED
  BY <1>1, <1>3, <1>7, AppointmentQuiet DEF Delivering

\* Steps that store nothing another is told of: completions, and a call of
\* cancelAppointment that begins or fails.
LEMMA UntoldDelivers ==
    ASSUME Inv, Delivering, AppointmentStep,
           \A a \in Appts : SameAppt(a),
           \A x \in Cancels : SameCancel(x),
           \A e \in Events : stage'[e] \in {"unsaid", "insert"} => stage'[e] = stage[e]
    PROVE  Delivering' /\ Delivers
<1>1. Delivers
  BY AppointmentQuiet, SameAudience, DeliversNothing
<1>2. Once'
  BY AppointmentQuiet DEF Delivering, Once, OnceOf, SameAppt
<1> QED
  BY <1>1, <1>2, AppointmentQuiet DEF Delivering

LEMMA CompleteDelivers ==
    ASSUME Inv, Delivering, NEW a \in Appts,
           CompleteBegin(a) \/ CompleteSave(a) \/ CompleteFails(a)
    PROVE  Delivering' /\ Delivers
<1>1. AppointmentStep
  BY DEF AppointmentStep
<1>2. UNCHANGED <<cancel, stage, note>>
  BY DEF CompleteBegin, CompleteSave, CompleteFails, noticeVars
\* An appointment that is being completed has been booked.
<1>3. \A b \in Appts : SameAppt(b)
  <2>1. CASE UNCHANGED status
    BY <2>1 DEF SameAppt
  <2>2. CASE CompleteSave(a)
    <3>1. status[a] # "none" /\ status \in [Appts -> Statuses]
      BY <2>2 DEF CompleteSave, Inv, Announced, BookingKnown, Typed, TypeOK, ThreadsTypeOK
    <3> QED
      BY <2>2, <3>1 DEF CompleteSave, SameAppt
  <2> QED
    BY <2>1, <2>2 DEF CompleteBegin, CompleteFails
<1>4. \A x \in Cancels : SameCancel(x)
  BY <1>2 DEF SameCancel, Committed
<1> QED
  BY <1>1, <1>2, <1>3, <1>4, UntoldDelivers


LEMMA CancelCommitDelivers ==
    ASSUME Inv, Delivering, NEW x \in Cancels, CancelCommit(x)
    PROVE  Delivering' /\ Delivers
<1> DEFINE f == <<"booking-cancelled", x>>
<1>1. AppointmentStep
  BY DEF AppointmentStep
<1>2. /\ Stage(x, "saving", "unsaid") /\ UNCHANGED <<cancel, note>>
      /\ status' = [status EXCEPT ![cancel[x].appt] = "CANCELLED"]
  BY DEF CancelCommit
<1>3. /\ stage[x] = "saving" /\ stage'[x] = "unsaid"
      /\ \A e \in Events \ {x} : stage'[e] = stage[e]
  BY <1>2, EventIds, StageWrite DEF Inv, Stages
<1>4. /\ cancel[x].appt \in Appts
      /\ cancel[x].by \in {Client[cancel[x].appt], Provider[cancel[x].appt]}
      /\ ~Committed(x)
  BY <1>3 DEF Inv, Announced, CancelKnown, Committed
<1>5. note[x].state = "none"
  BY <1>4, EventIds, NotesTyped DEF Inv, OtherPartyTold
\* What is cancelled was confirmed when the call began, so it was booked.
<1>6. \A a \in Appts : SameAppt(a)
  <2>1. status[cancel[x].appt] # "none"
    BY <1>3, <1>4 DEF Inv, Announced, CancelKnown
  <2>2. status \in [Appts -> Statuses]
    BY DEF Inv, Typed, TypeOK, ThreadsTypeOK
  <2> QED
    BY <1>2, <1>4, <2>1, <2>2 DEF SameAppt
<1>7. Once'
  BY <1>2, <1>3, <1>5, <1>6 DEF Delivering, Once, OnceOf, SameAppt
<1>8. f \in Facts /\ Audience(f) = {}
  BY <1>4, CancellationAudience
<1>9. Audience(f)' \subseteq Users
  <2>1. Other(cancel'[x].appt, cancel'[x].by) \in Users
    BY <1>2, <1>4, OtherIsUser
  <2>2. Audience(f)' \in {{Other(cancel'[x].appt, cancel'[x].by)}, {}}
    BY CancellationAudience
  <2> QED
    BY <2>1, <2>2
<1>10. \A g \in Facts \ {f} : Audience(g)' = Audience(g)
  <2>1. \A y \in Cancels : f # <<"booking-cancelled", y>> => SameCancel(y)
    BY <1>2, <1>3, EventIds DEF SameCancel, Committed
  <2> HIDE DEF f
  <2> QED
    BY <1>1, <1>6, <2>1, AppointmentQuiet, SameButOne
<1>11. Delivers
  BY <1>1, <1>8, <1>9, <1>10, AppointmentQuiet, DeliversStore
<1> QED
  BY <1>1, <1>7, <1>11, AppointmentQuiet DEF Delivering

\* A call of cancelAppointment begins or fails: it is not committed.
LEMMA CancelUntold ==
    ASSUME Inv, Delivering, NEW x \in Cancels,
           CancelFails(x) \/ \E a \in Appts, u \in Users : CancelBegin(x, a, u)
    PROVE  Delivering' /\ Delivers
<1>1. AppointmentStep
  BY DEF AppointmentStep
<1>2. cancel \in [Cancels -> CancelCall]
  BY NoticesTypes DEF Inv
<1>3. /\ ~Committed(x) /\ ~Committed(x)'
      /\ stage'[x] \in {"idle", "saving"} /\ status' = status
      /\ \A e \in Events \ {x} : stage'[e] = stage[e]
      /\ \A y \in Cancels \ {x} : cancel'[y] = cancel[y]
  <2>1. CASE CancelFails(x)
    <3>1. /\ stage[x] = "saving" /\ stage'[x] = "idle"
          /\ \A e \in Events \ {x} : stage'[e] = stage[e]
      BY <2>1, EventIds, StageWrite DEF CancelFails, Inv, Stages
    <3> QED
      BY <1>2, <2>1, <3>1 DEF CancelFails, Committed, NoCancel
  <2>2. ASSUME NEW a \in Appts, NEW u \in Users, CancelBegin(x, a, u)
        PROVE  /\ ~Committed(x) /\ ~Committed(x)'
               /\ stage'[x] \in {"idle", "saving"} /\ status' = status
               /\ \A e \in Events \ {x} : stage'[e] = stage[e]
               /\ \A y \in Cancels \ {x} : cancel'[y] = cancel[y]
    <3>1. /\ stage[x] = "idle" /\ stage'[x] = "saving"
          /\ \A e \in Events \ {x} : stage'[e] = stage[e]
      BY <2>2, EventIds, StageWrite DEF CancelBegin, Inv, Stages
    <3> QED
      BY <1>2, <2>2, <3>1 DEF CancelBegin, Committed, NoCancel
  <2> QED
    BY <2>1, <2>2
<1>4. \A y \in Cancels : SameCancel(y)
  BY <1>3, EventIds DEF SameCancel, Committed
<1>5. \A a \in Appts : SameAppt(a)
  BY <1>3 DEF SameAppt
<1> QED
  BY <1>1, <1>3, <1>4, <1>5, UntoldDelivers

LEMMA AppointmentDelivers ==
    ASSUME Inv, Delivering, AppointmentStep
    PROVE  Delivering' /\ Delivers
BY BookDelivers, CompleteDelivers, CancelCommitDelivers, CancelUntold
   DEF AppointmentStep

LEMMA RestartDelivers ==
    ASSUME Inv, Delivering, Restart
    PROVE  Delivering' /\ Delivers
<1>1. /\ UNCHANGED <<status, message, note, mailed, heard>>
      /\ \A r \in Requests : mreq'[r].pc = "idle"
      /\ cancel' = [x \in Cancels |-> IF stage[x] = "saving" THEN NoCancel ELSE cancel[x]]
      /\ \A e \in Events : stage'[e] = "idle"
  BY IdleThreadTyped DEF Restart, GatewayStops
<1>2. /\ \A m \in Messages : SameParties(m)
      /\ \A a \in Appts : SameAppt(a)
      /\ \A e \in Events : SameNote(e)
  BY <1>1 DEF SameParties, SameAppt, SameNote
<1>3. \A x \in Cancels : SameCancel(x)
  BY <1>1, EventIds DEF SameCancel, Committed, NoCancel
<1>4. Delivers
  BY <1>1, <1>2, <1>3, SameAudience, ToldSame, DeliversNothing
<1>5. Once'
  BY <1>1 DEF Delivering, Once, OnceOf
<1>6. EmitsOwn'
  BY <1>1 DEF EmitsOwn
<1> QED
  BY <1>4, <1>5, <1>6 DEF Delivering

\* Sockets come and go, or nothing happens.
LEMMA NothingDelivers ==
    ASSUME Inv, Delivering, UNCHANGED <<status, message, mreq, noticeVars, heard>>
    PROVE  Delivering' /\ Delivers
<1>1. UNCHANGED <<cancel, stage, note, mailer, mailed>>
  BY DEF noticeVars
<1>2. /\ \A m \in Messages : SameParties(m)
      /\ \A a \in Appts : SameAppt(a)
      /\ \A x \in Cancels : SameCancel(x)
      /\ \A e \in Events : SameNote(e)
  BY <1>1, RowsSame DEF SameParties
<1>3. Delivers
  BY <1>1, <1>2, SameAudience, ToldSame, DeliversNothing
<1> QED
  BY <1>1, <1>2, <1>3, OnceSame, OwnSame DEF Delivering

LEMMA NextDelivers ==
    Inv /\ Delivering /\ [Next]_vars => Delivering' /\ Delivers
<1> SUFFICES ASSUME Inv, Delivering, [Next]_vars
             PROVE  Delivering' /\ Delivers
  OBVIOUS
<1>1. CASE \E r \in Requests : ThreadMove(r) /\ OnlyThreads
  BY <1>1, ThreadDelivers
<1>2. CASE (NoticeCall \/ NoticeStep) /\ OnlyNotices
  BY <1>2, NoticeCallDelivers, NoticeStepDelivers
<1>3. CASE AppointmentStep
  BY <1>3, AppointmentDelivers
<1>4. CASE Restart
  BY <1>4, RestartDelivers
<1>5. CASE \E s \in Sockets : (SocketCall(s) \/ handleDisconnect(s)) /\ OnlyGateway
  <2>1. heard' = heard
    BY <1>5 DEF SocketCall, handleConnection, handleDisconnect,
       handleJoinAppointment, handleLeaveAppointment
  <2> QED
    BY <1>5, <2>1, NothingDelivers DEF OnlyGateway, threadRows
<1>6. CASE UNCHANGED vars
  BY <1>6, NothingDelivers DEF vars, gatewayVars, threadVars
<1> QED
  BY <1>1, <1>2, <1>3, <1>4, <1>5, <1>6, StepCases

LEMMA InitDelivers == Init => Delivering /\ DeliveryOf!Init
<1> SUFFICES ASSUME Init
             PROVE  Delivering /\ DeliveryOf!Init
  OBVIOUS
<1>1. /\ \A m \in Messages : ~Sent(m)
      /\ \A a \in Appts : mailed[a] = {}
      /\ \A x \in Cancels : ~Committed(x)
      /\ \A e \in Events : note[e].state = "none" /\ stage[e] = "idle"
      /\ \A r \in Requests : mreq[r].pc = "idle"
      /\ heard = [u \in Users |-> {}]
  BY IdleThreadTyped DEF Init, ThreadsInit, NoticesInit, GatewayInit, Sent, NoMessage,
     NoNote, NoCancel, Committed
<1>2. Delivering
  BY <1>1 DEF Delivering, Once, OnceOf, EmitsOwn
<1>3. ASSUME NEW f \in Facts
      PROVE  Audience(f) \in SUBSET Users
  <2>1. CASE \E m \in Messages : f = <<"message-notification", m>>
    BY <1>1, <2>1, MessageAudience
  <2>2. ASSUME NEW a \in Appts, f = <<"new-booking", a>>
        PROVE  Audience(f) \in SUBSET Users
    <3>1. Client[a] \in Users /\ Provider[a] \in Users
      BY DEF Users
    <3>2. Audience(<<"new-booking", a>>) \in {{Client[a], Provider[a]}, {}}
      BY BookingAudience
    <3> QED
      BY <2>2, <3>1, <3>2
  <2>3. CASE \E x \in Cancels : f = <<"booking-cancelled", x>>
    BY <1>1, <2>3, CancellationAudience
  <2>4. CASE \E e \in Events : f = <<"notification", e>>
    BY <1>1, <2>4, NoteAudience
  <2> QED
    BY <2>1, <2>2, <2>3, <2>4, FactCases
<1>4. Audiences \in [Facts -> SUBSET Users]
  BY <1>3 DEF Audiences
<1>5. AllTold = [u \in Users |-> {}]
  BY <1>1 DEF AllTold, Told
<1> QED
  BY <1>2, <1>4, <1>5 DEF DeliveryOf!Init

\* Whatever sockets come and go, handlers interleave and restarts drop, and
\* though both parties may cancel and a completion come in between: each message,
\* booking, committed cancellation and notification is stored once, and told, over
\* a socket or by mail, only to those it concerns and only afterwards.
THEOREM ConversationDelivers == Spec => DeliveryRefined
<1>1. Inv /\ Delivering /\ [Next]_vars => Delivering' /\ [DeliveryOf!Next]_<<Audiences, AllTold>>
  BY NextDelivers DEF Delivers
<1>2. Init => Inv /\ Delivering /\ DeliveryOf!Init
  BY InitInv, InitDelivers
<1> QED
  BY <1>1, <1>2, NextInv, PTL DEF Spec, DeliveryRefined, DeliveryOf!Spec

\* Delivery promises that those told of a fact are among those it concerns, so
\* Conversation, which implements it, keeps the promise: no user is ever told
\* of a message, booking, cancellation or notification of others.
THEOREM OnlyConcernedAreTold == Spec => []DeliveryOf!OnlyConcerned
<1> DEFINE Safe == DeliveryOf!TypeOK /\ DeliveryOf!OnlyConcerned
<1>1. DeliveryOf!Init => Safe
  BY DEF DeliveryOf!Init, DeliveryOf!TypeOK, DeliveryOf!OnlyConcerned
<1>2. Safe /\ [DeliveryOf!Next]_<<Audiences, AllTold>> => Safe'
  <2> SUFFICES ASSUME Safe, [DeliveryOf!Next]_<<Audiences, AllTold>>
               PROVE  Safe'
    OBVIOUS
  <2> USE DEF DeliveryOf!TypeOK, DeliveryOf!OnlyConcerned
  <2>1. ASSUME NEW f \in Facts, NEW S \in SUBSET Users, DeliveryOf!Store(f, S), AllTold' = AllTold
        PROVE  Safe'
    BY <2>1 DEF DeliveryOf!Store
  <2>2. ASSUME NEW f \in Facts, NEW U \in SUBSET Users, DeliveryOf!Tell(f, U), Audiences' = Audiences
        PROVE  Safe'
    BY <2>2 DEF DeliveryOf!Tell
  <2>4. DeliveryOf!Stored \subseteq Facts /\ DeliveryOf!Reached \subseteq Users
    BY DEF DeliveryOf!Stored, DeliveryOf!Reached
  <2>3. CASE UNCHANGED <<Audiences, AllTold>>
    BY <2>3
  <2> QED
    BY <2>1, <2>2, <2>3, <2>4 DEF DeliveryOf!Next
<1>3. Safe => DeliveryOf!OnlyConcerned
  OBVIOUS
<1> QED
  BY <1>1, <1>2, <1>3, ConversationDelivers, PTL DEF DeliveryRefined, DeliveryOf!Spec

-----------------------------------------------------------------------------
(* Counting.  Of the messages unread all along, a request has counted those *)
(* of the appointments it has asked for; all it has counted were unread at  *)
(* some time.  Messages are of booked appointments only.                    *)

Asked(X, todo) == {m \in X : message[m].appt \notin todo}

Begun ==
    /\ \A m \in Messages : Sent(m) => status[message[m].appt] # "none"
    /\ \A r \in Requests : mreq[r].pc = "save" => status[mreq[r].appt] # "none"

CountsOf(q, s) ==
    q.pc = "count" =>
        /\ q.todo \subseteq Mine(q.user)
        /\ \A m \in s.all \cup s.some : Sent(m)
        /\ Cardinality(Asked(s.all, q.todo)) =< q.sum
        /\ q.sum =< Cardinality(Asked(s.some, q.todo))

CountInv ==
    /\ Inv
    /\ Begun
    /\ \A r \in Requests : CountsOf(mreq[r], span[r])

LEMMA MessagesFewer ==
    ASSUME NEW S \in SUBSET Messages
    PROVE  /\ Cardinality(S) \in Nat
           /\ \A T \in SUBSET S : Cardinality(T) =< Cardinality(S)
<1>1. IsFiniteSet(S)
  BY ThreadsAssumption, FS_Subset
<1> QED
  BY <1>1, FS_Subset, FS_CardinalityType

LEMMA MessagesAdd ==
    ASSUME NEW S \in SUBSET Messages, NEW T \in SUBSET Messages
    PROVE  /\ Cardinality(S \cup T) =< Cardinality(S) + Cardinality(T)
           /\ S \cap T = {} => Cardinality(S \cup T) = Cardinality(S) + Cardinality(T)
<1>1. IsFiniteSet(S) /\ IsFiniteSet(T) /\ S \cap T \in SUBSET Messages
  BY ThreadsAssumption, FS_Subset
<1>2. Cardinality(S) \in Nat /\ Cardinality(T) \in Nat /\ Cardinality(S \cap T) \in Nat
  BY <1>1, MessagesFewer
<1>3. Cardinality(S \cup T) = Cardinality(S) + Cardinality(T) - Cardinality(S \cap T)
  BY <1>1, FS_Union
<1>4. S \cap T = {} => Cardinality(S \cap T) = 0
  BY FS_EmptySet
<1> QED
  BY <1>2, <1>3, <1>4

\* A message that was sent stays with its appointment, and one that is sent now
\* is of the appointment its request was about.
LEMMA MessagesKeep ==
    ASSUME Inv, [Next]_vars, NEW m \in Messages
    PROVE  \/ message'[m].appt = message[m].appt
           \/ /\ ~Sent(m)
              /\ \E r \in Requests : mreq[r].pc = "save"
                                     /\ message'[m].appt = mreq[r].appt
<1>1. message \in [Messages -> MessageRow]
  BY DEF Inv, Typed, TypeOK, ThreadsTypeOK
<1>2. ASSUME NEW r \in Requests, NEW n \in Messages, SendSave(r, n)
      PROVE  \/ message'[m] = message[m]
             \/ /\ ~Sent(m)
                /\ mreq[r].pc = "save" /\ message'[m].appt = mreq[r].appt
  BY <1>1, <1>2 DEF SendSave
<1>3. ASSUME NEW r \in Requests, NEW u \in Users, NEW a \in Appts, MarkAsRead(r, u, a)
      PROVE  message'[m].appt = message[m].appt
  BY <1>1, <1>3 DEF MarkAsRead, MessageRow
<1>4. ASSUME NEW r \in Requests, FlagWrite(r)
      PROVE  message'[m].appt = message[m].appt
  BY <1>1, <1>4 DEF FlagWrite, MessageRow
<1>5. \/ UNCHANGED message
      \/ \E r \in Requests : \/ \E n \in Messages : SendSave(r, n)
                             \/ \E u \in Users, a \in Appts : MarkAsRead(r, u, a)
                             \/ FlagWrite(r)
  <2>1. CASE UNCHANGED vars
    BY <2>1 DEF vars, threadVars
  <2>2. CASE \E r \in Requests, u \in Users : ThreadCall(r, u)
    BY <2>2 DEF ThreadCall, SendBegin, CountBegin, FlagBegin
  <2>3. CASE \E r \in Requests : ThreadStep(r)
    BY <2>3 DEF ThreadStep, CountAppt, SendEmit, FlagLoad, CountAnswer, ThreadFails
  <2>4. CASE AppointmentStep
    BY <2>4, AppointmentMoves
  <2> QED
    BY <2>1, <2>2, <2>3, <2>4, StepCases
       DEF ThreadMove, OnlyGateway, OnlyNotices, threadRows, Restart
<1> QED
  BY <1>2, <1>3, <1>4, <1>5

\* What a request may do: stay, be done or elsewhere, begin to send, count.
LEMMA RequestCases ==
    ASSUME Inv, [Next]_vars, NEW r \in Requests
    PROVE  \/ mreq'[r] = mreq[r]
           \/ mreq'[r].pc \notin {"count", "save"}
           \/ \E u \in Users, a \in Appts : SendBegin(r, u, a) \/ CountBegin(r, u, a)
           \/ \E a \in Appts : CountAppt(r, a)
<1>1. mreq \in [Requests -> ThreadRequest]
  BY DEF Inv, Typed, TypeOK, ThreadsTypeOK
<1>2. ASSUME NEW i \in Requests, NEW q, Goes(i, q)
      PROVE  mreq'[r] = mreq[r] \/ (i = r /\ mreq'[r] = q)
  BY <1>1, <1>2 DEF Goes
<1>3. IdleThread.pc = "idle"
  BY DEF IdleThread
<1>4. ASSUME NEW i \in Requests, NEW u \in Users, ThreadCall(i, u)
      PROVE  \/ mreq'[r] = mreq[r]
             \/ mreq'[r].pc \notin {"count", "save"}
             \/ \E v \in Users, a \in Appts : SendBegin(r, v, a) \/ CountBegin(r, v, a)
  <2>1. ASSUME NEW m \in Messages, FlagBegin(i, u, m)
        PROVE  mreq'[r] = mreq[r] \/ mreq'[r].pc = "load"
    BY <1>1, <2>1 DEF FlagBegin, Goes, IdleThread
  <2>2. ASSUME NEW a \in Appts, MarkAsRead(i, u, a)
        PROVE  mreq'[r] = mreq[r]
    BY <2>2 DEF MarkAsRead
  <2>3. ASSUME NEW a \in Appts, SendBegin(i, u, a) \/ CountBegin(i, u, a)
        PROVE  mreq'[r] = mreq[r] \/ i = r
    BY <1>2, <2>3 DEF SendBegin, CountBegin
  <2> QED
    BY <1>4, <2>1, <2>2, <2>3 DEF ThreadCall
<1>5. ASSUME NEW i \in Requests, ThreadStep(i)
      PROVE  \/ mreq'[r] = mreq[r]
             \/ mreq'[r].pc \notin {"count", "save"}
             \/ \E a \in Appts : CountAppt(r, a)
  <2>1. ASSUME NEW m \in Messages, SendSave(i, m)
        PROVE  mreq'[r] = mreq[r] \/ mreq'[r].pc = "emit"
    BY <1>1, <2>1 DEF SendSave, Goes, ThreadRequest
  <2>2. ASSUME NEW a \in Appts, CountAppt(i, a)
        PROVE  mreq'[r] = mreq[r] \/ i = r
    BY <1>2, <2>2 DEF CountAppt
  <2>3. CASE SendEmit(i) \/ FlagWrite(i) \/ CountAnswer(i) \/ ThreadFails(i)
    BY <1>2, <1>3, <2>3 DEF SendEmit, FlagWrite, CountAnswer, ThreadFails
  <2>4. CASE FlagLoad(i)
    <3>1. PICK q \in ThreadRequest : Goes(i, q) /\ q.pc \in {"idle", "write"}
      <4>1. IdleThread \in ThreadRequest /\ mreq[i] \in ThreadRequest
        BY <1>1, IdleThreadTyped
      <4> DEFINE w == [mreq[i] EXCEPT !.pc = "write",
                         !.stale = message[mreq[i].msg].read # mreq[i].read]
      <4>2. w \in ThreadRequest /\ w.pc = "write"
        BY <4>1 DEF ThreadRequest, ThreadPc
      <4>3. Goes(i, IdleThread) \/ Goes(i, w)
        BY <2>4 DEF FlagLoad
      <4> HIDE DEF w
      <4> QED
        BY <1>3, <4>1, <4>2, <4>3
    <3> QED
      BY <1>2, <3>1
  <2> QED
    BY <1>5, <2>1, <2>2, <2>3, <2>4 DEF ThreadStep
<1>6. CASE UNCHANGED mreq
  BY <1>6
<1>7. CASE Restart
  BY <1>3, <1>7 DEF Restart
<1>8. \/ UNCHANGED mreq \/ Restart
      \/ \E i \in Requests : (\E u \in Users : ThreadCall(i, u)) \/ ThreadStep(i)
  BY StepCases, AppointmentMoves
     DEF ThreadMove, OnlyGateway, OnlyNotices, threadRows, vars, threadVars
<1> QED
  BY <1>4, <1>5, <1>6, <1>7, <1>8

LEMMA StatusStays ==
    ASSUME Inv, [Next]_vars, NEW a \in Appts, status[a] # "none"
    PROVE  status'[a] # "none"
<1>1. CASE AppointmentStep
  BY <1>1, BookInv, CompleteInv, CancelInv DEF AppointmentStep
<1>2. CASE UNCHANGED vars
  BY <1>2 DEF vars, threadVars
<1>3. ASSUME NEW r \in Requests, ThreadMove(r)
      PROVE  UNCHANGED status
  <2>1. CASE \E u \in Users : ThreadCall(r, u)
    BY <2>1 DEF ThreadCall, SendBegin, CountBegin, FlagBegin, MarkAsRead
  <2>2. CASE ThreadStep(r)
    BY <2>2 DEF ThreadStep, CountAppt, SendEmit, FlagLoad, CountAnswer, ThreadFails,
       SendSave, FlagWrite
  <2> QED
    BY <1>3, <2>1, <2>2 DEF ThreadMove
<1> QED
  BY <1>1, <1>2, <1>3, StepCases DEF OnlyGateway, OnlyNotices, Restart

LEMMA BegunNext ==
    ASSUME Inv, Begun, [Next]_vars
    PROVE  Begun'
<1>1. /\ message \in [Messages -> MessageRow]
      /\ \A r \in Requests : mreq[r].pc = "save" => mreq[r].appt \in Appts
  BY DEF Inv, Typed, TypeOK, ThreadsTypeOK, RequestsKnow
<1>2. ASSUME NEW m \in Messages, Sent(m)'
      PROVE  status'[message'[m].appt] # "none"
  <2>1. CASE message'[m].appt = message[m].appt
    <3>1. Sent(m) /\ message[m].appt \in Appts
      BY <1>1, <1>2, <2>1 DEF Sent, MessageRow
    <3> QED
      BY <2>1, <3>1, StatusStays DEF Begun
  <2>2. CASE \E r \in Requests : mreq[r].pc = "save" /\ message'[m].appt = mreq[r].appt
    BY <1>1, <2>2, StatusStays DEF Begun
  <2> QED
    BY <2>1, <2>2, MessagesKeep
<1>3. ASSUME NEW r \in Requests, mreq'[r].pc = "save"
      PROVE  status'[mreq'[r].appt] # "none"
  <2>1. CASE mreq'[r] = mreq[r]
    BY <1>1, <1>3, <2>1, StatusStays DEF Begun
  <2>2. ASSUME NEW u \in Users, NEW a \in Appts, SendBegin(r, u, a)
        PROVE  status'[mreq'[r].appt] # "none"
    <3>1. mreq'[r].appt = a /\ status[a] # "none"
      BY <2>2 DEF SendBegin, Goes, IdleThread, Inv, Typed, TypeOK, ThreadsTypeOK
    <3> QED
      BY <3>1, StatusStays
  <2>3. ASSUME NEW u \in Users, NEW a \in Appts, CountBegin(r, u, a)
        PROVE  mreq'[r].pc = "count"
    BY <2>3 DEF CountBegin, Goes, IdleThread, Inv, Typed, TypeOK, ThreadsTypeOK
  <2>4. ASSUME NEW a \in Appts, CountAppt(r, a)
        PROVE  mreq'[r].pc = "count"
    BY <2>4 DEF CountAppt, Goes, ThreadRequest, Inv, Typed, TypeOK, ThreadsTypeOK
  <2> QED
    BY <1>3, <2>1, <2>2, <2>3, <2>4, RequestCases
<1> QED
  BY <1>2, <1>3 DEF Begun

\* The span of a request that counts, after a step.
LEMMA SpanNote ==
    ASSUME Note, RequestsKnow', NEW r \in Requests, mreq'[r].pc = "count"
    PROVE  LET now == AllUnread(mreq[r].user)' IN
           span'[r] = IF mreq[r].pc # "count" THEN [all |-> now, some |-> now]
                      ELSE [all |-> span[r].all \cap now,
                            some |-> span[r].some \cup now]
<1> DEFINE unread == [u \in Users |-> AllUnread(u)]'
<1>1. mreq'[r].user \in Users
  BY DEF RequestsKnow
<1>2. unread[mreq'[r].user] = AllUnread(mreq[r].user)'
  BY <1>1
<1>3. span' = [i \in Requests |->
                 IF mreq'[i].pc # "count" THEN NoSpan
                 ELSE IF mreq[i].pc # "count"
                      THEN [all |-> unread[mreq'[i].user], some |-> unread[mreq'[i].user]]
                      ELSE [all |-> span[i].all \cap unread[mreq'[i].user],
                            some |-> span[i].some \cup unread[mreq'[i].user]]]
  BY DEF Note
<1> HIDE DEF unread
<1> QED
  BY <1>2, <1>3

\* Unread messages were sent, each about an appointment of the reader.
LEMMA UnreadSent ==
    ASSUME NEW u
    PROVE  /\ AllUnread(u) \subseteq Messages
           /\ \A m \in AllUnread(u) : Sent(m) /\ m \in Unread(u, message[m].appt)
           /\ \A m \in AllUnread(u)' : Sent(m)' /\ m \in Unread(u, message[m].appt)'
BY GatewayAssumption DEF AllUnread, Unread, Mine, Sent

LEMMA CountBegins ==
    ASSUME CountInv, [Next]_vars, Inv', Begun', Note,
           NEW r \in Requests, NEW u \in Users, NEW a \in Appts, CountBegin(r, u, a)
    PROVE  CountsOf(mreq[r], span[r])'
<1> DEFINE now == AllUnread(u)'
           todo == {b \in Mine(u) : status[b] # "none"}
<1>1. /\ mreq'[r].pc = "count" /\ mreq'[r].user = u /\ mreq'[r].todo = todo
      /\ mreq'[r].sum = 0 /\ mreq[r].pc # "count"
      /\ UNCHANGED <<status, message>>
  BY DEF CountBegin, Called, Goes, IdleThread, CountInv, Inv, Typed, TypeOK, ThreadsTypeOK
<1>2. span'[r].all = now /\ span'[r].some = now
  <2>1. AllUnread(mreq[r].user)' = now
    BY <1>1 DEF AllUnread, Mine, Unread
  <2>2. RequestsKnow'
    BY DEF Inv, Typed
  <2>3. span'[r] = [all |-> now, some |-> now]
    BY <1>1, <2>1, <2>2, SpanNote
  <2> QED
    BY <2>3
<1>3. now = AllUnread(u) /\ now \subseteq Messages
  BY <1>1, UnreadSent DEF AllUnread, Mine, Unread
<1>4. ASSUME NEW m \in now
      PROVE  Sent(m) /\ message[m].appt \in todo
  <2>1. Sent(m) /\ m \in Unread(u, message[m].appt) /\ m \in Messages
    BY <1>3, UnreadSent
  <2>2. message[m].appt \in Mine(u)
    BY <1>3 DEF AllUnread, Unread
  <2> QED
    BY <2>1, <2>2 DEF CountInv, Begun
<1> HIDE DEF now
<1>5. /\ Asked(span[r].all, mreq[r].todo)' = {}
      /\ Asked(span[r].some, mreq[r].todo)' = {}
  BY <1>1, <1>2, <1>4 DEF Asked
<1>6. Cardinality({}) = 0
  BY FS_EmptySet
<1>7. \A m \in now : Sent(m)'
  BY <1>1, <1>4 DEF Sent
<1>8. todo \subseteq Mine(u) /\ Mine(u)' = Mine(u)
  BY DEF Mine
<1> QED
  BY <1>1, <1>2, <1>5, <1>6, <1>7, <1>8 DEF CountsOf, Mine

\* The messages a request has in its spans stay with their appointments.
LEMMA SpansGrow ==
    ASSUME CountInv, [Next]_vars, Inv', Note,
           NEW r \in Requests, mreq[r].pc = "count", mreq'[r].pc = "count",
           mreq'[r].user = mreq[r].user
    PROVE  LET now == AllUnread(mreq[r].user)' IN
           /\ span'[r].all = span[r].all \cap now
           /\ span'[r].some = span[r].some \cup now
           /\ span'[r].all \subseteq Messages /\ span'[r].some \subseteq Messages
           /\ span[r].all \subseteq Messages /\ span[r].some \subseteq Messages
           /\ \A m \in span'[r].all \cup span'[r].some : Sent(m)'
           /\ \A m \in span[r].all \cup span[r].some :
                 Sent(m)' /\ message'[m].appt = message[m].appt
<1> DEFINE now == AllUnread(mreq[r].user)'
<1>1. span'[r].all = span[r].all \cap now /\ span'[r].some = span[r].some \cup now
  <2>1. RequestsKnow'
    BY DEF Inv, Typed
  <2>2. span'[r] = [all |-> span[r].all \cap now, some |-> span[r].some \cup now]
    BY <2>1, SpanNote
  <2> QED
    BY <2>2
<1>2. span[r].all \subseteq Messages /\ span[r].some \subseteq Messages
  BY DEF CountInv, Inv, Typed, TypeOK, ThreadsTypeOK
<1>3. now \subseteq Messages /\ \A m \in now : Sent(m)'
  BY GatewayAssumption DEF AllUnread, Unread, Mine, Sent
<1>4. ASSUME NEW m \in span[r].all \cup span[r].some
      PROVE  Sent(m)' /\ message'[m].appt = message[m].appt
  <2>1. m \in Messages /\ Sent(m)
    BY <1>2 DEF CountInv, CountsOf
  <2> QED
    BY <2>1, MessagesKeep DEF CountInv, Sent
<1> HIDE DEF now
<1>5. span'[r].all \subseteq Messages /\ span'[r].some \subseteq Messages
  BY <1>1, <1>2, <1>3
<1>6. \A m \in span'[r].all \cup span'[r].some : Sent(m)'
  BY <1>1, <1>3, <1>4
<1> QED
  BY <1>1, <1>2, <1>4, <1>5, <1>6 DEF now

\* Other steps: the messages unread all along become fewer, the others more.
LEMMA CountWaits ==
    ASSUME CountInv, [Next]_vars, Inv', Note,
           NEW r \in Requests, mreq'[r] = mreq[r]
    PROVE  CountsOf(mreq[r], span[r])'
<1> SUFFICES ASSUME mreq[r].pc = "count"
             PROVE  CountsOf(mreq[r], span[r])'
  BY DEF CountsOf
<1> DEFINE q == mreq[r]
           A == Asked(span[r].all, q.todo)
           B == Asked(span[r].some, q.todo)
           A1 == A'
           B1 == B'
<1>1. A \in SUBSET Messages /\ A1 \in SUBSET Messages /\ A1 \subseteq A
  BY SpansGrow DEF Asked
<1>2. B \in SUBSET Messages /\ B1 \in SUBSET Messages /\ B \subseteq B1
  BY SpansGrow DEF Asked
<1>3. /\ q.sum \in Nat /\ Cardinality(A) =< q.sum /\ q.sum =< Cardinality(B)
      /\ q.todo \subseteq Mine(q.user)
  BY DEF CountInv, CountsOf, Inv, Typed, TypeOK, ThreadsTypeOK, ThreadRequest
<1>4. \A m \in span'[r].all \cup span'[r].some : Sent(m)'
  BY SpansGrow
<1> HIDE DEF A, B, A1, B1
<1>5. Cardinality(A1) =< q.sum /\ q.sum =< Cardinality(B1)
  <2>1. Cardinality(A1) =< Cardinality(A) /\ Cardinality(B) =< Cardinality(B1)
    BY <1>1, <1>2, MessagesFewer
  <2>2. \A T \in SUBSET Messages : Cardinality(T) \in Nat
    BY MessagesFewer
  <2> QED
    BY <1>1, <1>2, <1>3, <2>1, <2>2
<1>6. Mine(q.user)' = Mine(q.user)
  BY DEF Mine
<1> QED
  BY <1>3, <1>4, <1>5, <1>6 DEF CountsOf, A1, B1, A, B

LEMMA CountGoesOn ==
    ASSUME CountInv, [Next]_vars, Inv', Note,
           NEW r \in Requests, NEW a \in Appts, CountAppt(r, a)
    PROVE  CountsOf(mreq[r], span[r])'
<1> DEFINE q == mreq[r]
           S == Unread(q.user, a)
           A == Asked(span[r].all, q.todo)
           B == Asked(span[r].some, q.todo)
           A1 == Asked(span[r].all, q.todo)'
           B1 == Asked(span[r].some, q.todo)'
<1>1. /\ q.pc = "count" /\ a \in q.todo
      /\ q \in ThreadRequest /\ q.sum \in Nat
  BY DEF CountAppt, CountInv, Inv, Typed, TypeOK, ThreadsTypeOK, ThreadRequest
<1>2. /\ mreq'[r].pc = "count" /\ mreq'[r].user = q.user
      /\ mreq'[r].todo = q.todo \ {a}
      /\ mreq'[r].sum = q.sum + Cardinality(S)
      /\ message' = message
  BY <1>1 DEF CountAppt, Goes, CountInv, Inv, Typed, TypeOK, ThreadsTypeOK, ThreadRequest
<1>3. /\ Cardinality(A) =< q.sum /\ q.sum =< Cardinality(B)
      /\ q.todo \subseteq Mine(q.user)
  BY <1>1 DEF CountInv, CountsOf
<1> DEFINE now == AllUnread(q.user)'
<1>4. /\ now = AllUnread(q.user)
      /\ \A m \in now : m \in Unread(q.user, message[m].appt)
      /\ S \subseteq now
  <2>1. AllUnread(q.user)' = AllUnread(q.user)
    BY <1>2 DEF AllUnread, Unread, Mine
  <2>2. S \subseteq AllUnread(q.user)
    BY <1>1, <1>3 DEF AllUnread
  <2> QED
    BY <2>1, <2>2, UnreadSent
<1>5. /\ span'[r].all = span[r].all \cap now
      /\ span'[r].some = span[r].some \cup now
      /\ span'[r].all \subseteq Messages /\ span'[r].some \subseteq Messages
      /\ span[r].all \subseteq Messages /\ span[r].some \subseteq Messages
      /\ \A m \in span'[r].all \cup span'[r].some : Sent(m)'
  BY <1>1, <1>2, SpansGrow
<1> HIDE DEF now
<1>6. S \in SUBSET Messages /\ A \in SUBSET Messages /\ B \in SUBSET Messages
      /\ A1 \in SUBSET Messages /\ B1 \in SUBSET Messages
  BY <1>5 DEF Asked, Unread
<1>7. A1 \subseteq A \cup S
  BY <1>2, <1>4, <1>5 DEF Asked
<1>8. B \cup S \subseteq B1 /\ B \cap S = {}
  <2>1. \A m \in S : message[m].appt = a
    BY DEF Unread
  <2> QED
    BY <1>1, <1>2, <1>4, <1>5, <2>1 DEF Asked
<1> HIDE DEF S, A, B, A1, B1
<1>9. /\ Cardinality(A1) =< Cardinality(A) + Cardinality(S)
      /\ Cardinality(B) + Cardinality(S) =< Cardinality(B1)
      /\ Cardinality(S) \in Nat /\ Cardinality(A) \in Nat /\ Cardinality(B) \in Nat
      /\ Cardinality(A1) \in Nat /\ Cardinality(B1) \in Nat
  <2>1. A \cup S \in SUBSET Messages /\ B \cup S \in SUBSET Messages
    BY <1>6
  <2>2. /\ Cardinality(A1) =< Cardinality(A \cup S)
        /\ Cardinality(B \cup S) =< Cardinality(B1)
    BY <1>6, <1>7, <1>8, <2>1, MessagesFewer
  <2>3. /\ Cardinality(A \cup S) =< Cardinality(A) + Cardinality(S)
        /\ Cardinality(B \cup S) = Cardinality(B) + Cardinality(S)
    BY <1>6, <1>8, MessagesAdd
  <2>4. \A T \in SUBSET Messages : Cardinality(T) \in Nat
    BY MessagesFewer
  <2> QED
    BY <1>6, <2>1, <2>2, <2>3, <2>4
<1>10. /\ Cardinality(A1) =< q.sum + Cardinality(S)
       /\ q.sum + Cardinality(S) =< Cardinality(B1)
  BY <1>1, <1>3, <1>9
<1>11. Mine(mreq[r].user)' = Mine(q.user)
  BY <1>2 DEF Mine
<1>12. mreq'[r].sum = q.sum + Cardinality(S)
  BY <1>2
<1> QED
  BY <1>2, <1>3, <1>5, <1>10, <1>11, <1>12 DEF CountsOf, A1, B1

\* However messages come and are read while a request counts, its answer is
\* between what was unread all along and what was unread at some time.
THEOREM CountSound == Spec => []CountIsPlausible
<1>1. Init => CountInv
  <2> SUFFICES ASSUME Init PROVE CountInv
    OBVIOUS
  <2>1. Begun /\ \A r \in Requests : CountsOf(mreq[r], span[r])
    BY DEF Init, ThreadsInit, Begun, CountsOf, Sent, NoMessage, IdleThread
  <2> QED
    BY <2>1, InitInv DEF CountInv
<1>2. CountInv /\ [Next]_vars => CountInv'
  <2> SUFFICES ASSUME CountInv, [Next]_vars
               PROVE  CountInv'
    OBVIOUS
  <2>1. Inv' /\ Begun'
    BY NextInv, BegunNext DEF CountInv
  <2>2. ASSUME NEW r \in Requests
        PROVE  CountsOf(mreq[r], span[r])'
    <3>1. CASE UNCHANGED vars
      <4>1. UNCHANGED <<message, mreq, span>>
        BY <3>1 DEF vars, threadVars
      <4>2. CountsOf(mreq[r], span[r])
        BY DEF CountInv
      <4> QED
        BY <4>1, <4>2 DEF CountsOf, Asked, Sent, Mine
    <3>2. CASE Next
      <4>1. Note
        BY <3>2 DEF Next
      <4>2. mreq'[r].pc # "count" => CountsOf(mreq[r], span[r])'
        BY DEF CountsOf
      <4>3. ASSUME NEW u \in Users, NEW a \in Appts, SendBegin(r, u, a)
            PROVE  mreq'[r].pc # "count"
        BY <4>3 DEF SendBegin, Goes, IdleThread, CountInv, Inv, Typed, TypeOK,
           ThreadsTypeOK
      <4> QED
        BY <2>1, <4>1, <4>2, <4>3, RequestCases, CountBegins, CountWaits,
           CountGoesOn DEF CountInv
    <3> QED
      BY <3>1, <3>2
  <2> QED
    BY <2>1, <2>2 DEF CountInv
<1>3. CountInv => CountIsPlausible
  <2> SUFFICES ASSUME CountInv, NEW r \in Requests,
                      mreq[r].pc = "count", mreq[r].todo = {}
               PROVE  /\ mreq[r].sum >= Cardinality(span[r].all)
                      /\ mreq[r].sum =< Cardinality(span[r].some)
    BY DEF CountIsPlausible
  <2>1. /\ Asked(span[r].all, mreq[r].todo) = span[r].all
        /\ Asked(span[r].some, mreq[r].todo) = span[r].some
    BY DEF Asked
  <2>2. /\ Cardinality(span[r].all) =< mreq[r].sum
        /\ mreq[r].sum =< Cardinality(span[r].some)
    BY <2>1 DEF CountInv, CountsOf
  <2>3. mreq[r].sum \in Nat /\ Cardinality(span[r].all) \in Nat
    BY MessagesFewer DEF CountInv, Inv, Typed, TypeOK, ThreadsTypeOK, ThreadRequest
  <2> QED
    BY <2>2, <2>3
<1> QED
  BY <1>1, <1>2, <1>3, PTL DEF Spec
=============================================================================
