------------------------------ MODULE Gateway -------------------------------
(***************************************************************************)
(* NotificationsGateway: the sockets of users, the rooms they are in, and  *)
(* what is emitted to a room.                                              *)
(*                                                                         *)
(* Its handlers are synchronous, so each is one step.  A socket without a  *)
(* valid token is disconnected at once and changes nothing; only the       *)
(* others are here.                                                        *)
(***************************************************************************)
CONSTANTS
    Appts,          \* ids of appointments
    Client,         \* appointments.client_id
    Provider,       \* appointments.prestataire_id
    Sockets,
    UserOf,         \* the user in the token of each socket
    Null            \* no value

VARIABLES
    connectedUsers, \* user -> sockets, of the users with an entry
    rooms,          \* rooms[s]: socket.io's rooms of socket s
    heard           \* history: the events each user got on some socket

gatewayVars == <<connectedUsers, rooms, heard>>

Users == {Client[a] : a \in Appts} \cup {Provider[a] : a \in Appts}

ASSUME GatewayAssumption ==
    /\ DOMAIN Client = Appts
    /\ DOMAIN Provider = Appts
    /\ \A a \in Appts : Client[a] # Provider[a]
    /\ UserOf \in [Sockets -> Users]
    /\ Null \notin Users \cup Appts

-----------------------------------------------------------------------------
UserRoom(u) == <<"user", u>>

ApptRoom(a) == <<"appointment", a>>

Rooms == {UserRoom(u) : u \in Users} \cup {ApptRoom(a) : a \in Appts}

\* A connected socket is in the room of its user.
Connected(s) == UserRoom(UserOf[s]) \in rooms[s]

\* isUserOnline
Online(u) == u \in DOMAIN connectedUsers

GatewayTypeOK ==
    /\ DOMAIN connectedUsers \subseteq Users
    /\ \A u \in DOMAIN connectedUsers : connectedUsers[u] \subseteq Sockets
    /\ rooms \in [Sockets -> SUBSET Rooms]
    /\ DOMAIN heard = Users

GatewayInit ==
    /\ connectedUsers = [u \in {} |-> {}]
    /\ rooms = [s \in Sockets |-> {}]
    /\ heard = [u \in Users |-> {}]

-----------------------------------------------------------------------------
SocketsOf(u) == IF Online(u) THEN connectedUsers[u] ELSE {}

\* The map with the sockets S as the entry of u.
WithEntry(u, S) ==
    [v \in DOMAIN connectedUsers \cup {u} |->
        IF v = u THEN S ELSE connectedUsers[v]]

WithoutEntry(u) ==
    [v \in DOMAIN connectedUsers \ {u} |-> connectedUsers[v]]

handleConnection(s) ==
    LET u == UserOf[s] IN
    /\ ~Connected(s)
    /\ rooms' = [rooms EXCEPT ![s] = {UserRoom(u)}]
    /\ connectedUsers' = WithEntry(u, SocketsOf(u) \cup {s})
    /\ UNCHANGED heard

\* Mutant: one socket's end is taken for the user's.
DisconnectUser(s) ==
    /\ Connected(s)
    /\ rooms' = [rooms EXCEPT ![s] = {}]
    /\ connectedUsers' = WithoutEntry(UserOf[s])
    /\ UNCHANGED heard

handleDisconnect(s) ==
    LET u == UserOf[s]
        rest == SocketsOf(u) \ {s}
    IN  /\ Connected(s)
        /\ rooms' = [rooms EXCEPT ![s] = {}]
        /\ connectedUsers' = IF rest = {} THEN WithoutEntry(u)
                             ELSE WithEntry(u, rest)
        /\ UNCHANGED heard

handleJoinAppointment(s, a) ==
    /\ Connected(s)
    /\ rooms' = [rooms EXCEPT ![s] = @ \cup {ApptRoom(a)}]
    /\ UNCHANGED <<connectedUsers, heard>>

handleLeaveAppointment(s, a) ==
    /\ ApptRoom(a) \in rooms[s]
    /\ rooms' = [rooms EXCEPT ![s] = @ \ {ApptRoom(a)}]
    /\ UNCHANGED <<connectedUsers, heard>>

\* The server stops: sockets close, and what it knew of them is gone.
GatewayStops ==
    /\ connectedUsers' = [u \in {} |-> {}]
    /\ rooms' = [s \in Sockets |-> {}]
    /\ UNCHANGED heard

SocketCall(s) ==
    \/ handleConnection(s)
    \/ \E a \in Appts : handleJoinAppointment(s, a) \/ handleLeaveAppointment(s, a)

-----------------------------------------------------------------------------
(* Emitting.  An emission is a room and an event.                          *)

InRoom(u, room) == \E s \in Sockets : UserOf[s] = u /\ room \in rooms[s]

Emit(emissions) ==
    /\ heard' = [u \in Users |->
                    heard[u] \cup {x[2] : x \in {y \in emissions : InRoom(u, y[1])}}]
    /\ UNCHANGED <<connectedUsers, rooms>>

\* sendToUser
ToUser(u, event) == <<UserRoom(u), event>>

ToAppt(a, event) == <<ApptRoom(a), event>>
=============================================================================
