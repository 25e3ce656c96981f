------------------------------- MODULE Users -------------------------------
(***************************************************************************)
(* The tables of accounts: users, and the rows that belong to them         *)
(* (profiles of clients and prestataires, services); registration, the     *)
(* first administrator, and the mails that carry a link.                   *)
(***************************************************************************)
EXTENDS Naturals, Sequences, FiniteSets

CONSTANTS
    Ids,            \* ids of users, each given once
    Emails,
    AdminEmail,     \* ADMIN_EMAIL
    Services,       \* ids of services, each given once
    Owner,          \* the prestataire a service belongs to
    KnownRole,      \* role of the users registered long ago, or "none"
    KnownEmail,     \* ... and their e-mail
    KnownServices,  \* services created long ago
    Signups,        \* registration requests
    NoOne

Roles == {"CLIENT", "PRESTATAIRE", "ADMIN"}

ASSUME UsersAssumption ==
    /\ AdminEmail \in Emails
    /\ Owner \in [Services -> Ids]
    /\ KnownRole \in [Ids -> Roles \cup {"none"}]
    /\ KnownEmail \in [Ids -> Emails]
    /\ KnownServices \subseteq Services
    /\ \A s \in KnownServices : KnownRole[Owner[s]] = "PRESTATAIRE"
    /\ Ids \cap Services = {}
    /\ NoOne \notin Ids \cup Services \cup Emails

VARIABLES
    user,       \* user[i]: the row of users with id i
    kept,       \* the profiles (by the user's id) and services that have a row
    row,        \* row[k]: the columns of that row
    reg,        \* reg[r]: a registration in progress
    meant,      \* history: row[k] had each save written the columns it is about
    halfway     \* history: users whose registration broke off

usersVars == <<user, kept, row, reg, meant, halfway>>

Keys == Ids \cup Services

OwnerOf(k) == IF k \in Ids THEN k ELSE Owner[k]

\* The columns several requests compete for.  Values are numbers: a flag is
\* 0 or 1, so is a text (0: empty), and status is PENDING or ACTIVE.  bio also
\* stands for what a client may change of its profile.
Columns == {"status", "totalAppointments", "bio", "categories",
            "profileCompleted", "isActive", "displayOrder"}

Row == [Columns -> Nat]

PENDING == 0
ACTIVE == 1

Blank == [c \in Columns |-> 0]

\* The profile that registration inserts, with at least one category.
NewProfile(role) ==
    [Blank EXCEPT !["categories"] = IF role = "PRESTATAIRE" THEN 1 ELSE 0]

NewService == [Blank EXCEPT !["isActive"] = 1]

\* A link is kept in the row as a token: made when nobody was sent it yet,
\* asked when its mail is on the way, mailed when its user has it.
Links == {"none", "made", "asked", "mailed"}

\* pw counts the passwords the user has had.
UserRow == [state: {"none", "stored", "gone"}, email: Emails \cup {NoOne},
            role: Roles \cup {"none"}, emailVerified: BOOLEAN,
            isActive: BOOLEAN, pw: Nat, verification: Links, reset: Links]

NoUser == [state |-> "none", email |-> NoOne, role |-> "none",
           emailVerified |-> FALSE, isActive |-> TRUE, pw |-> 0,
           verification |-> "none", reset |-> "none"]

\* e-mail and role of a registration; its names and password are left out
Applicants == Emails \X {"CLIENT", "PRESTATAIRE"}

Signup == [pc: {"idle", "insert", "profile"}, email: Emails \cup {NoOne},
           role: Roles \cup {"none"}, id: Ids \cup {NoOne}]

IdleSignup == [pc |-> "idle", email |-> NoOne, role |-> "none", id |-> NoOne]

Stored(i) == user[i].state = "stored"

Taken(e) == \E i \in Ids : Stored(i) /\ user[i].email = e

\* JwtStrategy.validate: the user of an access token exists and is active.
Admitted(i) == Stored(i) /\ user[i].isActive

\* RolesGuard
HasRole(i, role) == user[i].role = role

UsersTypeOK ==
    /\ user \in [Ids -> UserRow]
    /\ kept \subseteq Keys
    /\ row \in [Keys -> Row]
    /\ meant \in [Keys -> Row]
    /\ reg \in [Signups -> Signup]
    /\ halfway \subseteq Ids
    /\ \A r \in Signups : reg[r].pc = "profile" => reg[r].id \in Ids
    /\ \A k \in kept : Stored(OwnerOf(k))           \* the foreign keys

-----------------------------------------------------------------------------
Known(i) ==
    IF KnownRole[i] = "none" THEN NoUser
    ELSE [NoUser EXCEPT !.state = "stored", !.email = KnownEmail[i],
                        !.role = KnownRole[i], !.emailVerified = TRUE]

\* The users registered long ago have complete profiles.
KnownRow(k) ==
    IF k \in Ids THEN
        IF KnownRole[k] = "PRESTATAIRE"
        THEN [NewProfile("PRESTATAIRE") EXCEPT !["bio"] = 1, !["profileCompleted"] = 1]
        ELSE Blank
    ELSE IF k \in KnownServices THEN NewService ELSE Blank

UsersInit ==
    /\ user = [i \in Ids |-> Known(i)]
    /\ kept = {i \in Ids : KnownRole[i] \in {"CLIENT", "PRESTATAIRE"}} \cup KnownServices
    /\ row = [k \in Keys |-> KnownRow(k)]
    /\ meant = row
    /\ reg = [r \in Signups |-> IdleSignup]
    /\ halfway = {}

Tables == <<kept, row, meant>>

\* Row k is inserted.
Insert(k, columns) ==
    /\ kept' = kept \cup {k}
    /\ row' = [row EXCEPT ![k] = columns]
    /\ meant' = [meant EXCEPT ![k] = columns]

\* Mutant: the profile is deleted and the user is not.
DeleteProfile(i) ==
    LET left(t) == [k \in Keys |-> IF OwnerOf(k) = i THEN Blank ELSE t[k]] IN
    /\ user' = user
    /\ kept' = {k \in kept : OwnerOf(k) # i}
    /\ row' = left(row)
    /\ meant' = left(meant)

\* Mutant: the foreign keys do not cascade.
DeleteUserOnly(i) ==
    /\ user' = [user EXCEPT ![i] = [NoUser EXCEPT !.state = "gone"]]
    /\ UNCHANGED Tables

\* DELETE of a user, and of all that its foreign keys cascade to.
DeleteUser(i) ==
    LET left(t) == [k \in Keys |-> IF OwnerOf(k) = i THEN Blank ELSE t[k]] IN
    /\ user' = [user EXCEPT ![i] = [NoUser EXCEPT !.state = "gone"]]
    /\ kept' = {k \in kept : OwnerOf(k) # i}
    /\ row' = left(row)
    /\ meant' = left(meant)

-----------------------------------------------------------------------------
(* registerClient and registerPrestataire *)

\* findOne by e-mail: free.
RegisterCheck(r, e, role) ==
    /\ reg[r].pc = "idle"
    /\ <<e, role>> \in Applicants
    /\ ~Taken(e)
    /\ reg' = [reg EXCEPT ![r] = [IdleSignup EXCEPT !.pc = "insert",
                                     !.email = e, !.role = role]]
    /\ UNCHANGED <<user, Tables, halfway>>

RegisterUser(r, i) ==
    /\ reg[r].pc = "insert"
    /\ user[i].state = "none"
    /\ ~Taken(reg[r].email)
    /\ user' = [user EXCEPT ![i] = [NoUser EXCEPT !.state = "stored",
                   !.email = reg[r].email, !.role = reg[r].role,
                   !.verification = "made"]]
    /\ reg' = [reg EXCEPT ![r] = [IdleSignup EXCEPT !.pc = "profile",
                                     !.role = reg[r].role, !.id = i]]
    /\ UNCHANGED <<Tables, halfway>>

\* The e-mail was registered meanwhile: unique index.
RegisterConflict(r) ==
    /\ reg[r].pc = "insert"
    /\ Taken(reg[r].email)
    /\ reg' = [reg EXCEPT ![r] = IdleSignup]
    /\ UNCHANGED <<user, Tables, halfway>>

\* The profile is inserted (its foreign key asks for the user), and
\* user.registered emitted.
RegisterProfile(r) ==
    LET i == reg[r].id IN
    /\ reg[r].pc = "profile"
    /\ Stored(i)
    /\ Insert(i, NewProfile(reg[r].role))
    /\ user' = [user EXCEPT ![i].verification = IF @ = "made" THEN "asked" ELSE @]
    /\ reg' = [reg EXCEPT ![r] = IdleSignup]
    /\ UNCHANGED halfway

\* A statement fails, or the server stops.
RegisterFail(r) ==
    /\ reg[r].pc # "idle"
    /\ reg' = [reg EXCEPT ![r] = IdleSignup]
    /\ halfway' = IF reg[r].pc = "profile" THEN halfway \cup {reg[r].id} ELSE halfway
    /\ UNCHANGED <<user, Tables>>

\* createInitialAdmin, at each start of the server: an INSERT that the unique
\* index refuses is caught and logged.
CreateInitialAdmin(i) ==
    /\ user[i].state = "none"
    /\ ~ \E j \in Ids : Stored(j) /\ HasRole(j, "ADMIN")
    /\ ~Taken(AdminEmail)
    /\ user' = [user EXCEPT ![i] = [NoUser EXCEPT !.state = "stored",
                   !.email = AdminEmail, !.role = "ADMIN", !.emailVerified = TRUE]]
    /\ UNCHANGED <<Tables, reg, halfway>>

\* handleUserRegistered and handlePasswordResetRequest: the mail goes out, or
\* it fails and nobody is told.
MailVerification(i, sent) ==
    /\ user[i].verification = "asked"
    /\ user' = [user EXCEPT ![i].verification = IF sent THEN "mailed" ELSE "made"]
    /\ UNCHANGED <<Tables, reg, halfway>>

MailReset(i, sent) ==
    /\ user[i].reset = "asked"
    /\ user' = [user EXCEPT ![i].reset = IF sent THEN "mailed" ELSE "made"]
    /\ UNCHANGED <<Tables, reg, halfway>>

\* A link that nobody can use any more is as good as none.
LinkExpires(i) ==
    /\ \/ /\ user[i].verification \in {"made", "mailed"}
          /\ user' = [user EXCEPT ![i].verification = "none"]
       \/ /\ user[i].reset \in {"made", "mailed"}
          /\ user' = [user EXCEPT ![i].reset = "none"]
    /\ UNCHANGED <<Tables, reg, halfway>>

RegisterCall(r) == \E e \in Emails, role \in Roles : RegisterCheck(r, e, role)

RegisterStep(r) ==
    \/ \E i \in Ids : RegisterUser(r, i)
    \/ RegisterConflict(r)
    \/ RegisterProfile(r)
    \/ RegisterFail(r)

UserEvent(i) ==
    \/ CreateInitialAdmin(i)
    \/ \E sent \in BOOLEAN : MailVerification(i, sent) \/ MailReset(i, sent)
    \/ LinkExpires(i)
=============================================================================
