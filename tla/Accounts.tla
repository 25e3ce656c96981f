------------------------------ MODULE Accounts ------------------------------
(***************************************************************************)
(* Accounts as a whole: registration, sessions, profiles, administrators   *)
(* and search work on the same rows, each call one statement at a time.    *)
(***************************************************************************)
EXTENDS Sessions, Directory, Search

CONSTANT MaxCalls       \* bound: the calls of one behaviour

ASSUME AccountsAssumption == MaxCalls \in Nat

VARIABLE calls          \* history: how many calls there have been

vars == <<usersVars, sessionVars, directoryVars, searchVars, calls>>

TypeOK ==
    /\ calls \in 0..MaxCalls
    /\ UsersTypeOK
    /\ SessionsTypeOK
    /\ DirectoryTypeOK
    /\ SearchTypeOK

Init ==
    /\ UsersInit
    /\ SessionsInit
    /\ DirectoryInit
    /\ SearchInit
    /\ calls = 0

OnlyDirectory == UNCHANGED <<sessionVars, cache, lookup>>

OnlyUsers == UNCHANGED <<sessionVars, edit, audit, stale, acts, unlogged, contested,
                         cache, lookup>>

OnlySessions == UNCHANGED <<edit, audit, stale, acts, unlogged, contested, cache, lookup>>

OnlySearch == UNCHANGED <<usersVars, sessionVars, edit, audit, stale, acts, unlogged,
                          contested>>

\* A call begins.
Call ==
    \/ \E r \in Signups : RegisterCall(r) /\ OnlyUsers
    \/ \E r \in Auths : AuthCall(r) /\ OnlySessions
    \/ \E r \in Edits : (ProfileCall(r) \/ ServiceCall(r) \/ AdminCall(r)) /\ OnlyDirectory
    \/ \E s \in Services : CreateService(s) /\ OnlyDirectory
    \/ \E i \in Ids : Book(i) /\ OnlyDirectory
    \/ \E l \in Lookups, q \in Queries : LookupMiss(l, q) /\ OnlySearch

\* One that has begun goes on, or something happens by itself.
Progress ==
    \/ \E r \in Signups : RegisterStep(r) /\ OnlyUsers
    \/ \E i \in Ids : UserEvent(i) /\ OnlyUsers
    \/ \E r \in Auths : AuthStep(r) /\ OnlySessions
    \/ \E t \in Tokens : TokenExpires(t) /\ OnlySessions
    \/ \E r \in Edits : EditStep(r) /\ OnlyDirectory
    \/ \E l \in Lookups : LookupStep(l) /\ OnlySearch

Next ==
    /\ \/ Call /\ calls < MaxCalls /\ calls' = calls + 1 /\ Aged(0)
       \/ Progress /\ UNCHANGED calls /\ Aged(0)
       \/ Tick /\ OnlySearch /\ UNCHANGED calls /\ Aged(1)
    /\ NoteLate

Spec == Init /\ [][Next]_vars

-----------------------------------------------------------------------------
(* Properties *)

\* Calls that do not overlap leave what they would leave one after the other:
\* rows as each save meant them, one decision on a prestataire, one successor
\* of a refresh token.
SerialUnlessOverlapped == RowsAsMeant /\ DecidedOnce /\ RotatedOnce

\* A user has its profile, unless it is being registered or its registration
\* broke off, when only the user row was inserted.
ProfileOrHalfway ==
    \A i \in Ids : Stored(i) /\ ~HasRole(i, "ADMIN")
        => \/ i \in kept \cup halfway
           \/ \E r \in Signups : reg[r].pc = "profile" /\ reg[r].id = i

\* Work of several statements is left half done by a failure only.
HalfDoneOnlyByFailure == ProfileOrHalfway /\ ActsAreLogged
=============================================================================
