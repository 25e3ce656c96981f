-------------------------- MODULE DirectoryProofs --------------------------
(***************************************************************************)
(* Calls that overlap, and calls that break off: the proofs of             *)
(* HalfDoneOnlyByFailure and SerialUnlessOverlapped.                       *)
(***************************************************************************)
EXTENDS SessionsProofs, FiniteSetTheorems

-----------------------------------------------------------------------------
(* The steps *)

\* Users keep their roles, come or go.
SameUsersStored ==
    \A i \in Ids : user'[i].state = user[i].state /\ user'[i].role = user[i].role

\* A step of another part than the directory: its tables stay as they are.
Elsewhere ==
    UNCHANGED <<kept, row, meant, edit, audit, stale, acts, unlogged, contested>>

\* A step of request r of the directory.
EditMoves(r) ==
    ProfileCall(r) \/ ServiceCall(r) \/ AdminCall(r) \/ EditStep(r)

LEMMA RegisterOutcome ==
    ASSUME TypeOK, NEW r \in Signups, RegisterCall(r) \/ RegisterStep(r)
    PROVE  \/ \E i \in Ids : RegisterUser(r, i)
           \/ RegisterProfile(r)
           \/ RegisterFail(r)
           \/ /\ UNCHANGED <<user, Tables, halfway>>
              /\ \A q \in Signups : reg'[q] = reg[q] \/ /\ reg[q].pc # "profile"
                                                        /\ reg'[q].pc # "profile"
<1>0. reg \in [Signups -> Signup]
  BY DEF TypeOK, UsersTypeOK
<1>1. CASE RegisterCall(r)
  BY <1>0, <1>1 DEF RegisterCall, RegisterCheck, IdleSignup
<1>2. CASE RegisterConflict(r)
  BY <1>0, <1>2 DEF RegisterConflict, IdleSignup
<1> QED
  BY <1>1, <1>2 DEF RegisterStep

LEMMA EventOutcome ==
    ASSUME TypeOK, NEW i \in Ids, UserEvent(i)
    PROVE  /\ UNCHANGED <<Tables, reg, halfway>>
           /\ CreateInitialAdmin(i) \/ SameUsersStored
<1>0. user \in [Ids -> UserRow]
  BY DEF TypeOK, UsersTypeOK
<1>1. ASSUME NEW sent \in BOOLEAN, MailVerification(i, sent) \/ MailReset(i, sent)
      PROVE  SameUsersStored
  BY <1>0, <1>1 DEF MailVerification, MailReset, UserRow, SameUsersStored
<1>2. ASSUME LinkExpires(i) PROVE SameUsersStored
  BY <1>0, <1>2 DEF LinkExpires, UserRow, SameUsersStored
<1>3. UNCHANGED <<Tables, reg, halfway>>
  BY DEF UserEvent, CreateInitialAdmin, MailVerification, MailReset, LinkExpires
<1> QED
  BY <1>1, <1>2, <1>3 DEF UserEvent

LEMMA AuthOutcome ==
    ASSUME TypeOK, NEW r \in Auths, AuthCall(r) \/ AuthStep(r)
    PROVE  SameUsersStored /\ UNCHANGED <<Tables, reg, halfway>>
<1>0. /\ user \in [Ids -> UserRow]
      /\ auth[r].pc # "idle" => auth[r].user \in Ids
  BY DEF TypeOK, UsersTypeOK, SessionsTypeOK
<1>1. CASE UNCHANGED usersVars
  BY <1>1 DEF usersVars, Tables, SameUsersStored
<1>2. ASSUME NEW op, NEW columns, Updates(r, op, columns),
             Stored(auth[r].user) => /\ columns.state = user[auth[r].user].state
                                     /\ columns.role = user[auth[r].user].role
      PROVE  SameUsersStored /\ UNCHANGED <<Tables, reg, halfway>>
  <2>1. auth[r].user \in Ids
    BY <1>0, <1>2 DEF Updates
  <2> QED
    BY <1>0, <1>2, <2>1 DEF Updates, SameUsersStored
<1>3. \A u \in UserRow : \A n :
         /\ [u EXCEPT !.emailVerified = TRUE, !.verification = "none"].state = u.state
         /\ [u EXCEPT !.emailVerified = TRUE, !.verification = "none"].role = u.role
         /\ [u EXCEPT !.verification = n].state = u.state
         /\ [u EXCEPT !.verification = n].role = u.role
         /\ [u EXCEPT !.reset = n].state = u.state
         /\ [u EXCEPT !.reset = n].role = u.role
         /\ [u EXCEPT !.pw = n].state = u.state
         /\ [u EXCEPT !.pw = n].role = u.role
         /\ [u EXCEPT !.pw = n, !.reset = "none"].state = u.state
         /\ [u EXCEPT !.pw = n, !.reset = "none"].role = u.role
  BY DEF UserRow
<1>4. auth[r].pc = "update" => user[auth[r].user] \in UserRow
  BY <1>0
<1>5. CASE VerifyWrite(r) \/ ResendWrite(r) \/ ForgotWrite(r)
  BY <1>2, <1>3, <1>4, <1>5 DEF VerifyWrite, ResendWrite, ForgotWrite, Updates
<1>6. CASE ResetWrite(r) \/ ChangeWrite(r)
  BY <1>2, <1>3, <1>4, <1>6 DEF ResetWrite, ChangeWrite, Updates
<1> QED
  BY <1>1, <1>5, <1>6 DEF AuthCall, AuthStep, Login, VerifyBegin, ResendBegin, ForgotBegin,
     ResetBegin, RefreshRead, LogoutBegin, ChangeBegin, RefreshRevoke, SaveRefreshToken,
     RevokeAll, AuthFail

\* Every step, for the tables of the directory and the users they belong to.
LEMMA Steps ==
    ASSUME TypeOK, [Next]_vars
    PROVE  \/ \E r \in Edits : EditMoves(r) /\ NoteLate
           \/ \E s \in Services : CreateService(s) /\ NoteLate
           \/ \E i \in Ids : Book(i) /\ NoteLate
           \/ /\ \E r \in Signups : \/ \E i \in Ids : RegisterUser(r, i)
                                    \/ RegisterProfile(r) \/ RegisterFail(r)
              /\ UNCHANGED <<edit, audit, stale, acts, unlogged, contested>>
              /\ NoteLate
           \/ /\ \E i \in Ids : CreateInitialAdmin(i)
              /\ Elsewhere /\ NoteLate
           \/ /\ Elsewhere /\ SameUsersStored /\ UNCHANGED halfway
              /\ NoteLate \/ UNCHANGED late
              /\ \A q \in Signups : reg'[q] = reg[q] \/ /\ reg[q].pc # "profile"
                                                        /\ reg'[q].pc # "profile"
<1> DEFINE Quiet == /\ Elsewhere /\ SameUsersStored /\ UNCHANGED halfway
                    /\ \A q \in Signups : reg'[q] = reg[q] \/ /\ reg[q].pc # "profile"
                                                              /\ reg'[q].pc # "profile"
<1>1. CASE UNCHANGED vars
  BY <1>1 DEF vars, usersVars, directoryVars, Elsewhere, SameUsersStored
<1>2. CASE Call /\ NoteLate
  <2>1. ASSUME NEW r \in Signups, RegisterCall(r), OnlyUsers PROVE Quiet
    BY <2>1, RegisterOutcome DEF RegisterCall, RegisterCheck, OnlyUsers, Elsewhere, Tables,
       SameUsersStored, IdleSignup, TypeOK, UsersTypeOK
  <2>2. ASSUME NEW r \in Auths, AuthCall(r), OnlySessions PROVE Quiet
    BY <2>2, AuthOutcome DEF OnlySessions, Elsewhere, Tables
  <2>3. ASSUME OnlySearch PROVE Quiet
    BY <2>3 DEF OnlySearch, usersVars, Elsewhere, SameUsersStored
  <2> HIDE DEF Quiet
  <2>4. \/ Quiet
        \/ \E r \in Edits : EditMoves(r)
        \/ \E s \in Services : CreateService(s)
        \/ \E i \in Ids : Book(i)
    BY <1>2, <2>1, <2>2, <2>3 DEF Call, EditMoves
  <2> QED
    BY <1>2, <2>4 DEF Quiet
<1>3. CASE Progress /\ NoteLate
  <2>1. ASSUME NEW r \in Signups, RegisterStep(r), OnlyUsers
        PROVE  Quiet \/ \/ \E i \in Ids : RegisterUser(r, i)
                        \/ RegisterProfile(r) \/ RegisterFail(r)
    BY <2>1, RegisterOutcome DEF OnlyUsers, Elsewhere, Tables, SameUsersStored
  <2>2. ASSUME NEW i \in Ids, UserEvent(i), OnlyUsers
        PROVE  Quiet \/ (CreateInitialAdmin(i) /\ Elsewhere)
    BY <2>2, EventOutcome DEF OnlyUsers, Elsewhere, Tables
  <2>3. ASSUME NEW r \in Auths, AuthStep(r), OnlySessions PROVE Quiet
    BY <2>3, AuthOutcome DEF OnlySessions, Elsewhere, Tables
  <2>4. ASSUME NEW t \in Tokens, TokenExpires(t), OnlySessions PROVE Quiet
    BY <2>4 DEF TokenExpires, OnlySessions, usersVars, Elsewhere, SameUsersStored
  <2>5. ASSUME OnlySearch PROVE Quiet
    BY <2>5 DEF OnlySearch, usersVars, Elsewhere, SameUsersStored
  <2> HIDE DEF Quiet
  <2>6. \/ Quiet
        \/ \E r \in Edits : EditMoves(r)
        \/ /\ \E r \in Signups : \/ \E i \in Ids : RegisterUser(r, i)
                                 \/ RegisterProfile(r) \/ RegisterFail(r)
           /\ OnlyUsers
        \/ \E i \in Ids : CreateInitialAdmin(i) /\ Elsewhere
    BY <1>3, <2>1, <2>2, <2>3, <2>4, <2>5 DEF Progress, EditMoves
  <2> QED
    BY <1>3, <2>6 DEF Quiet, OnlyUsers
<1>4. CASE Tick /\ OnlySearch /\ NoteLate
  BY <1>4 DEF OnlySearch, usersVars, Elsewhere, SameUsersStored
<1> QED
  BY <1>1, <1>2, <1>3, <1>4 DEF Next

-----------------------------------------------------------------------------
(* Users without profile *)

LEMMA ProfilesKept ==
    ASSUME ProfileOrHalfway,
           \A i \in Ids : Stored(i)' => Stored(i) /\ user'[i].role = user[i].role,
           \A i \in Ids : i \in kept /\ Stored(i)' => i \in kept',
           \A r \in Signups : reg[r].pc = "profile" => reg'[r] = reg[r],
           halfway' = halfway
    PROVE  ProfileOrHalfway'
BY DEF ProfileOrHalfway, HasRole

LEMMA DeleteUserShown ==
    ASSUME TypeOK, NEW i \in Ids, DeleteUser(i)
    PROVE  /\ user'[i].state = "gone"
           /\ \A j \in Ids \ {i} : user'[j] = user[j]
           /\ \A k \in Keys : k \in kept' <=> k \in kept /\ OwnerOf(k) # i
           /\ kept' \subseteq kept
           /\ \A k \in Keys : OwnerOf(k) # i => row'[k] = row[k] /\ meant'[k] = meant[k]
           /\ \A k \in Keys : OwnerOf(k) = i => row'[k] = Blank /\ meant'[k] = Blank
BY DEF DeleteUser, TypeOK, UsersTypeOK, NoUser

\* What a step of a request does to users and profiles.
LEMMA EditOutcome ==
    ASSUME TypeOK, NEW r \in Edits, EditMoves(r)
    PROVE  /\ UNCHANGED <<reg, halfway>>
           /\ \/ SameUsersStored /\ kept' = kept
              \/ RejectAct(r) /\ DeleteUser(edit[r].id)
<1>0. user \in [Ids -> UserRow]
  BY DEF TypeOK, UsersTypeOK
<1>1. CASE UNCHANGED <<user, kept, reg, halfway>>
  BY <1>1 DEF SameUsersStored
<1>2. CASE RejectAct(r)
  BY <1>2 DEF RejectAct, Tables, SameUsersStored
<1>3. CASE SuspendAct(r)
  BY <1>0, <1>3 DEF SuspendAct, Tables, SameUsersStored, UserRow
<1>4. ProfileCall(r) => UNCHANGED <<user, kept, reg, halfway>>
  BY DEF ProfileCall, UpdatePrestataireBegin, UpdateClientBegin, usersVars
<1>5. ServiceCall(r) => UNCHANGED <<user, kept, reg, halfway>>
  BY DEF ServiceCall, UpdateServiceBegin, DeleteServiceBegin, ServiceBegin, ReorderBegin,
     usersVars
<1>6. AdminCall(r) => UNCHANGED <<user, kept, reg, halfway>>
  BY DEF AdminCall, ApproveBegin, RejectBegin, SuspendBegin, usersVars
<1>7. EditStep(r) => UNCHANGED <<user, kept, reg, halfway>> \/ RejectAct(r) \/ SuspendAct(r)
  BY DEF EditStep, SaveLoad, SaveRefused, SaveWrite, AuditStep, EditFail, usersVars
<1> QED
  BY <1>1, <1>2, <1>3, <1>4, <1>5, <1>6, <1>7 DEF EditMoves

LEMMA ProfileInductive ==
    ASSUME TypeOK, [Next]_vars, ProfileOrHalfway
    PROVE  ProfileOrHalfway'
<1>0. /\ user \in [Ids -> UserRow] /\ reg \in [Signups -> Signup]
      /\ \A r \in Signups : reg[r].pc = "profile" => reg[r].id \in Ids
  BY DEF TypeOK, UsersTypeOK
<1>1. ASSUME NEW r \in Edits, EditMoves(r) PROVE ProfileOrHalfway'
  <2>1. CASE SameUsersStored /\ kept' = kept
    BY <1>1, <2>1, EditOutcome, ProfilesKept DEF SameUsersStored, Stored
  <2>2. CASE RejectAct(r) /\ DeleteUser(edit[r].id)
    <3>1. edit[r].id \in Ids
      BY <2>2 DEF RejectAct, TypeOK, DirectoryTypeOK, AdminOps
    <3>2. /\ \A j \in Ids : Stored(j)' => j # edit[r].id /\ user'[j] = user[j]
          /\ \A j \in Ids \ {edit[r].id} : j \in kept => j \in kept'
      BY <2>2, <3>1, DeleteUserShown DEF Stored, Keys, OwnerOf
    <3> QED
      BY <1>1, <3>2, EditOutcome, ProfilesKept DEF Stored
  <2> QED
    BY <1>1, <2>1, <2>2, EditOutcome
<1>2. ASSUME NEW s \in Services, CreateService(s) PROVE ProfileOrHalfway'
  BY <1>2, ProfilesKept DEF CreateService, Insert, Stored
<1>3. ASSUME NEW i \in Ids, Book(i) PROVE ProfileOrHalfway'
  BY <1>3, ProfilesKept DEF Book, Stored
<1>4. ASSUME NEW r \in Signups, NEW i \in Ids, RegisterUser(r, i) PROVE ProfileOrHalfway'
  <2>1. /\ \A j \in Ids \ {i} : user'[j] = user[j]
        /\ reg'[r].pc = "profile" /\ reg'[r].id = i
        /\ \A q \in Signups \ {r} : reg'[q] = reg[q]
        /\ reg[r].pc # "profile"
        /\ UNCHANGED <<kept, halfway>>
    BY <1>0, <1>4 DEF RegisterUser, IdleSignup, Tables
  <2> QED
    BY <2>1 DEF ProfileOrHalfway, Stored, HasRole
<1>5. ASSUME NEW r \in Signups, RegisterProfile(r) PROVE ProfileOrHalfway'
  <2>1. /\ \A j \in Ids : user'[j].state = user[j].state /\ user'[j].role = user[j].role
        /\ kept' = kept \cup {reg[r].id} /\ halfway' = halfway
        /\ \A q \in Signups \ {r} : reg'[q] = reg[q]
    BY <1>0, <1>5 DEF RegisterProfile, Insert, UserRow
  <2> QED
    BY <2>1 DEF ProfileOrHalfway, Stored, HasRole
<1>6. ASSUME NEW r \in Signups, RegisterFail(r) PROVE ProfileOrHalfway'
  <2>1. /\ user' = user /\ kept' = kept
        /\ reg[r].pc = "profile" => halfway' = halfway \cup {reg[r].id}
        /\ halfway \subseteq halfway'
        /\ \A q \in Signups \ {r} : reg'[q] = reg[q]
    BY <1>0, <1>6 DEF RegisterFail, Tables
  <2> QED
    BY <2>1 DEF ProfileOrHalfway, Stored, HasRole
<1>7. ASSUME NEW i \in Ids, CreateInitialAdmin(i) PROVE ProfileOrHalfway'
  <2>1. /\ user'[i].role = "ADMIN" /\ \A j \in Ids \ {i} : user'[j] = user[j]
        /\ UNCHANGED <<kept, reg, halfway>>
    BY <1>0, <1>7 DEF CreateInitialAdmin, NoUser, Tables
  <2> QED
    BY <2>1 DEF ProfileOrHalfway, Stored, HasRole
<1>8. ASSUME Elsewhere, SameUsersStored, UNCHANGED halfway,
             \A q \in Signups : reg'[q] = reg[q] \/ /\ reg[q].pc # "profile"
                                                    /\ reg'[q].pc # "profile"
      PROVE  ProfileOrHalfway'
  BY <1>8, ProfilesKept DEF Elsewhere, SameUsersStored, Stored
<1> QED
  BY <1>1, <1>2, <1>3, <1>4, <1>5, <1>6, <1>7, <1>8, Steps

-----------------------------------------------------------------------------
(* Acts without audit entry *)

Auditing(q, i, op) == q.pc = "audit" /\ q.id = i /\ q.op = op

\* The requests that are about to write an entry.
Waiting(i, op) ==
    {r \in Edits : edit[r].pc = "audit" /\ edit[r].id = i /\ edit[r].op = op}

LEMMA WaitingFinite == \A i, op : IsFiniteSet(Waiting(i, op))
BY DirectoryAssumption, FS_Subset DEF Waiting

\* Acts and their entries, one by one.
Logged(i, op) ==
    acts[<<i, op>>] = audit[<<i, op>>] + unlogged[<<i, op>>] + Cardinality(Waiting(i, op))

LEMMA LoggedMeans ==
    /\ ActsAreLogged <=> \A i \in Ids, op \in AdminOps : Logged(i, op)
    /\ ActsAreLogged' <=> \A i \in Ids, op \in AdminOps : Logged(i, op)'
BY DEF ActsAreLogged, Logged, Waiting

LEMMA CountersAreNat ==
    ASSUME TypeOK, NEW i \in Ids, NEW op \in AdminOps
    PROVE  /\ acts[<<i, op>>] \in Nat /\ audit[<<i, op>>] \in Nat
           /\ unlogged[<<i, op>>] \in Nat
           /\ Cardinality(Waiting(i, op)) \in Nat
<1>1. <<i, op>> \in Ids \X AdminOps
  OBVIOUS
<1> QED
  BY <1>1, WaitingFinite, FS_CardinalityType DEF TypeOK, DirectoryTypeOK, Counters

\* A counter with one more for user i and op.
LEMMA Counted ==
    ASSUME NEW x \in Counters, NEW i \in Ids, NEW op \in AdminOps,
           NEW j \in Ids, NEW o \in AdminOps
    PROVE  [x EXCEPT ![<<i, op>>] = @ + 1][<<j, o>>] =
              IF j = i /\ o = op THEN x[<<j, o>>] + 1 ELSE x[<<j, o>>]
BY DEF Counters

\* Nobody begins or stops waiting, and nothing is counted.
LEMMA NobodyWaits ==
    ASSUME TypeOK, ActsAreLogged, NEW r \in Edits, NEW q,
           edit' = [edit EXCEPT ![r] = q], edit[r].pc # "audit", q.pc # "audit",
           UNCHANGED Logs
    PROVE  ActsAreLogged'
<1>1. \A i, op : Waiting(i, op)' = Waiting(i, op)
  BY DEF Waiting, TypeOK, DirectoryTypeOK
<1>2. \A i \in Ids, op \in AdminOps : Logged(i, op)'
  BY <1>1, LoggedMeans DEF Logged, Logs
<1> QED
  BY <1>2, LoggedMeans

LEMMA NothingLogged ==
    ASSUME ActsAreLogged, UNCHANGED <<edit, Logs>>
    PROVE  ActsAreLogged'
BY DEF ActsAreLogged, Logs

\* Request r has acted and is to write the entry.
LEMMA ActedWaits ==
    ASSUME TypeOK, ActsAreLogged, NEW r \in Edits,
           edit[r].pc # "audit", edit[r].op \in AdminOps,
           ToAudit(r), Acted(r), UNCHANGED <<audit, unlogged>>
    PROVE  ActsAreLogged'
<1> DEFINE u == edit[r].id
           o == edit[r].op
<1>1. u \in Ids /\ edit[r] \in EditRequest
  BY DEF TypeOK, DirectoryTypeOK
<1>2. edit'[r].pc = "audit" /\ edit'[r].id = u /\ edit'[r].op = o
  BY <1>1 DEF ToAudit, EditRequest, TypeOK, DirectoryTypeOK
<1>3. \A q \in Edits \ {r} : edit'[q] = edit[q]
  BY DEF ToAudit, TypeOK, DirectoryTypeOK
<1>4. /\ acts'[<<u, o>>] = acts[<<u, o>>] + 1
      /\ \A j \in Ids, p \in AdminOps :
            ~(j = u /\ p = o) => acts'[<<j, p>>] = acts[<<j, p>>]
  <2>1. acts \in Counters /\ acts' = [acts EXCEPT ![<<u, o>>] = @ + 1]
    BY DEF Acted, TypeOK, DirectoryTypeOK
  <2> QED
    BY <1>1, <2>1, Counted
<1> SUFFICES ASSUME NEW i \in Ids, NEW op \in AdminOps PROVE Logged(i, op)'
  BY LoggedMeans
<1>5. Logged(i, op)
  BY LoggedMeans
<1>6. CASE i = u /\ op = o
  <2>1. Waiting(i, op)' = Waiting(i, op) \cup {r} /\ r \notin Waiting(i, op)
    BY <1>2, <1>3, <1>6 DEF Waiting
  <2>2. Cardinality(Waiting(i, op)') = Cardinality(Waiting(i, op)) + 1
    BY <2>1, WaitingFinite, FS_AddElement
  <2> QED
    BY <1>4, <1>5, <1>6, <2>2, CountersAreNat DEF Logged
<1>7. CASE ~(i = u /\ op = o)
  <2>1. Waiting(i, op)' = Waiting(i, op)
    BY <1>2, <1>3, <1>7 DEF Waiting
  <2> QED
    BY <1>4, <1>5, <1>7, <2>1 DEF Logged
<1> QED
  BY <1>6, <1>7

\* Request r, which was to write the entry, ends; it is counted in one of the
\* counters of entries.
LEMMA WaiterEnds ==
    ASSUME TypeOK, ActsAreLogged, NEW r \in Edits, edit[r].pc = "audit",
           EditEnds(r), acts' = acts,
           \/ /\ audit' = [audit EXCEPT ![<<edit[r].id, edit[r].op>>] = @ + 1]
              /\ unlogged' = unlogged
           \/ /\ unlogged' = [unlogged EXCEPT ![<<edit[r].id, edit[r].op>>] = @ + 1]
              /\ audit' = audit
    PROVE  ActsAreLogged'
<1>1. PICK u \in Ids, o \in AdminOps : edit[r].id = u /\ edit[r].op = o
  BY DEF TypeOK, DirectoryTypeOK
<1>2. edit'[r].pc = "idle" /\ \A q \in Edits \ {r} : edit'[q] = edit[q]
  BY IdleEditTyped DEF EditEnds, TypeOK, DirectoryTypeOK
<1>3. audit \in Counters /\ unlogged \in Counters
  BY DEF TypeOK, DirectoryTypeOK
<1>4. \/ /\ audit' = [audit EXCEPT ![<<u, o>>] = @ + 1]
         /\ unlogged' = unlogged
      \/ /\ unlogged' = [unlogged EXCEPT ![<<u, o>>] = @ + 1]
         /\ audit' = audit
  BY <1>1
<1>5. ASSUME NEW i \in Ids, NEW op \in AdminOps
      PROVE  LET counted(x) == IF i = u /\ op = o THEN x[<<i, op>>] + 1 ELSE x[<<i, op>>]
             IN  \/ audit'[<<i, op>>] = counted(audit) /\ unlogged' = unlogged
                 \/ unlogged'[<<i, op>>] = counted(unlogged) /\ audit' = audit
  <2>1. [audit EXCEPT ![<<u, o>>] = @ + 1][<<i, op>>] =
           IF i = u /\ op = o THEN audit[<<i, op>>] + 1 ELSE audit[<<i, op>>]
    BY <1>3, Counted
  <2>2. [unlogged EXCEPT ![<<u, o>>] = @ + 1][<<i, op>>] =
           IF i = u /\ op = o THEN unlogged[<<i, op>>] + 1 ELSE unlogged[<<i, op>>]
    BY <1>3, Counted
  <2> QED
    BY <1>4, <2>1, <2>2
<1> SUFFICES ASSUME NEW i \in Ids, NEW op \in AdminOps PROVE Logged(i, op)'
  BY LoggedMeans
<1>6. Logged(i, op)
  BY LoggedMeans
<1>7. CASE i = u /\ op = o
  <2>1. Waiting(i, op)' = Waiting(i, op) \ {r} /\ r \in Waiting(i, op)
    BY <1>1, <1>2, <1>7 DEF Waiting
  <2>2. Cardinality(Waiting(i, op)') = Cardinality(Waiting(i, op)) - 1
    BY <2>1, WaitingFinite, FS_RemoveElement
  <2> QED
    BY <1>5, <1>6, <1>7, <2>2, CountersAreNat DEF Logged
<1>8. CASE ~(i = u /\ op = o)
  <2>1. Waiting(i, op)' = Waiting(i, op)
    BY <1>1, <1>2, <1>8 DEF Waiting
  <2> QED
    BY <1>5, <1>6, <1>8, <2>1 DEF Logged
<1> QED
  BY <1>7, <1>8

LEMMA SavedLogs ==
    ASSUME TypeOK, ActsAreLogged, NEW r \in Edits, edit[r].pc # "audit", Saved(r),
           UNCHANGED <<audit, unlogged>>
    PROVE  ActsAreLogged'
<1>1. CASE edit[r].rest # <<>>
  <2> DEFINE q == [edit[r] EXCEPT !.pc = "load", !.key = Head(edit[r].rest),
                                  !.rest = Tail(edit[r].rest), !.dirty = {}]
  <2>1. edit[r] \in EditRequest
    BY DEF TypeOK, DirectoryTypeOK
  <2>2. q.pc = "load"
    BY <2>1 DEF EditRequest
  <2>3. edit' = [edit EXCEPT ![r] = q] /\ acts' = acts
    BY <1>1 DEF Saved
  <2> HIDE DEF q
  <2> QED
    BY <2>2, <2>3, NobodyWaits DEF Logs
<1>2. CASE edit[r].rest = <<>> /\ edit[r].op = "approve"
  BY <1>2, ActedWaits DEF Saved, AdminOps
<1>3. CASE edit[r].rest = <<>> /\ edit[r].op # "approve"
  BY <1>3, NobodyWaits, IdleEditTyped DEF Saved, EditEnds, Logs
<1> QED
  BY <1>1, <1>2, <1>3

\* How a call begins: the request was idle and does not wait yet.
LEMMA CallsBegin ==
    ASSUME TypeOK, NEW r \in Edits, ProfileCall(r) \/ ServiceCall(r) \/ AdminCall(r)
    PROVE  /\ edit[r].pc = "idle"
           /\ UNCHANGED <<usersVars, Logs, stale>>
           /\ \E q : /\ edit' = [edit EXCEPT ![r] = q]
                     /\ q.pc \in {"load", "act"}
<1> DEFINE Goal == /\ edit[r].pc = "idle"
                   /\ UNCHANGED <<usersVars, Logs, stale>>
                   /\ \E q : /\ edit' = [edit EXCEPT ![r] = q]
                             /\ q.pc \in {"load", "act"}
<1>1. ASSUME NEW op, NEW i, NEW key, NEW rest, NEW copy, NEW asks,
             Save(r, op, i, key, rest, copy, asks)
      PROVE  \E q : edit' = [edit EXCEPT ![r] = q] /\ q.pc \in {"load", "act"}
  <2> DEFINE q == [IdleEdit EXCEPT !.pc = "load", !.op = op, !.id = i, !.key = key,
                      !.rest = rest, !.copy = copy, !.asks = asks, !.had = ServicesOf(i)]
  <2>1. q.pc = "load"
    BY DEF IdleEdit
  <2>2. edit' = [edit EXCEPT ![r] = q]
    BY <1>1 DEF Save
  <2> QED
    BY <2>1, <2>2
<1>2. ASSUME NEW op, NEW i, Act(r, op, i)
      PROVE  \E q : edit' = [edit EXCEPT ![r] = q] /\ q.pc \in {"load", "act"}
  <2> DEFINE q == [IdleEdit EXCEPT !.pc = "act", !.op = op, !.id = i]
  <2>1. q.pc = "act"
    BY DEF IdleEdit
  <2>2. edit' = [edit EXCEPT ![r] = q]
    BY <1>2 DEF Act
  <2> QED
    BY <2>1, <2>2
<1>3. ASSUME NEW i \in Ids, NEW c, NEW v, UpdatePrestataireBegin(r, i, c, v) PROVE Goal
  BY <1>1, <1>3 DEF UpdatePrestataireBegin
<1>4. ASSUME NEW i \in Ids, NEW v, UpdateClientBegin(r, i, v) PROVE Goal
  BY <1>1, <1>4 DEF UpdateClientBegin
<1>5. ASSUME NEW s, NEW c, NEW v, ServiceBegin(r, s, c, v) PROVE Goal
  BY <1>1, <1>5 DEF ServiceBegin
<1>6. ASSUME NEW s, NEW t, ReorderBegin(r, s, t) PROVE Goal
  BY <1>1, <1>6 DEF ReorderBegin
<1>7. ASSUME NEW i \in Ids, ApproveBegin(r, i) PROVE Goal
  BY <1>1, <1>7 DEF ApproveBegin, Pending
<1>8. ASSUME NEW i \in Ids, RejectBegin(r, i) PROVE Goal
  BY <1>2, <1>8 DEF RejectBegin, Pending
<1>9. ASSUME NEW i \in Ids, NEW op, SuspendBegin(r, op, i) PROVE Goal
  BY <1>2, <1>9 DEF SuspendBegin
<1> HIDE DEF Goal
<1>10. Goal
  BY <1>3, <1>4, <1>5, <1>6, <1>7, <1>8, <1>9 DEF ProfileCall, ServiceCall, AdminCall,
     UpdateServiceBegin, DeleteServiceBegin
<1> QED
  BY <1>10 DEF Goal

LEMMA EditLogs ==
    ASSUME TypeOK, ActsAreLogged, NEW r \in Edits, EditMoves(r)
    PROVE  ActsAreLogged'
<1>0. edit[r] \in EditRequest
  BY DEF TypeOK, DirectoryTypeOK
<1>1. CASE ProfileCall(r) \/ ServiceCall(r) \/ AdminCall(r)
  BY <1>1, CallsBegin, NobodyWaits
<1>2. CASE SaveLoad(r)
  <2>1. CASE Saved(r)
    BY <1>2, <2>1, SavedLogs DEF SaveLoad
  <2>2. CASE ~Saved(r)
    <3> DEFINE dirty == {c \in Columns : edit[r].copy[edit[r].key][c] # row[edit[r].key][c]}
               q == [edit[r] EXCEPT !.pc = "write", !.dirty = dirty]
    <3>1. q.pc = "write"
      BY <1>0 DEF EditRequest
    <3>2. edit' = [edit EXCEPT ![r] = q] /\ UNCHANGED Logs
      BY <1>2, <2>2 DEF SaveLoad, Logs
    <3> HIDE DEF q
    <3> QED
      BY <1>2, <3>1, <3>2, NobodyWaits DEF SaveLoad
  <2> QED
    BY <2>1, <2>2
<1>3. CASE SaveRefused(r)
  BY <1>3, NobodyWaits, IdleEditTyped DEF SaveRefused, EditEnds
<1>4. CASE SaveWrite(r)
  BY <1>4, SavedLogs DEF SaveWrite
<1>5. CASE RejectAct(r)
  BY <1>5, ActedWaits DEF RejectAct, AdminOps
<1>6. CASE SuspendAct(r)
  BY <1>6, ActedWaits DEF SuspendAct, AdminOps
<1>7. CASE AuditStep(r)
  BY <1>7, WaiterEnds DEF AuditStep
<1>8. CASE EditFail(r)
  <2>1. CASE edit[r].pc = "audit"
    BY <1>8, <2>1, WaiterEnds DEF EditFail
  <2>2. CASE edit[r].pc # "audit"
    BY <1>8, <2>2, NobodyWaits, IdleEditTyped DEF EditFail, EditEnds, Logs
  <2> QED
    BY <2>1, <2>2
<1> QED
  BY <1>1, <1>2, <1>3, <1>4, <1>5, <1>6, <1>7, <1>8 DEF EditMoves, EditStep

LEMMA LogsInductive ==
    ASSUME TypeOK, [Next]_vars, ActsAreLogged
    PROVE  ActsAreLogged'
<1>1. \/ \E r \in Edits : EditMoves(r)
      \/ UNCHANGED <<edit, Logs>>
  BY Steps DEF CreateService, Book, Elsewhere, Logs
<1> QED
  BY <1>1, EditLogs, NothingLogged

\* What takes several statements is left half done by a failure only: a user
\* without profile, an act of an administrator without its audit entry.
THEOREM HalfDoneSound == Spec => []HalfDoneOnlyByFailure
<1>1. Init => HalfDoneOnlyByFailure
  <2> SUFFICES ASSUME Init PROVE HalfDoneOnlyByFailure
    OBVIOUS
  <2>1. ProfileOrHalfway
    BY UsersAssumption DEF Init, UsersInit, ProfileOrHalfway, Stored, HasRole, Known,
       NoUser, Roles
  <2>2. ActsAreLogged
    <3>1. \A i \in Ids, op \in AdminOps : Waiting(i, op) = {}
      BY IdleEditTyped DEF Init, DirectoryInit, Waiting
    <3>2. \A i \in Ids, op \in AdminOps :
             acts[<<i, op>>] = 0 /\ audit[<<i, op>>] = 0 /\ unlogged[<<i, op>>] = 0
      BY DEF Init, DirectoryInit, NoCount
    <3> QED
      BY <3>1, <3>2, FS_EmptySet, LoggedMeans DEF Logged
  <2> QED
    BY <2>1, <2>2 DEF HalfDoneOnlyByFailure
<1>2. TypeOK /\ HalfDoneOnlyByFailure /\ [Next]_vars => HalfDoneOnlyByFailure'
  BY ProfileInductive, LogsInductive DEF HalfDoneOnlyByFailure
<1> QED
  BY <1>1, <1>2, AccountsTyped, PTL DEF Spec

-----------------------------------------------------------------------------
(* What a save holds.  A copy that is not late is the row it was read from,  *)
(* but for the columns its call is about.                                    *)

\* The rows that q is still to save.
ToSave(q) == {q.key} \cup {q.rest[n] : n \in 1..Len(q.rest)}

\* The copy of row k, when columns is what the row holds.
FromRow(q, k, columns) ==
    /\ \A c \in Columns \ q.asks : q.copy[k][c] = columns[c]
    /\ "profileCompleted" \in q.asks
          => q.copy[k]["profileCompleted"] = Complete(q.copy[k])

\* Request q, when the rows are rows and those in past are late for it.
Honest(q, rows, past) ==
    q.pc \in {"load", "write"} =>
        /\ \A k \in ToSave(q) \ past : FromRow(q, k, rows[k])
        /\ q.pc = "write" /\ q.key \notin past
              => q.dirty = {c \in Columns : q.copy[q.key][c] # rows[q.key][c]}
        /\ q.op = "approve" => /\ q.rest = <<>> /\ q.key = q.id
                               /\ q.copy[q.key]["status"] = ACTIVE
        /\ q.op # "approve" => "status" \notin q.asks

CopiesHonest == \A r \in Edits : Honest(edit[r], row, late[r])

LEMMA HonestStays ==
    ASSUME NEW q, NEW rows, NEW past, NEW rows2, NEW past2,
           Honest(q, rows, past),
           \A k \in ToSave(q) : k \notin past2 => k \notin past /\ rows2[k] = rows[k]
    PROVE  Honest(q, rows2, past2)
BY DEF Honest, ToSave

LEMMA ToSaveKeys ==
    ASSUME TypeOK, NEW r \in Edits, edit[r].pc \in {"load", "write"}
    PROVE  /\ ToSave(edit[r]) \subseteq Keys
           /\ edit[r] \in EditRequest /\ edit[r].key \in Keys
           /\ edit[r].rest \in Seq(Services)
<1>1. edit[r] \in EditRequest /\ edit[r].key \in Keys /\ edit[r].rest \in Seq(Services)
  BY DEF TypeOK, DirectoryTypeOK, EditRequest
<1>2. \A n \in 1..Len(edit[r].rest) : edit[r].rest[n] \in Keys
  BY <1>1 DEF Keys
<1> QED
  BY <1>1, <1>2 DEF ToSave

\* Late rows are known to be late: a row not late has not changed.
LEMMA LateNoted ==
    ASSUME TypeOK, NoteLate, NEW r \in Edits, edit'[r].pc # "idle", NEW k \in Keys,
           k \notin late'[r]
    PROVE  k \notin late[r] /\ row'[k] = row[k]
<1>1. late'[r] = late[r] \cup {x \in Keys : row'[x] # row[x]}
  BY DEF NoteLate
<1> QED
  BY <1>1

LEMMA OtherHonest ==
    ASSUME TypeOK, CopiesHonest, NoteLate, NEW r \in Edits, edit'[r] = edit[r]
    PROVE  Honest(edit'[r], row', late'[r])
<1>1. CASE edit[r].pc \in {"load", "write"}
  <2>1. \A k \in ToSave(edit[r]) : k \notin late'[r] => k \notin late[r] /\ row'[k] = row[k]
    BY <1>1, ToSaveKeys, LateNoted
  <2> QED
    BY <2>1, HonestStays DEF CopiesHonest
<1>2. CASE edit[r].pc \notin {"load", "write"}
  BY <1>2 DEF Honest
<1> QED
  BY <1>1, <1>2

\* A save begins.
LEMMA SaveHonest ==
    ASSUME TypeOK, NEW r \in Edits, NEW op, NEW i, NEW key, NEW rest \in Seq(Services),
           NEW copy, NEW asks, Save(r, op, i, key, rest, copy, asks), row' = row,
           \A k \in {key} \cup {rest[n] : n \in 1..Len(rest)} :
               /\ \A c \in Columns \ asks : copy[k][c] = row[k][c]
               /\ "profileCompleted" \in asks
                     => copy[k]["profileCompleted"] = Complete(copy[k]),
           op = "approve" => rest = <<>> /\ key = i /\ copy[key]["status"] = ACTIVE,
           op # "approve" => "status" \notin asks
    PROVE  Honest(edit'[r], row', late'[r])
<1> DEFINE q == [IdleEdit EXCEPT !.pc = "load", !.op = op, !.id = i, !.key = key,
                    !.rest = rest, !.copy = copy, !.asks = asks, !.had = ServicesOf(i)]
<1>1. /\ q.pc = "load" /\ q.op = op /\ q.id = i /\ q.key = key
      /\ q.rest = rest /\ q.copy = copy /\ q.asks = asks
  BY DEF IdleEdit
<1>2. edit'[r] = q
  BY DEF Save, TypeOK, DirectoryTypeOK
<1> HIDE DEF q
<1> QED
  BY <1>1, <1>2 DEF Honest, ToSave, FromRow

LEMMA CallHonest ==
    ASSUME TypeOK, NEW r \in Edits, ProfileCall(r) \/ ServiceCall(r) \/ AdminCall(r)
    PROVE  Honest(edit'[r], row', late'[r])
<1> DEFINE Goal == Honest(edit'[r], row', late'[r])
<1>0. /\ << >> \in Seq(Services)
      /\ {<< >>[n] : n \in 1..Len(<< >>)} = {}
      /\ \A i \in Ids : i \in Keys
      /\ \A s \in Services : s \in Keys
      /\ \A k \in Keys : row[k] \in Row
      /\ row' = row
  <2>1. row' = row
    BY CallsBegin DEF usersVars
  <2> QED
    BY <2>1 DEF Keys, TypeOK, UsersTypeOK
<1>1. \A x : \A k \in Keys : Copy(k, x)[k] = x
  BY DEF Copy
<1>2. ASSUME NEW i \in Ids, NEW c \in Columns, NEW v \in {0, 1},
             UpdatePrestataireBegin(r, i, c, v)
      PROVE  Goal
  <2> DEFINE asks == {c, "profileCompleted"}
             x == [row[i] EXCEPT ![c] = v]
             y == [x EXCEPT !["profileCompleted"] = Complete(x)]
  <2>1. c \in {"bio", "categories"}
    BY <1>2 DEF UpdatePrestataireBegin, ProfileColumns
  <2>2. Save(r, "update", i, i, <<>>, Copy(i, y), asks)
    BY <1>2 DEF UpdatePrestataireBegin, Edited
  <2>3. \A d \in Columns \ asks : y[d] = row[i][d]
    BY <1>0 DEF Row
  <2>4. y["profileCompleted"] = Complete(y)
    BY <1>0, <2>1 DEF Row, Columns, Complete
  <2>5. Copy(i, y)[i] = y
    BY <1>0, <1>1
  <2>6. "status" \notin asks
    BY <2>1
  <2> HIDE DEF y, asks
  <2> QED
    BY <1>0, <2>2, <2>3, <2>4, <2>5, <2>6, SaveHonest
<1>3. ASSUME NEW i \in Ids, NEW v \in {0, 1}, UpdateClientBegin(r, i, v) PROVE Goal
  <2> DEFINE y == [row[i] EXCEPT !["bio"] = v]
  <2>1. Save(r, "update", i, i, <<>>, Copy(i, y), {"bio"})
    BY <1>3 DEF UpdateClientBegin
  <2>2. \A d \in Columns \ {"bio"} : y[d] = row[i][d]
    BY <1>0 DEF Row
  <2>3. Copy(i, y)[i] = y
    BY <1>0, <1>1
  <2> HIDE DEF y
  <2> QED
    BY <1>0, <2>1, <2>2, <2>3, SaveHonest
<1>4. ASSUME NEW s \in Services, NEW c \in ServiceColumns, NEW v, ServiceBegin(r, s, c, v)
      PROVE  Goal
  <2> DEFINE y == [row[s] EXCEPT ![c] = v]
  <2>1. PICK o : Save(r, "service", o, s, <<>>, Copy(s, y), {c})
    BY <1>4 DEF ServiceBegin
  <2>2. \A d \in Columns \ {c} : y[d] = row[s][d]
    BY <1>0 DEF Row
  <2>3. Copy(s, y)[s] = y
    BY <1>0, <1>1
  <2>4. c # "status" /\ c # "profileCompleted"
    BY DEF ServiceColumns
  <2> HIDE DEF y
  <2>5. \A k \in {s} \cup {<< >>[n] : n \in 1..Len(<< >>)} :
           /\ \A d \in Columns \ {c} : Copy(s, y)[k][d] = row[k][d]
           /\ "profileCompleted" \in {c}
                 => Copy(s, y)[k]["profileCompleted"] = Complete(Copy(s, y)[k])
    BY <1>0, <2>2, <2>3, <2>4
  <2> QED
    BY <1>0, <2>1, <2>4, <2>5, SaveHonest
<1>5. ASSUME NEW s \in Services, NEW t \in Services, ReorderBegin(r, s, t) PROVE Goal
  <2> DEFINE one == [row[s] EXCEPT !["displayOrder"] = 0]
             two == [row[t] EXCEPT !["displayOrder"] = 1]
             copy == [Copy(s, one) EXCEPT ![t] = two]
  <2>1. PICK o : Save(r, "service", o, s, <<t>>, copy, {"displayOrder"}) /\ s # t
    BY <1>5 DEF ReorderBegin
  <2>2. /\ \A d \in Columns \ {"displayOrder"} : one[d] = row[s][d]
        /\ \A d \in Columns \ {"displayOrder"} : two[d] = row[t][d]
    BY <1>0 DEF Row
  <2> HIDE DEF one, two
  <2>3. copy[s] = one /\ copy[t] = two
    BY <1>0, <2>1 DEF Copy
  <2>4. <<t>> \in Seq(Services) /\ {<<t>>[n] : n \in 1..Len(<<t>>)} = {t}
    OBVIOUS
  <2> HIDE DEF copy
  <2>5. \A k \in {s} \cup {<<t>>[n] : n \in 1..Len(<<t>>)} :
           /\ \A d \in Columns \ {"displayOrder"} : copy[k][d] = row[k][d]
           /\ "profileCompleted" \in {"displayOrder"}
                 => copy[k]["profileCompleted"] = Complete(copy[k])
    BY <1>0, <2>2, <2>3, <2>4
  <2> QED
    BY <1>0, <2>1, <2>4, <2>5, SaveHonest
<1>6. ASSUME NEW i \in Ids, ApproveBegin(r, i) PROVE Goal
  <2> DEFINE y == [row[i] EXCEPT !["status"] = ACTIVE]
  <2>1. Save(r, "approve", i, i, <<>>, Copy(i, y), {"status"})
    BY <1>6 DEF ApproveBegin
  <2>2. (\A d \in Columns \ {"status"} : y[d] = row[i][d]) /\ y["status"] = ACTIVE
    BY <1>0 DEF Row, Columns
  <2>3. Copy(i, y)[i] = y
    BY <1>0, <1>1
  <2> HIDE DEF y
  <2> QED
    BY <1>0, <2>1, <2>2, <2>3, SaveHonest
<1>7. ASSUME NEW i \in Ids, NEW op, Act(r, op, i) PROVE Goal
  <2>1. edit'[r] = [IdleEdit EXCEPT !.pc = "act", !.op = op, !.id = i]
    BY <1>7 DEF Act, TypeOK, DirectoryTypeOK
  <2>2. edit'[r].pc = "act"
    BY <2>1 DEF IdleEdit
  <2> QED
    BY <2>2 DEF Honest
<1> HIDE DEF Goal
<1>8. Goal
  BY <1>2, <1>3, <1>4, <1>5, <1>6, <1>7 DEF ProfileCall, ServiceCall, AdminCall,
     UpdateServiceBegin, DeleteServiceBegin, ServiceColumns, RejectBegin, SuspendBegin
<1> QED
  BY <1>8 DEF Goal

LEMMA SavedHonest ==
    ASSUME TypeOK, CopiesHonest, NoteLate, NEW r \in Edits,
           edit[r].pc \in {"load", "write"}, Saved(r)
    PROVE  Honest(edit'[r], row', late'[r])
<1>0. edit[r] \in EditRequest /\ edit \in [Edits -> EditRequest]
  BY DEF TypeOK, DirectoryTypeOK
<1>1. CASE edit[r].rest # <<>>
  <2> DEFINE p == edit[r]
             q == [p EXCEPT !.pc = "load", !.key = Head(p.rest),
                            !.rest = Tail(p.rest), !.dirty = {}]
  <2>1. edit'[r] = q
    BY <1>0, <1>1 DEF Saved
  <2>2. /\ q.pc = "load" /\ q.op = p.op /\ q.copy = p.copy /\ q.asks = p.asks
        /\ q.key = Head(p.rest) /\ q.rest = Tail(p.rest)
    BY <1>0 DEF EditRequest
  <2> HIDE DEF q
  <2>3. p.rest \in Seq(Services) /\ p.rest # <<>>
    BY <1>1, ToSaveKeys
  <2>4. ToSave(q) \subseteq ToSave(p)
    <3>1. Head(p.rest) = p.rest[1] /\ 1 \in 1..Len(p.rest)
      BY <2>3
    <3>2. \A n \in 1..Len(Tail(p.rest)) :
             n + 1 \in 1..Len(p.rest) /\ Tail(p.rest)[n] = p.rest[n + 1]
      BY <2>3
    <3> QED
      BY <2>2, <3>1, <3>2 DEF ToSave
  <2>5. Honest(p, row, late[r])
    BY DEF CopiesHonest
  <2>6. Honest(q, row, late[r])
    <3>1. \A k \in ToSave(q) \ late[r] : FromRow(p, k, row[k])
      BY <2>4, <2>5 DEF Honest
    <3>2. \A k \in ToSave(q) \ late[r] : FromRow(q, k, row[k])
      BY <2>2, <3>1 DEF FromRow
    <3> QED
      BY <1>1, <2>2, <2>5, <3>2 DEF Honest
  <2>7. \A k \in ToSave(q) : k \notin late'[r] => k \notin late[r] /\ row'[k] = row[k]
    <3>1. ToSave(q) \subseteq Keys
      BY <2>4, ToSaveKeys
    <3> QED
      BY <2>1, <2>2, <3>1, LateNoted
  <2> QED
    BY <2>1, <2>6, <2>7, HonestStays
<1>2. CASE edit[r].rest = <<>>
  <2>1. edit'[r].pc \in {"audit", "idle"}
    BY <1>0, <1>2, IdleEditTyped DEF Saved, ToAudit, EditEnds, EditRequest
  <2> QED
    BY <2>1 DEF Honest
<1> QED
  BY <1>1, <1>2

LEMMA EditStepHonest ==
    ASSUME TypeOK, CopiesHonest, NoteLate, NEW r \in Edits, EditStep(r)
    PROVE  Honest(edit'[r], row', late'[r])
<1>0. edit[r] \in EditRequest /\ edit \in [Edits -> EditRequest]
  BY DEF TypeOK, DirectoryTypeOK
<1>1. CASE SaveLoad(r)
  <2> DEFINE p == edit[r]
             dirty == {c \in Columns : p.copy[p.key][c] # row[p.key][c]}
             q == [p EXCEPT !.pc = "write", !.dirty = dirty]
  <2>1. CASE Saved(r)
    BY <1>1, <2>1, SavedHonest DEF SaveLoad
  <2>2. CASE ~Saved(r)
    <3>1. edit'[r] = q /\ row' = row
      BY <1>0, <1>1, <2>2 DEF SaveLoad, usersVars
    <3>2. /\ q.pc = "write" /\ q.op = p.op /\ q.copy = p.copy /\ q.asks = p.asks
          /\ q.key = p.key /\ q.rest = p.rest /\ q.id = p.id /\ q.dirty = dirty
      BY <1>0 DEF EditRequest
    <3>3. p.pc = "load" /\ Honest(p, row, late[r])
      BY <1>1 DEF SaveLoad, CopiesHonest
    <3> HIDE DEF q
    <3>4. ToSave(q) = ToSave(p)
      BY <3>2 DEF ToSave
    <3>5. Honest(q, row, late[r])
      BY <3>2, <3>3, <3>4 DEF Honest, FromRow
    <3>6. \A k \in ToSave(q) : k \notin late'[r] => k \notin late[r] /\ row'[k] = row[k]
      BY <3>1, <3>2, <3>3, <3>4, ToSaveKeys, LateNoted
    <3> QED
      BY <3>1, <3>5, <3>6, HonestStays
  <2> QED
    BY <2>1, <2>2
<1>2. CASE SaveWrite(r)
  BY <1>2, SavedHonest DEF SaveWrite
<1>3. CASE ~SaveLoad(r) /\ ~SaveWrite(r)
  <2>1. edit'[r].pc \in {"audit", "idle"}
    BY <1>0, <1>3, IdleEditTyped DEF EditStep, SaveRefused, RejectAct, SuspendAct, AuditStep,
       EditFail, ToAudit, EditEnds, EditRequest
  <2> QED
    BY <2>1 DEF Honest
<1> QED
  BY <1>1, <1>2, <1>3

LEMMA OthersUntouched ==
    ASSUME TypeOK, NEW r \in Edits, EditMoves(r)
    PROVE  \A q \in Edits \ {r} : edit'[q] = edit[q]
<1>0. edit \in [Edits -> EditRequest]
  BY DEF TypeOK, DirectoryTypeOK
<1>1. CASE ProfileCall(r) \/ ServiceCall(r) \/ AdminCall(r)
  BY <1>0, <1>1, CallsBegin
<1>2. CASE EditStep(r)
  BY <1>0, <1>2 DEF EditStep, SaveLoad, SaveRefused, SaveWrite, RejectAct, SuspendAct,
     AuditStep, EditFail, Saved, ToAudit, EditEnds
<1> QED
  BY <1>1, <1>2 DEF EditMoves

LEMMA HonestInductive ==
    ASSUME TypeOK, CopiesHonest, [Next]_vars
    PROVE  CopiesHonest'
<1>1. ASSUME NEW r \in Edits, EditMoves(r), NoteLate PROVE CopiesHonest'
  <2>1. Honest(edit'[r], row', late'[r])
    BY <1>1, CallHonest, EditStepHonest DEF EditMoves
  <2>2. \A q \in Edits \ {r} : Honest(edit'[q], row', late'[q])
    BY <1>1, OthersUntouched, OtherHonest
  <2> QED
    BY <2>1, <2>2 DEF CopiesHonest
<1>2. ASSUME edit' = edit, NoteLate PROVE CopiesHonest'
  BY <1>2, OtherHonest DEF CopiesHonest
<1>3. ASSUME edit' = edit, UNCHANGED <<row, late>> PROVE CopiesHonest'
  BY <1>3 DEF CopiesHonest
<1> QED
  BY <1>1, <1>2, <1>3, Steps DEF CreateService, Book, Elsewhere

-----------------------------------------------------------------------------
(* Rows as the saves meant them *)

LEMMA WriteAsMeant ==
    ASSUME TypeOK, CopiesHonest, NEW r \in Edits, edit[r].pc = "write",
           edit[r].key \notin late[r]
    PROVE  LET q == edit[r]
           IN  /\ Merge(row[q.key], q.copy[q.key], q.dirty) = q.copy[q.key]
               /\ meant[q.key] = row[q.key] => Meant(q) = q.copy[q.key]
<1> DEFINE q == edit[r]
           old == row[q.key]
           new == q.copy[q.key]
<1>0. q.key \in Keys /\ q.copy \in [Keys -> Row]
  BY ToSaveKeys DEF EditRequest
<1>1. q.key \in Keys /\ new \in Row /\ old \in Row
  BY <1>0, RowTyped DEF TypeOK
<1>2. /\ q.dirty = {c \in Columns : new[c] # old[c]}
      /\ FromRow(q, q.key, old)
  BY DEF CopiesHonest, Honest, ToSave
<1>3. Merge(old, new, q.dirty) = new
  BY <1>1, <1>2 DEF Merge, Row
<1>4. Merge(old, new, q.asks) = new
  BY <1>1, <1>2 DEF Merge, Row, FromRow
<1>5. "profileCompleted" \in q.asks => [new EXCEPT !["profileCompleted"] = Complete(new)] = new
  <2>1. "profileCompleted" \in q.asks => new["profileCompleted"] = Complete(new)
    BY <1>2 DEF FromRow
  <2>2. \A c \in Columns : [new EXCEPT ![c] = new[c]] = new
    BY <1>1 DEF Row
  <2> QED
    BY <2>1, <2>2 DEF Columns
<1>6. meant[q.key] = old => Meant(q) = new
  BY <1>4, <1>5 DEF Meant
<1> QED
  BY <1>3, <1>6

LEMMA MeantInductive ==
    ASSUME TypeOK, CopiesHonest, RowsAsMeant, [Next]_vars
    PROVE  RowsAsMeant'
<1>0. row \in [Keys -> Row] /\ meant \in [Keys -> Row]
  BY DEF TypeOK, UsersTypeOK
<1>1. ASSUME UNCHANGED <<row, meant, stale>> PROVE RowsAsMeant'
  BY <1>1 DEF RowsAsMeant
<1>2. ASSUME NEW r \in Edits, SaveWrite(r) PROVE RowsAsMeant'
  <2> DEFINE q == edit[r]
  <2>1. q.pc = "write" /\ q.key \in Keys
    BY <1>2, ToSaveKeys DEF SaveWrite
  <2>2. CASE q.key \in kept
    <3>1. /\ row' = [row EXCEPT ![q.key] = Merge(row[q.key], q.copy[q.key], q.dirty)]
          /\ meant' = [meant EXCEPT ![q.key] = Meant(q)]
          /\ stale' = IF q.key \in late[r] THEN stale \cup {q.key} ELSE stale
      BY <1>2, <2>2 DEF SaveWrite
    <3>2. ASSUME q.key \notin stale' PROVE row'[q.key] = meant'[q.key]
      <4>1. q.key \notin late[r] /\ row[q.key] = meant[q.key]
        BY <2>1, <3>1, <3>2 DEF RowsAsMeant
      <4> QED
        BY <1>0, <2>1, <3>1, <4>1, WriteAsMeant
    <3> QED
      BY <1>0, <2>1, <3>1, <3>2 DEF RowsAsMeant
  <2>3. CASE q.key \notin kept
    BY <1>1, <1>2, <2>3 DEF SaveWrite
  <2> QED
    BY <2>2, <2>3
<1>3. ASSUME NEW r \in Edits, RejectAct(r), Stored(edit[r].id) PROVE RowsAsMeant'
  <2>1. edit[r].id \in Ids /\ DeleteUser(edit[r].id) /\ stale' = stale
    BY <1>3 DEF RejectAct, TypeOK, DirectoryTypeOK, AdminOps
  <2> QED
    BY <2>1, DeleteUserShown DEF RowsAsMeant
<1>4. ASSUME NEW k \in Keys, NEW columns, Insert(k, columns), stale' = stale
      PROVE  RowsAsMeant'
  BY <1>0, <1>4 DEF Insert, RowsAsMeant
<1>5. ASSUME NEW r \in Edits, EditMoves(r) PROVE RowsAsMeant'
  <2>1. CASE UNCHANGED <<row, meant, stale>>
    BY <1>1, <2>1
  <2>2. CASE ProfileCall(r) \/ ServiceCall(r) \/ AdminCall(r)
    BY <1>1, <2>2, CallsBegin DEF usersVars
  <2> QED
    BY <1>2, <1>3, <1>5, <2>1, <2>2 DEF EditMoves, EditStep, SaveLoad, SaveRefused, RejectAct,
       SuspendAct, AuditStep, EditFail, usersVars, Tables
<1>6. ASSUME NEW i \in Ids, Book(i) PROVE RowsAsMeant'
  <2>1. i \in Keys
    BY DEF Keys
  <2>2. /\ row' = [row EXCEPT ![i] = [row[i] EXCEPT !["totalAppointments"] = @ + 1]]
        /\ meant' = [meant EXCEPT ![i] = [meant[i] EXCEPT !["totalAppointments"] = @ + 1]]
        /\ stale' = stale
    BY <1>6 DEF Book
  <2> QED
    BY <1>0, <2>1, <2>2 DEF RowsAsMeant
<1>7. ASSUME NEW s \in Services, CreateService(s) PROVE RowsAsMeant'
  BY <1>4, <1>7 DEF CreateService, Keys
<1>8. ASSUME NEW r \in Signups, RegisterProfile(r), stale' = stale PROVE RowsAsMeant'
  <2>1. reg[r].id \in Keys
    BY <1>8 DEF RegisterProfile, TypeOK, UsersTypeOK, Keys
  <2> QED
    BY <1>4, <1>8, <2>1 DEF RegisterProfile
<1> QED
  BY <1>1, <1>5, <1>6, <1>7, <1>8, Steps DEF RegisterUser, RegisterFail, Tables, Elsewhere

-----------------------------------------------------------------------------
(* Decisions.  What keeps a second one away: the status, once a prestataire  *)
(* is approved; the missing profile, once it is rejected.                    *)

Decided(i) == acts[<<i, "approve">>] + acts[<<i, "reject">>]

\* Request r is about a decision on i, taken or not.
Concerns(r, i) == edit[r].op \in Decisions /\ edit[r].id = i

\* Profiles still to be inserted: each for another user, which has none.
ToCome ==
    \A r \in Signups : reg[r].pc = "profile" =>
        /\ user[reg[r].id].state # "none"
        /\ reg[r].id \notin kept
        /\ \A q \in Signups : reg[q].pc = "profile" /\ reg[q].id = reg[r].id => q = r

\* Nobody has decided on a user that has had no profile yet.
Undecided(i) ==
    i \notin kept /\ user[i].state # "gone"
        => Decided(i) = 0 /\ \A r \in Edits : ~Concerns(r, i)

OnceOnly(i) ==
    i \notin contested \cup stale =>
        /\ \A r, q \in Edits : Deciding(r, i) /\ Deciding(q, i) => r = q
        /\ i \in kept /\ row[i]["status"] = PENDING => Decided(i) = 0
        /\ \A r \in Edits : Deciding(r, i) => Decided(i) = 0
        /\ Decided(i) =< 1

DecisionsInv == ToCome /\ \A i \in Ids : Undecided(i) /\ OnceOnly(i)

\* No decision begins or is taken.
DecisionsCalm ==
    /\ \A i \in Ids : Decided(i)' = Decided(i)
    /\ \A q \in Edits, i \in Ids : /\ Deciding(q, i)' => Deciding(q, i)
                                   /\ Concerns(q, i)' => Concerns(q, i)
    /\ contested' = contested

\* Nobody becomes PENDING, unless a late copy makes it so.
StatusesKept ==
    /\ stale \subseteq stale'
    /\ \A i \in Ids : i \in kept' /\ i \notin stale'
          => i \in kept /\ row'[i]["status"] \in {row[i]["status"], ACTIVE}

\* Users without profile: none comes, or it comes without one.
UsersKeptOut ==
    \A i \in Ids : i \notin kept' /\ user'[i].state # "gone"
        => i \notin kept /\ user[i].state # "gone"

DecisionBegins(r, i) ==
    /\ i \in kept /\ row[i]["status"] = PENDING
    /\ \A q \in Edits : /\ Deciding(q, i)' => Deciding(q, i) \/ q = r
    /\ \A q \in Edits, j \in Ids \ {i} : /\ Deciding(q, j)' => Deciding(q, j)
                                         /\ Concerns(q, j)' => Concerns(q, j)
    /\ NoteContest(i)
    /\ \A j \in Ids : Decided(j)' = Decided(j)
    /\ kept' = kept /\ row' = row /\ stale' = stale

DecisionTaken(r, i) ==
    /\ Deciding(r, i)
    /\ \A q \in Edits, j \in Ids : Deciding(q, j)' => Deciding(q, j) /\ q # r
    /\ \A q \in Edits, j \in Ids : Concerns(q, j)' => Concerns(q, j)
    /\ Decided(i)' = Decided(i) + 1
    /\ \A j \in Ids \ {i} : Decided(j)' = Decided(j)
    /\ contested' = contested
    /\ i \in kept' /\ i \notin stale' => row'[i]["status"] = ACTIVE

LEMMA DecidedNat == ASSUME TypeOK, NEW i \in Ids PROVE Decided(i) \in Nat
<1>1. {"approve", "reject"} \subseteq AdminOps
  BY DEF AdminOps
<1>2. acts[<<i, "approve">>] \in Nat /\ acts[<<i, "reject">>] \in Nat
  BY <1>1, CountersAreNat
<1> QED
  BY <1>2 DEF Decided

LEMMA CalmKeeps ==
    ASSUME TypeOK, DecisionsCalm, StatusesKept, NEW i \in Ids, OnceOnly(i)
    PROVE  OnceOnly(i)'
BY DEF DecisionsCalm, StatusesKept, OnceOnly, ACTIVE, PENDING

LEMMA BeginKeeps ==
    ASSUME TypeOK, NEW r \in Edits, NEW i \in Ids, DecisionBegins(r, i),
           NEW j \in Ids, OnceOnly(j)
    PROVE  OnceOnly(j)'
<1>1. CASE j # i
  <2>1. j \notin contested' \cup stale' => j \notin contested \cup stale
    BY DEF DecisionBegins, NoteContest
  <2> QED
    BY <1>1, <2>1 DEF DecisionBegins, OnceOnly
<1>2. CASE j = i
  <2> SUFFICES ASSUME i \notin contested' \cup stale' PROVE OnceOnly(i)'
    BY <1>2 DEF OnceOnly
  <2>1. i \notin contested \cup stale /\ \A q \in Edits : ~Deciding(q, i)
    BY DEF DecisionBegins, NoteContest
  <2>2. Decided(i)' = 0
    BY <1>2, <2>1 DEF DecisionBegins, OnceOnly
  <2>3. \A q \in Edits : Deciding(q, i)' => q = r
    BY <2>1 DEF DecisionBegins
  <2> QED
    BY <2>2, <2>3 DEF OnceOnly
<1> QED
  BY <1>1, <1>2

LEMMA TakenKeeps ==
    ASSUME TypeOK, NEW r \in Edits, NEW i \in Ids, DecisionTaken(r, i), StatusesKept,
           NEW j \in Ids, OnceOnly(j)
    PROVE  OnceOnly(j)'
<1> SUFFICES ASSUME j \notin contested' \cup stale' PROVE OnceOnly(j)'
  BY DEF OnceOnly
<1>1. j \notin contested \cup stale
  BY DEF DecisionTaken, StatusesKept
<1>2. CASE j # i
  BY <1>1, <1>2 DEF DecisionTaken, StatusesKept, OnceOnly, ACTIVE, PENDING
<1>3. CASE j = i
  <2>1. Decided(i) = 0
    BY <1>1, <1>3 DEF DecisionTaken, OnceOnly
  <2>2. Decided(i)' = 1
    BY <2>1 DEF DecisionTaken
  <2>3. \A q \in Edits : ~Deciding(q, i)'
    BY <1>1, <1>3 DEF DecisionTaken, OnceOnly
  <2>4. ~(i \in kept' /\ row'[i]["status"] = PENDING)
    BY <1>3 DEF DecisionTaken, ACTIVE, PENDING
  <2> QED
    BY <1>3, <2>2, <2>3, <2>4 DEF OnceOnly
<1> QED
  BY <1>2, <1>3

LEMMA UndecidedKept ==
    ASSUME TypeOK, UsersKeptOut, NEW i \in Ids, Undecided(i),
           \/ DecisionsCalm
           \/ \E r \in Edits, j \in Ids : DecisionBegins(r, j) \/ DecisionTaken(r, j)
    PROVE  Undecided(i)'
<1> SUFFICES ASSUME i \notin kept', user'[i].state # "gone"
             PROVE  Decided(i)' = 0 /\ \A r \in Edits : ~Concerns(r, i)'
  BY DEF Undecided
<1>1. i \notin kept /\ Decided(i) = 0 /\ \A r \in Edits : ~Concerns(r, i)
  BY DEF UsersKeptOut, Undecided
<1>2. CASE DecisionsCalm
  BY <1>1, <1>2 DEF DecisionsCalm
<1>3. ASSUME NEW r \in Edits, NEW j \in Ids, DecisionBegins(r, j)
      PROVE  Decided(i)' = 0 /\ \A q \in Edits : ~Concerns(q, i)'
  BY <1>1, <1>3 DEF DecisionBegins
<1>4. ASSUME NEW r \in Edits, NEW j \in Ids, DecisionTaken(r, j)
      PROVE  Decided(i)' = 0 /\ \A q \in Edits : ~Concerns(q, i)'
  <2>1. Concerns(r, j)
    BY <1>4 DEF DecisionTaken, Deciding, Concerns
  <2> QED
    BY <1>1, <1>4, <2>1 DEF DecisionTaken
<1> QED
  BY <1>2, <1>3, <1>4

\* What becomes of request r as a call begins.
LEMMA SaveShown ==
    ASSUME TypeOK, NEW r \in Edits, NEW op, NEW i, NEW key, NEW rest, NEW copy, NEW asks,
           Save(r, op, i, key, rest, copy, asks)
    PROVE  edit'[r].pc = "load" /\ edit'[r].op = op /\ edit'[r].id = i
<1> DEFINE q == [IdleEdit EXCEPT !.pc = "load", !.op = op, !.id = i, !.key = key,
                    !.rest = rest, !.copy = copy, !.asks = asks, !.had = ServicesOf(i)]
<1>1. q.pc = "load" /\ q.op = op /\ q.id = i
  BY DEF IdleEdit
<1>2. edit'[r] = q
  BY DEF Save, TypeOK, DirectoryTypeOK
<1> QED
  BY <1>1, <1>2

LEMMA ActShown ==
    ASSUME TypeOK, NEW r \in Edits, NEW op, NEW i, Act(r, op, i)
    PROVE  edit'[r].pc = "act" /\ edit'[r].op = op /\ edit'[r].id = i
<1> DEFINE q == [IdleEdit EXCEPT !.pc = "act", !.op = op, !.id = i]
<1>1. q.pc = "act" /\ q.op = op /\ q.id = i
  BY DEF IdleEdit
<1>2. edit'[r] = q
  BY DEF Act, TypeOK, DirectoryTypeOK
<1> QED
  BY <1>1, <1>2

\* Others go on as they were, whatever r does.
LEMMA OthersDecide ==
    ASSUME TypeOK, NEW r \in Edits, EditMoves(r), NEW q \in Edits \ {r}, NEW i \in Ids
    PROVE  (Deciding(q, i)' <=> Deciding(q, i)) /\ (Concerns(q, i)' <=> Concerns(q, i))
BY OthersUntouched DEF Deciding, Concerns

LEMMA Calm ==
    ASSUME TypeOK, NEW r \in Edits, EditMoves(r),
           \A i \in Ids : /\ Deciding(r, i)' => Deciding(r, i)
                          /\ Concerns(r, i)' => Concerns(r, i),
           UNCHANGED <<acts, contested>>
    PROVE  DecisionsCalm
<1>1. \A i \in Ids : Decided(i)' = Decided(i)
  BY DEF Decided
<1>2. \A q \in Edits, i \in Ids : /\ Deciding(q, i)' => Deciding(q, i)
                                  /\ Concerns(q, i)' => Concerns(q, i)
  BY OthersDecide
<1> QED
  BY <1>1, <1>2 DEF DecisionsCalm

LEMMA BeginsShown ==
    ASSUME TypeOK, NEW r \in Edits, EditMoves(r), NEW i \in Ids, Pending(r, i),
           NoteContest(i), edit'[r].id = i,
           UNCHANGED <<acts, kept, row, stale>>
    PROVE  DecisionBegins(r, i)
<1>1. \A j \in Ids : Decided(j)' = Decided(j)
  BY DEF Decided
<1>2. \A q \in Edits : Deciding(q, i)' => Deciding(q, i) \/ q = r
  BY OthersDecide
<1>3. \A q \in Edits, j \in Ids \ {i} : /\ Deciding(q, j)' => Deciding(q, j)
                                        /\ Concerns(q, j)' => Concerns(q, j)
  BY OthersDecide DEF Deciding, Concerns
<1> QED
  BY <1>1, <1>2, <1>3 DEF DecisionBegins, Pending

\* Request r acts: on a decision, or on something else.
LEMMA ActedShown ==
    ASSUME TypeOK, NEW r \in Edits, EditMoves(r), ToAudit(r), Acted(r),
           edit[r].pc \in {"load", "write", "act"}, edit[r].op \in AdminOps,
           contested' = contested,
           edit[r].id \in kept' /\ edit[r].id \notin stale' /\ edit[r].op \in Decisions
               => row'[edit[r].id]["status"] = ACTIVE
    PROVE  DecisionsCalm \/ \E i \in Ids : DecisionTaken(r, i)
<1>1. PICK u \in Ids, o \in AdminOps : edit[r].id = u /\ edit[r].op = o
  BY DEF TypeOK, DirectoryTypeOK
<1>2. edit'[r].pc = "audit" /\ edit'[r].id = u /\ edit'[r].op = o
  BY <1>1 DEF ToAudit, TypeOK, DirectoryTypeOK, EditRequest
<1>3. \A i \in Ids : ~Deciding(r, i)' /\ (Concerns(r, i)' => Concerns(r, i))
  BY <1>1, <1>2 DEF Deciding, Concerns
<1>4. /\ \A q \in Edits, j \in Ids : Deciding(q, j)' => Deciding(q, j) /\ q # r
      /\ \A q \in Edits, j \in Ids : Concerns(q, j)' => Concerns(q, j)
  BY <1>3, OthersDecide
<1>5. \A j \in Ids, p \in AdminOps :
         acts'[<<j, p>>] = IF j = u /\ p = o THEN acts[<<j, p>>] + 1 ELSE acts[<<j, p>>]
  <2>1. acts \in Counters /\ acts' = [acts EXCEPT ![<<u, o>>] = @ + 1]
    BY <1>1 DEF Acted, TypeOK, DirectoryTypeOK
  <2>2. \A j \in Ids, p \in AdminOps :
           [acts EXCEPT ![<<u, o>>] = @ + 1][<<j, p>>] =
              IF j = u /\ p = o THEN acts[<<j, p>>] + 1 ELSE acts[<<j, p>>]
    BY <2>1, Counted
  <2> QED
    BY <2>1, <2>2
<1>6. /\ {"approve", "reject"} \subseteq AdminOps
      /\ \A j \in Ids : acts[<<j, "approve">>] \in Nat /\ acts[<<j, "reject">>] \in Nat
  BY CountersAreNat DEF AdminOps
<1>7. CASE o \in Decisions
  <2>1. Decided(u)' = Decided(u) + 1
    BY <1>5, <1>6, <1>7 DEF Decided, Decisions
  <2>2. \A j \in Ids \ {u} : Decided(j)' = Decided(j)
    BY <1>5, <1>6 DEF Decided
  <2>3. Deciding(r, u)
    BY <1>1, <1>7 DEF Deciding
  <2> QED
    BY <1>1, <1>4, <1>7, <2>1, <2>2, <2>3 DEF DecisionTaken
<1>8. CASE o \notin Decisions
  <2>1. \A j \in Ids : Decided(j)' = Decided(j)
    BY <1>5, <1>6, <1>8 DEF Decided, Decisions
  <2> QED
    BY <1>4, <2>1 DEF DecisionsCalm
<1> QED
  BY <1>7, <1>8

\* A row is saved: rows that are not late are as their copies have them.
LEMMA WriteShown ==
    ASSUME TypeOK, CopiesHonest, NEW r \in Edits, SaveWrite(r)
    PROVE  /\ stale \subseteq stale'
           /\ \A k \in Keys \ {edit[r].key} : row'[k] = row[k]
           /\ edit[r].key \in Keys
           /\ edit[r].key \in kept /\ edit[r].key \notin stale'
                 => /\ row'[edit[r].key] = edit[r].copy[edit[r].key]
                    /\ edit[r].key \notin late[r]
           /\ edit[r].key \notin kept => row' = row
<1> DEFINE q == edit[r]
<1>1. q.pc = "write" /\ q.key \in Keys /\ row \in [Keys -> Row]
  BY ToSaveKeys DEF SaveWrite, TypeOK, UsersTypeOK
<1>2. CASE q.key \in kept
  <2>1. /\ row' = [row EXCEPT ![q.key] = Merge(row[q.key], q.copy[q.key], q.dirty)]
        /\ stale' = IF q.key \in late[r] THEN stale \cup {q.key} ELSE stale
    BY <1>2 DEF SaveWrite
  <2> QED
    BY <1>1, <1>2, <2>1, WriteAsMeant
<1>3. CASE q.key \notin kept
  BY <1>1, <1>3 DEF SaveWrite
<1> QED
  BY <1>2, <1>3

\* The status in a copy that is not late.
LEMMA CopiedStatus ==
    ASSUME TypeOK, CopiesHonest, NEW r \in Edits, edit[r].pc \in {"load", "write"},
           edit[r].key \notin late[r]
    PROVE  edit[r].copy[edit[r].key]["status"] =
              IF edit[r].op = "approve" THEN ACTIVE ELSE row[edit[r].key]["status"]
BY DEF CopiesHonest, Honest, ToSave, FromRow, Columns

LEMMA EditStatuses ==
    ASSUME TypeOK, CopiesHonest, NEW r \in Edits, EditMoves(r)
    PROVE  StatusesKept /\ UsersKeptOut
<1>1. UsersKeptOut
  <2>1. CASE SameUsersStored /\ kept' = kept
    BY <2>1 DEF SameUsersStored, UsersKeptOut
  <2>2. CASE RejectAct(r) /\ DeleteUser(edit[r].id)
    <3>1. edit[r].id \in Ids
      BY <2>2 DEF RejectAct, TypeOK, DirectoryTypeOK, AdminOps
    <3>2. \A i \in Ids : i \in Keys /\ OwnerOf(i) = i
      BY DEF Keys, OwnerOf
    <3> QED
      BY <2>2, <3>1, <3>2, DeleteUserShown DEF UsersKeptOut
  <2> QED
    BY <2>1, <2>2, EditOutcome
<1>2. StatusesKept
  <2>0. \A i \in Ids : i \in Keys /\ OwnerOf(i) = i
    BY DEF Keys, OwnerOf
  <2>1. CASE UNCHANGED <<kept, row, stale>>
    BY <2>1 DEF StatusesKept
  <2>2. CASE SaveWrite(r)
    <3>1. edit[r].pc = "write" /\ kept' = kept
      BY <2>2 DEF SaveWrite
    <3> QED
      BY <2>0, <2>2, <3>1, WriteShown, CopiedStatus DEF StatusesKept
  <2>3. CASE RejectAct(r) /\ DeleteUser(edit[r].id)
    <3>1. edit[r].id \in Ids /\ stale' = stale
      BY <2>3 DEF RejectAct, TypeOK, DirectoryTypeOK, AdminOps
    <3> QED
      BY <2>0, <2>3, <3>1, DeleteUserShown DEF StatusesKept
  <2>4. CASE ProfileCall(r) \/ ServiceCall(r) \/ AdminCall(r)
    BY <2>1, <2>4, CallsBegin DEF usersVars
  <2> QED
    BY <2>1, <2>2, <2>3, <2>4 DEF EditMoves, EditStep, SaveLoad, SaveRefused, RejectAct,
       SuspendAct, AuditStep, EditFail, usersVars, Tables
<1> QED
  BY <1>1, <1>2

LEMMA CallDecides ==
    ASSUME TypeOK, NEW r \in Edits, ProfileCall(r) \/ ServiceCall(r) \/ AdminCall(r)
    PROVE  DecisionsCalm \/ \E i \in Ids : DecisionBegins(r, i)
<1>0. EditMoves(r) /\ UNCHANGED <<kept, row, acts, stale>>
  BY CallsBegin DEF EditMoves, usersVars, Logs
<1>1. ASSUME edit'[r].op \notin Decisions, contested' = contested PROVE DecisionsCalm
  BY <1>0, <1>1, Calm DEF Deciding, Concerns
<1>2. \A op \in {"update", "service"} : \A i, key, rest, copy, asks :
         Save(r, op, i, key, rest, copy, asks) => edit'[r].op \notin Decisions
  BY SaveShown DEF Decisions
<1>3. CASE ProfileCall(r) \/ ServiceCall(r)
  <2>1. edit'[r].op \notin Decisions
    BY <1>2, <1>3 DEF ProfileCall, ServiceCall, UpdatePrestataireBegin, UpdateClientBegin,
       UpdateServiceBegin, DeleteServiceBegin, ServiceBegin, ReorderBegin
  <2>2. contested' = contested
    BY <1>3 DEF ProfileCall, ServiceCall, UpdatePrestataireBegin, UpdateClientBegin,
       UpdateServiceBegin, DeleteServiceBegin, ServiceBegin, ReorderBegin
  <2> QED
    BY <1>1, <2>1, <2>2
<1>4. ASSUME NEW i \in Ids, ApproveBegin(r, i) PROVE DecisionBegins(r, i)
  <2>1. edit'[r].id = i
    BY <1>4, SaveShown DEF ApproveBegin
  <2> QED
    BY <1>0, <1>4, <2>1, BeginsShown DEF ApproveBegin
<1>5. ASSUME NEW i \in Ids, RejectBegin(r, i) PROVE DecisionBegins(r, i)
  <2>1. edit'[r].id = i
    BY <1>5, ActShown DEF RejectBegin
  <2> QED
    BY <1>0, <1>5, <2>1, BeginsShown DEF RejectBegin
<1>6. ASSUME NEW i \in Ids, NEW op, SuspendBegin(r, op, i) PROVE DecisionsCalm
  <2>1. edit'[r].op = op /\ op \notin Decisions
    BY <1>6, ActShown DEF SuspendBegin, Decisions
  <2> QED
    BY <1>1, <1>6, <2>1 DEF SuspendBegin
<1> QED
  BY <1>3, <1>4, <1>5, <1>6 DEF AdminCall

LEMMA SavedDecides ==
    ASSUME TypeOK, CopiesHonest, NEW r \in Edits, EditMoves(r), Saved(r),
           edit[r].pc \in {"load", "write"}, contested' = contested,
           edit[r].key \in kept' /\ edit[r].key \notin stale' /\ edit[r].op = "approve"
               => row'[edit[r].key]["status"] = ACTIVE
    PROVE  DecisionsCalm \/ \E i \in Ids : DecisionTaken(r, i)
<1> DEFINE p == edit[r]
<1>0. p \in EditRequest /\ edit \in [Edits -> EditRequest]
  BY DEF TypeOK, DirectoryTypeOK
<1>1. CASE p.rest # <<>>
  <2> DEFINE q == [p EXCEPT !.pc = "load", !.key = Head(p.rest),
                            !.rest = Tail(p.rest), !.dirty = {}]
  <2>1. q.op = p.op /\ q.id = p.id
    BY <1>0 DEF EditRequest
  <2>2. edit'[r] = q /\ acts' = acts
    BY <1>0, <1>1 DEF Saved
  <2> HIDE DEF q
  <2> QED
    BY <2>1, <2>2, Calm DEF Deciding, Concerns
<1>2. CASE p.rest = <<>> /\ p.op = "approve"
  <2>1. ToAudit(r) /\ Acted(r)
    BY <1>2 DEF Saved
  <2>2. p.key = p.id
    BY <1>2 DEF CopiesHonest, Honest
  <2>3. "approve" \in AdminOps
    BY DEF AdminOps
  <2> QED
    BY <1>2, <2>1, <2>2, <2>3, ActedShown
<1>3. CASE p.rest = <<>> /\ p.op # "approve"
  <2>1. edit'[r] = IdleEdit /\ acts' = acts
    BY <1>0, <1>3 DEF Saved, EditEnds
  <2> QED
    BY <2>1, Calm, IdleEditTyped DEF Deciding, Concerns, Decisions
<1> QED
  BY <1>1, <1>2, <1>3

LEMMA StepDecides ==
    ASSUME TypeOK, CopiesHonest, NEW r \in Edits, EditStep(r)
    PROVE  DecisionsCalm \/ \E i \in Ids : DecisionTaken(r, i)
<1>0. /\ EditMoves(r) /\ edit[r] \in EditRequest /\ edit \in [Edits -> EditRequest]
      /\ edit[r].op \in AdminOps => edit[r].id \in Ids
  BY DEF EditMoves, TypeOK, DirectoryTypeOK
<1>1. CASE SaveLoad(r)
  <2> DEFINE p == edit[r]
             dirty == {c \in Columns : p.copy[p.key][c] # row[p.key][c]}
             q == [p EXCEPT !.pc = "write", !.dirty = dirty]
  <2>0. /\ p.pc = "load" /\ contested' = contested /\ row' = row
        /\ p.key \in Keys /\ "status" \in Columns
    BY <1>1, ToSaveKeys DEF SaveLoad, usersVars, Columns
  <2>1. CASE dirty = {}
    <3>1. Saved(r)
      BY <1>1, <2>1 DEF SaveLoad
    <3>2. p.op = "approve" => row[p.key]["status"] = ACTIVE
      BY <2>0, <2>1 DEF CopiesHonest, Honest
    <3> QED
      BY <1>0, <2>0, <3>1, <3>2, SavedDecides
  <2>2. CASE dirty # {}
    <3>1. edit'[r] = q /\ acts' = acts
      BY <1>0, <1>1, <2>2 DEF SaveLoad
    <3>2. q.op = p.op /\ q.id = p.id
      BY <1>0 DEF EditRequest
    <3> HIDE DEF q
    <3> QED
      BY <1>0, <2>0, <3>1, <3>2, Calm DEF Deciding, Concerns
  <2> QED
    BY <2>1, <2>2
<1>2. CASE SaveWrite(r)
  <2>1. edit[r].pc = "write" /\ contested' = contested /\ kept' = kept /\ Saved(r)
    BY <1>2 DEF SaveWrite
  <2>2. edit[r].key \in kept /\ edit[r].key \notin stale' /\ edit[r].op = "approve"
           => row'[edit[r].key]["status"] = ACTIVE
    BY <1>2, <2>1, WriteShown, CopiedStatus
  <2> QED
    BY <1>0, <2>1, <2>2, SavedDecides
<1>3. CASE RejectAct(r)
  <2>1. edit[r].pc = "act" /\ edit[r].op \in AdminOps /\ contested' = contested
        /\ ToAudit(r) /\ Acted(r)
    BY <1>3 DEF RejectAct, AdminOps
  <2>2. edit[r].id \notin kept'
    <3>1. edit[r].id \in Ids
      BY <1>0, <2>1
    <3>2. edit[r].id \in Keys /\ OwnerOf(edit[r].id) = edit[r].id
      BY <3>1 DEF Keys, OwnerOf
    <3>3. CASE Stored(edit[r].id)
      BY <1>3, <3>1, <3>2, <3>3, DeleteUserShown DEF RejectAct
    <3>4. CASE ~Stored(edit[r].id)
      BY <1>3, <3>2, <3>4 DEF RejectAct, Tables, TypeOK, UsersTypeOK
    <3> QED
      BY <3>3, <3>4
  <2> QED
    BY <1>0, <2>1, <2>2, ActedShown
<1>4. CASE SuspendAct(r)
  <2>1. /\ edit[r].pc = "act" /\ edit[r].op \in AdminOps /\ edit[r].op \notin Decisions
        /\ contested' = contested /\ ToAudit(r) /\ Acted(r)
    BY <1>4 DEF SuspendAct, AdminOps, Decisions
  <2> QED
    BY <1>0, <2>1, ActedShown
<1>5. CASE SaveRefused(r) \/ AuditStep(r) \/ EditFail(r)
  <2>1. edit'[r] = IdleEdit /\ acts' = acts /\ contested' = contested
    BY <1>0, <1>5 DEF SaveRefused, AuditStep, EditFail, EditEnds, Logs
  <2> QED
    BY <1>0, <2>1, Calm, IdleEditTyped DEF Deciding, Concerns, Decisions
<1> QED
  BY <1>1, <1>2, <1>3, <1>4, <1>5 DEF EditStep

\* Nobody's decision is concerned, and users come without profile.
LEMMA ElsewhereDecides ==
    ASSUME TypeOK, NEW i \in Ids, Undecided(i), OnceOnly(i),
           UNCHANGED <<edit, acts, contested, stale>>,
           i \in kept' => i \in kept /\ row'[i]["status"] = row[i]["status"],
           i \notin kept' /\ user'[i].state # "gone" => i \notin kept /\ user[i].state # "gone"
    PROVE  Undecided(i)' /\ OnceOnly(i)'
BY DEF Undecided, OnceOnly, Decided, Deciding, Concerns

LEMMA DecisionsInductive ==
    ASSUME TypeOK, CopiesHonest, DecisionsInv, [Next]_vars
    PROVE  DecisionsInv'
<1>0. /\ user \in [Ids -> UserRow] /\ reg \in [Signups -> Signup]
      /\ row \in [Keys -> Row]
      /\ \A r \in Signups : reg[r].pc = "profile" => reg[r].id \in Ids
      /\ \A i \in Ids : i \in Keys /\ i \notin Services /\ OwnerOf(i) = i
      /\ \A i \in Ids : i \in kept => user[i].state = "stored"
  <2>1. \A i \in Ids : i \in Keys /\ i \notin Services /\ OwnerOf(i) = i
    BY UsersAssumption DEF Keys, OwnerOf
  <2> QED
    BY <2>1 DEF TypeOK, UsersTypeOK, Stored
<1> DEFINE Goal == DecisionsInv'
<1>1. ASSUME UNCHANGED <<edit, acts, contested, stale>>, ToCome',
             \A i \in Ids :
                /\ i \in kept' => i \in kept /\ row'[i]["status"] = row[i]["status"]
                /\ i \notin kept' /\ user'[i].state # "gone"
                      => i \notin kept /\ user[i].state # "gone"
      PROVE  Goal
  BY <1>1, ElsewhereDecides DEF DecisionsInv
<1>2. ASSUME NEW r \in Edits, EditMoves(r) PROVE Goal
  <2>1. ToCome'
    <3>1. reg' = reg
      BY <1>2, EditOutcome
    <3>2. CASE SameUsersStored /\ kept' = kept
      BY <1>0, <3>1, <3>2 DEF DecisionsInv, ToCome, SameUsersStored
    <3>3. CASE RejectAct(r) /\ DeleteUser(edit[r].id)
      <4>1. edit[r].id \in Ids
        BY <3>3 DEF RejectAct, TypeOK, DirectoryTypeOK, AdminOps
      <4>2. /\ kept' \subseteq kept
            /\ \A i \in Ids : user[i].state # "none" => user'[i].state # "none"
        BY <3>3, <4>1, DeleteUserShown
      <4> QED
        BY <1>0, <3>1, <4>2 DEF DecisionsInv, ToCome
    <3> QED
      BY <1>2, <3>2, <3>3, EditOutcome
  <2>2. StatusesKept /\ UsersKeptOut
    BY <1>2, EditStatuses
  <2>3. DecisionsCalm \/ \E i \in Ids : DecisionBegins(r, i) \/ DecisionTaken(r, i)
    BY <1>2, CallDecides, StepDecides DEF EditMoves
  <2>4. \A i \in Ids : Undecided(i)'
    BY <2>2, <2>3, UndecidedKept DEF DecisionsInv
  <2>5. \A i \in Ids : OnceOnly(i)'
    BY <2>2, <2>3, CalmKeeps, BeginKeeps, TakenKeeps DEF DecisionsInv
  <2> QED
    BY <2>1, <2>4, <2>5 DEF DecisionsInv
<1>3. ASSUME NEW s \in Services, CreateService(s) PROVE Goal
  <2>1. /\ kept' = kept \cup {s} /\ row' = [row EXCEPT ![s] = NewService]
        /\ UNCHANGED <<user, reg, edit, acts, contested, stale>>
    BY <1>3 DEF CreateService, Insert, Logs
  <2>2. ToCome'
    BY <1>0, <2>1 DEF DecisionsInv, ToCome
  <2> QED
    BY <1>0, <1>1, <2>1, <2>2
<1>4. ASSUME NEW b \in Ids, Book(b) PROVE Goal
  <2>1. /\ row' = [row EXCEPT ![b] = [row[b] EXCEPT !["totalAppointments"] = @ + 1]]
        /\ UNCHANGED <<user, reg, kept, edit, acts, contested, stale>>
    BY <1>4 DEF Book, Logs
  <2>2. ToCome'
    BY <2>1 DEF DecisionsInv, ToCome
  <2>3. \A i \in Ids : row'[i]["status"] = row[i]["status"]
    BY <1>0, <2>1 DEF Row, Columns
  <2> QED
    BY <1>1, <2>1, <2>2, <2>3
<1>5. ASSUME NEW r \in Signups, NEW i \in Ids, RegisterUser(r, i),
             UNCHANGED <<edit, acts, contested, stale>>
      PROVE  Goal
  <2>1. /\ user[i].state = "none" /\ user'[i].state = "stored"
        /\ \A j \in Ids \ {i} : user'[j] = user[j]
        /\ reg'[r].id = i /\ \A q \in Signups \ {r} : reg'[q] = reg[q]
        /\ UNCHANGED <<kept, row>>
    BY <1>0, <1>5 DEF RegisterUser, IdleSignup, NoUser, Tables
  <2>2. ToCome'
    BY <1>0, <2>1 DEF DecisionsInv, ToCome
  <2> QED
    BY <1>1, <1>5, <2>1, <2>2
<1>6. ASSUME NEW r \in Signups, RegisterProfile(r),
             UNCHANGED <<edit, acts, contested, stale>>
      PROVE  Goal
  <2>1. PICK u \in Ids : reg[r].id = u
    BY <1>0, <1>6 DEF RegisterProfile
  <2>2. /\ kept' = kept \cup {u}
        /\ \A k \in Keys \ {u} : row'[k] = row[k]
        /\ \A j \in Ids : user'[j].state = user[j].state
        /\ reg[r].pc = "profile" /\ user[u].state = "stored"
        /\ reg'[r].pc = "idle" /\ \A q \in Signups \ {r} : reg'[q] = reg[q]
    BY <1>0, <1>6, <2>1, IdleTyped DEF RegisterProfile, Insert, Stored, UserRow
  <2>3. ToCome'
    BY <1>0, <2>1, <2>2 DEF DecisionsInv, ToCome
  <2>4. \A i \in Ids \ {u} : Undecided(i)' /\ OnceOnly(i)'
    BY <1>0, <1>6, <2>2, ElsewhereDecides DEF DecisionsInv
  <2>5. /\ Decided(u) = 0 /\ \A q \in Edits : ~Concerns(q, u)
    BY <2>1, <2>2 DEF DecisionsInv, ToCome, Undecided
  <2>6. Decided(u)' = 0 /\ \A q \in Edits : ~Concerns(q, u)' /\ ~Deciding(q, u)'
    BY <1>6, <2>5 DEF Decided, Concerns, Deciding
  <2>7. Undecided(u)' /\ OnceOnly(u)'
    BY <2>6 DEF Undecided, OnceOnly
  <2> QED
    BY <2>3, <2>4, <2>7 DEF DecisionsInv
<1>7. ASSUME NEW r \in Signups, RegisterFail(r),
             UNCHANGED <<edit, acts, contested, stale>>
      PROVE  Goal
  <2>1. /\ UNCHANGED <<user, kept, row>>
        /\ reg'[r].pc = "idle" /\ \A q \in Signups \ {r} : reg'[q] = reg[q]
    BY <1>0, <1>7, IdleTyped DEF RegisterFail, Tables
  <2>2. ToCome'
    BY <2>1 DEF DecisionsInv, ToCome
  <2> QED
    BY <1>1, <1>7, <2>1, <2>2
<1>8. ASSUME NEW i \in Ids, CreateInitialAdmin(i), Elsewhere PROVE Goal
  <2>1. /\ user[i].state = "none" /\ user'[i].state = "stored"
        /\ \A j \in Ids \ {i} : user'[j] = user[j]
        /\ reg' = reg
    BY <1>0, <1>8 DEF CreateInitialAdmin, NoUser
  <2>2. ToCome'
    BY <1>0, <1>8, <2>1 DEF DecisionsInv, ToCome, Elsewhere
  <2> QED
    BY <1>1, <1>8, <2>1, <2>2 DEF Elsewhere
<1>9. ASSUME Elsewhere, SameUsersStored,
             \A q \in Signups : reg'[q] = reg[q] \/ /\ reg[q].pc # "profile"
                                                    /\ reg'[q].pc # "profile"
      PROVE  Goal
  <2>1. ToCome'
    BY <1>0, <1>9 DEF DecisionsInv, ToCome, Elsewhere, SameUsersStored
  <2> QED
    BY <1>1, <1>9, <2>1 DEF Elsewhere, SameUsersStored
<1> HIDE DEF Goal
<1>10. Goal
  BY <1>2, <1>3, <1>4, <1>5, <1>6, <1>7, <1>8, <1>9, Steps
<1> QED
  BY <1>10 DEF Goal
-----------------------------------------------------------------------------
(* Overlapping calls *)

SerialInv == CopiesHonest /\ RowsAsMeant /\ DecisionsInv /\ RotationInv

LEMMA SerialStart == Init => SerialInv
<1> SUFFICES ASSUME Init PROVE SerialInv
  OBVIOUS
<1>1. /\ \A r \in Edits : edit[r].pc = "idle" /\ edit[r].op = "none"
      /\ \A r \in Signups : reg[r].pc = "idle"
  BY IdleEditTyped, IdleTyped DEF Init, DirectoryInit, UsersInit
<1>2. \A i \in Ids : Decided(i) = 0
  <2> SUFFICES ASSUME NEW i \in Ids PROVE Decided(i) = 0
    OBVIOUS
  <2>1. acts[<<i, "approve">>] = 0 /\ acts[<<i, "reject">>] = 0
    BY DEF Init, DirectoryInit, NoCount, AdminOps
  <2> QED
    BY <2>1 DEF Decided
<1>3. CopiesHonest
  BY <1>1 DEF CopiesHonest, Honest
<1>4. RowsAsMeant
  BY DEF Init, UsersInit, RowsAsMeant
<1>5. ToCome
  BY <1>1 DEF ToCome
<1>6. \A i \in Ids, r \in Edits : ~Concerns(r, i) /\ ~Deciding(r, i)
  BY <1>1 DEF Concerns, Deciding, Decisions
<1>7. DecisionsInv
  BY <1>2, <1>5, <1>6 DEF DecisionsInv, Undecided, OnceOnly
<1> QED
  BY <1>3, <1>4, <1>7, RotationStart DEF SerialInv

\* Calls that do not overlap leave what they would leave one after the other:
\* no save takes back another's columns, a prestataire is approved or rejected
\* once, a refresh token has one successor.
THEOREM SerialSound == Spec => []SerialUnlessOverlapped
<1>1. TypeOK /\ SerialInv /\ [Next]_vars => SerialInv'
  BY HonestInductive, MeantInductive, DecisionsInductive, RotationInductive
     DEF SerialInv
<1>2. SerialInv => SerialUnlessOverlapped
  <2> SUFFICES ASSUME SerialInv PROVE SerialUnlessOverlapped
    OBVIOUS
  <2>1. DecidedOnce
    BY DEF SerialInv, DecisionsInv, OnceOnly, Decided, DecidedOnce
  <2> QED
    BY <2>1 DEF SerialInv, RotationInv, SerialUnlessOverlapped
<1> QED
  BY <1>1, <1>2, SerialStart, AccountsTyped, PTL DEF Spec
=============================================================================
