--------------------------- MODULE AccountsProofs ---------------------------
(***************************************************************************)
(* Proofs about Accounts: types and foreign keys, rows and saves,          *)
(* decisions, registrations, and the age of answers.                       *)
(***************************************************************************)
EXTENDS Accounts, TLAPS

\* Every row has a user it belongs to.
LEMMA OwnerIsUser == \A k \in Keys : OwnerOf(k) \in Ids
BY UsersAssumption DEF Keys, OwnerOf

LEMMA BlankTyped == Blank \in Row /\ \A v \in Nat, c \in Columns :
                        [Blank EXCEPT ![c] = v] \in Row
BY DEF Blank, Row

LEMMA ProfileTyped == /\ \A role \in Roles : NewProfile(role) \in Row
                      /\ NewService \in Row
<1>1. {"categories", "isActive"} \subseteq Columns
  BY DEF Columns
<1>2. \A v \in Nat, c \in Columns : [Blank EXCEPT ![c] = v] \in Row
  BY BlankTyped
<1> QED
  BY <1>1, <1>2 DEF NewProfile, NewService

LEMMA IdleTyped == /\ IdleSignup \in Signup /\ IdleSignup.pc = "idle"
                   /\ IdleAuth \in AuthRequest /\ IdleAuth.pc = "idle"
                   /\ IdleLookup \in LookupRequest /\ IdleLookup.pc = "idle"
                   /\ NoUser \in UserRow /\ NoToken \in TokenRow
                   /\ NoEntry \in Entry
BY DEF IdleSignup, Signup, IdleAuth, AuthRequest, AuthPc, IdleLookup,
   LookupRequest, NoUser, UserRow, Links, NoToken, TokenRow, NoEntry, Entry

LEMMA IdleEditTyped ==
    IdleEdit \in EditRequest /\ IdleEdit.pc = "idle" /\ IdleEdit.op = "none"
<1>1. [k \in Keys |-> Blank] \in [Keys -> Row]
  BY BlankTyped
<1> QED
  BY <1>1 DEF IdleEdit, EditRequest, EditPc

-----------------------------------------------------------------------------
(* Initial states *)

LEMMA InitTyped == Init => TypeOK
<1> SUFFICES ASSUME Init PROVE TypeOK
  OBVIOUS
<1>0. MaxCalls \in Nat /\ calls = 0
  BY AccountsAssumption DEF Init
<1>1. \A i \in Ids : Known(i) \in UserRow
  BY UsersAssumption, IdleTyped DEF Known, UserRow, NoUser, Links
<1>2. \A k \in Keys : KnownRow(k) \in Row
  <2>1. {"bio", "profileCompleted"} \subseteq Columns
    BY DEF Columns
  <2>2. \A x \in Row, v \in Nat, c \in Columns : [x EXCEPT ![c] = v] \in Row
    BY DEF Row
  <2>3. NewProfile("PRESTATAIRE") \in Row /\ NewService \in Row /\ Blank \in Row
    BY ProfileTyped, BlankTyped DEF Roles
  <2> QED
    BY <2>1, <2>2, <2>3 DEF KnownRow
<1>3. UsersTypeOK
  <2>1. \A i \in Ids : KnownRole[i] # "none" => Stored(i)
    BY UsersAssumption DEF Init, UsersInit, Stored, Known, NoUser
  <2>2. \A k \in kept : Stored(OwnerOf(k))
    BY <2>1, UsersAssumption DEF Init, UsersInit, OwnerOf, Roles
  <2>3. kept \subseteq Keys /\ halfway \subseteq Ids
    BY UsersAssumption DEF Init, UsersInit, Keys
  <2>4. user \in [Ids -> UserRow] /\ row \in [Keys -> Row] /\ meant \in [Keys -> Row]
    BY <1>1, <1>2 DEF Init, UsersInit
  <2>5. /\ reg \in [Signups -> Signup]
        /\ \A r \in Signups : reg[r].pc = "profile" => reg[r].id \in Ids
    BY IdleTyped DEF Init, UsersInit
  <2> QED
    BY <2>2, <2>3, <2>4, <2>5 DEF UsersTypeOK
<1>4. SessionsTypeOK
  <2>1. \A t \in Tokens : /\ token[t] \in TokenRow
                          /\ token[t].state # "none" => token[t].user \in Ids
    BY SessionsAssumption, IdleTyped DEF Init, SessionsInit, NoToken, TokenRow
  <2> QED
    BY <2>1, IdleTyped DEF Init, SessionsInit, SessionsTypeOK
<1>5. DirectoryTypeOK
  <2>1. NoCount \in Counters
    BY DEF NoCount, Counters
  <2>2. \A r \in Edits : edit[r] = IdleEdit
    BY DEF Init, DirectoryInit
  <2> QED
    BY <2>1, <2>2, IdleEditTyped DEF Init, DirectoryInit, DirectoryTypeOK, AdminOps
<1>6. SearchTypeOK
  <2>1. \A q \in Queries : LongAgo(q) \in Nat
    BY SearchAssumption DEF LongAgo
  <2>2. /\ cache = [q \in Queries |-> NoEntry] /\ lookup = [l \in Lookups |-> IdleLookup]
        /\ ago = [q \in Queries |-> [i \in Ids |->
                     IF i \in Listed(q) THEN 0 ELSE LongAgo(q)]]
    BY DEF Init, SearchInit
  <2>3. ago \in [Queries -> [Ids -> Nat]]
    BY <2>1, <2>2
  <2> QED
    BY <2>2, <2>3, IdleTyped DEF SearchTypeOK
<1> QED
  BY <1>0, <1>3, <1>4, <1>5, <1>6 DEF TypeOK

-----------------------------------------------------------------------------
(* Types: users *)

\* What keeps the users' state typed, whoever takes the step: rows stay typed,
\* and no user that rows belong to goes.
LEMMA UsersKept ==
    ASSUME UsersTypeOK,
           user' \in [Ids -> UserRow],
           kept' \subseteq Keys,
           \A k \in kept' : user'[OwnerOf(k)].state = "stored",
           row' \in [Keys -> Row], meant' \in [Keys -> Row],
           UNCHANGED <<reg, halfway>>
    PROVE  UsersTypeOK'
BY DEF UsersTypeOK, Stored

LEMMA RowTyped == ASSUME UsersTypeOK, NEW k \in Keys
                  PROVE  /\ row[k] \in Row /\ meant[k] \in Row
                         /\ \A c \in Columns : row[k][c] \in Nat /\ meant[k][c] \in Nat
BY DEF UsersTypeOK, Row

\* The tables with one user or row more, or one deleted.
LEMMA InsertTyped ==
    ASSUME UsersTypeOK, NEW k \in Keys, NEW columns \in Row, Stored(OwnerOf(k)),
           Insert(k, columns)
    PROVE  /\ kept' \subseteq Keys /\ \A x \in kept' : Stored(OwnerOf(x))
           /\ row' \in [Keys -> Row] /\ meant' \in [Keys -> Row]
BY DEF UsersTypeOK, Insert

LEMMA DeleteUserTyped ==
    ASSUME UsersTypeOK, NEW i \in Ids, DeleteUser(i), UNCHANGED <<reg, halfway>>
    PROVE  UsersTypeOK'
<1>1. user' \in [Ids -> UserRow]
  BY IdleTyped DEF UsersTypeOK, DeleteUser, UserRow
<1>2. /\ kept' \subseteq Keys
      /\ row' \in [Keys -> Row] /\ meant' \in [Keys -> Row]
  BY BlankTyped DEF UsersTypeOK, DeleteUser
<1>3. \A k \in kept' : user'[OwnerOf(k)].state = "stored"
  BY OwnerIsUser DEF UsersTypeOK, DeleteUser, Stored
<1> QED
  BY <1>1, <1>2, <1>3, UsersKept

LEMMA RegisterTyped ==
    ASSUME UsersTypeOK, NEW r \in Signups, RegisterCall(r) \/ RegisterStep(r)
    PROVE  UsersTypeOK'
<1>1. CASE RegisterCall(r)
  <2>1. PICK e \in Emails, role \in Roles : RegisterCheck(r, e, role)
    BY <1>1 DEF RegisterCall
  <2> QED
    BY <2>1 DEF RegisterCheck, UsersTypeOK, Signup, IdleSignup, Tables, Stored
<1>2. ASSUME NEW i \in Ids, RegisterUser(r, i) PROVE UsersTypeOK'
  <2>1. reg[r] \in Signup /\ reg[r].pc = "insert"
    BY <1>2 DEF UsersTypeOK, RegisterUser
  <2>2. PICK e \in Emails \cup {NoOne}, role \in Roles \cup {"none"} :
           reg[r].email = e /\ reg[r].role = role
    BY <2>1 DEF Signup
  <2>3. user' = [user EXCEPT ![i] = [NoUser EXCEPT !.state = "stored", !.email = e,
                                        !.role = role, !.verification = "made"]]
    BY <1>2, <2>2 DEF RegisterUser
  <2>4. user' \in [Ids -> UserRow]
    BY <2>3 DEF UsersTypeOK, NoUser, UserRow, Links
  <2>5. \A k \in kept : user'[OwnerOf(k)].state = "stored"
    BY <2>3, OwnerIsUser DEF UsersTypeOK, Stored, NoUser
  <2>6. /\ reg' \in [Signups -> Signup]
        /\ \A q \in Signups : reg'[q].pc = "profile" => reg'[q].id \in Ids
    BY <1>2, <2>2 DEF RegisterUser, UsersTypeOK, Signup, IdleSignup
  <2> QED
    BY <1>2, <2>4, <2>5, <2>6 DEF RegisterUser, UsersTypeOK, Tables, Stored
<1>3. CASE RegisterConflict(r)
  BY <1>3, IdleTyped DEF RegisterConflict, UsersTypeOK, Tables, Stored
<1>4. CASE RegisterProfile(r)
  <2>1. PICK i \in Ids : reg[r].id = i
    BY <1>4 DEF RegisterProfile, UsersTypeOK
  <2>2. PICK columns \in Row : NewProfile(reg[r].role) = columns
    BY BlankTyped DEF NewProfile, Columns
  <2>3. Stored(i) /\ Insert(i, columns)
    BY <1>4, <2>1, <2>2 DEF RegisterProfile
  <2>4. i \in Keys /\ OwnerOf(i) = i
    BY DEF Keys, OwnerOf
  <2>5. /\ kept' \subseteq Keys /\ \A x \in kept' : Stored(OwnerOf(x))
        /\ row' \in [Keys -> Row] /\ meant' \in [Keys -> Row]
    BY <2>3, <2>4, InsertTyped
  <2>6. PICK v \in Links : user' = [user EXCEPT ![i].verification = v]
    <3>1. user[i].verification \in Links /\ "asked" \in Links
      BY DEF UsersTypeOK, UserRow, Links
    <3> QED
      BY <1>4, <2>1, <3>1 DEF RegisterProfile
  <2>7. /\ user' \in [Ids -> UserRow]
        /\ \A j \in Ids : user'[j].state = user[j].state
    BY <2>6 DEF UsersTypeOK, UserRow
  <2>8. /\ reg' \in [Signups -> Signup]
        /\ \A q \in Signups : reg'[q].pc = "profile" => reg'[q].id \in Ids
    BY <1>4, IdleTyped DEF RegisterProfile, UsersTypeOK
  <2> QED
    BY <1>4, <2>5, <2>7, <2>8, OwnerIsUser DEF RegisterProfile, UsersTypeOK, Stored
<1>5. CASE RegisterFail(r)
  BY <1>5, IdleTyped DEF RegisterFail, UsersTypeOK, Tables, Stored
<1> QED
  BY <1>1, <1>2, <1>3, <1>4, <1>5 DEF RegisterStep

\* Steps that change one user's row and no more.
LEMMA UserRowTyped ==
    ASSUME UsersTypeOK, NEW i \in Ids, NEW u \in UserRow,
           u.state = "stored" \/ u.state = user[i].state,
           user' = [user EXCEPT ![i] = u], UNCHANGED <<Tables, reg, halfway>>
    PROVE  UsersTypeOK'
<1>1. \A k \in kept : user'[OwnerOf(k)].state = "stored"
  BY OwnerIsUser DEF UsersTypeOK, Stored
<1> QED
  BY <1>1, UsersKept DEF UsersTypeOK, Tables

LEMMA UserEventTyped ==
    ASSUME UsersTypeOK, NEW i \in Ids, UserEvent(i)
    PROVE  UsersTypeOK'
<1>0. user[i] \in UserRow
  BY DEF UsersTypeOK
<1>1. CASE CreateInitialAdmin(i)
  <2> DEFINE u == [NoUser EXCEPT !.state = "stored", !.email = AdminEmail,
                                 !.role = "ADMIN", !.emailVerified = TRUE]
  <2>1. u \in UserRow /\ u.state = "stored"
    BY UsersAssumption DEF NoUser, UserRow, Links, Roles
  <2>2. user' = [user EXCEPT ![i] = u] /\ UNCHANGED <<Tables, reg, halfway>>
    BY <1>1 DEF CreateInitialAdmin
  <2> QED
    BY <2>1, <2>2, UserRowTyped
<1>2. CASE /\ ~CreateInitialAdmin(i)
  <2>1. PICK v \in Links, w \in Links :
           /\ user' = [user EXCEPT ![i] = [user[i] EXCEPT !.verification = v, !.reset = w]]
           /\ UNCHANGED <<Tables, reg, halfway>>
    <3>1. /\ user[i].verification \in Links /\ user[i].reset \in Links
          /\ {"made", "mailed", "none"} \subseteq Links
      BY <1>0 DEF UserRow, Links
    <3>2. \A v : /\ [user[i] EXCEPT !.verification = v]
                       = [user[i] EXCEPT !.verification = v, !.reset = user[i].reset]
                 /\ [user[i] EXCEPT !.reset = v]
                       = [user[i] EXCEPT !.verification = user[i].verification, !.reset = v]
      BY <1>0 DEF UserRow
    <3>3. \E v \in Links :
             \/ user' = [user EXCEPT ![i] = [user[i] EXCEPT !.verification = v]]
             \/ user' = [user EXCEPT ![i] = [user[i] EXCEPT !.reset = v]]
      <4>1. CASE LinkExpires(i)
        BY <4>1, <3>1 DEF LinkExpires
      <4>2. ASSUME NEW sent \in BOOLEAN, MailVerification(i, sent) PROVE \E v \in Links :
             \/ user' = [user EXCEPT ![i] = [user[i] EXCEPT !.verification = v]]
             \/ user' = [user EXCEPT ![i] = [user[i] EXCEPT !.reset = v]]
        BY <4>2, <3>1 DEF MailVerification
      <4>3. ASSUME NEW sent \in BOOLEAN, MailReset(i, sent) PROVE \E v \in Links :
             \/ user' = [user EXCEPT ![i] = [user[i] EXCEPT !.verification = v]]
             \/ user' = [user EXCEPT ![i] = [user[i] EXCEPT !.reset = v]]
        BY <4>3, <3>1 DEF MailReset
      <4> QED
        BY <1>2, <4>1, <4>2, <4>3 DEF UserEvent
    <3>4. UNCHANGED <<Tables, reg, halfway>>
      BY <1>2 DEF UserEvent, MailVerification, MailReset, LinkExpires
    <3>5. PICK x \in Links :
             \/ user' = [user EXCEPT ![i] = [user[i] EXCEPT !.verification = x]]
             \/ user' = [user EXCEPT ![i] = [user[i] EXCEPT !.reset = x]]
      BY <3>3
    <3>6. CASE user' = [user EXCEPT ![i] = [user[i] EXCEPT !.verification = x]]
      <4>1. user' = [user EXCEPT ![i] = [user[i] EXCEPT !.verification = x,
                                                        !.reset = user[i].reset]]
        BY <3>2, <3>6
      <4> QED
        BY <3>1, <3>4, <4>1
    <3>7. CASE user' = [user EXCEPT ![i] = [user[i] EXCEPT !.reset = x]]
      <4>1. user' = [user EXCEPT ![i] = [user[i] EXCEPT
                        !.verification = user[i].verification, !.reset = x]]
        BY <3>2, <3>7
      <4> QED
        BY <3>1, <3>4, <4>1
    <3> QED
      BY <3>5, <3>6, <3>7
  <2> DEFINE u == [user[i] EXCEPT !.verification = v, !.reset = w]
  <2>2. u \in UserRow /\ u.state = user[i].state
    BY <1>0 DEF UserRow
  <2> QED
    BY <2>1, <2>2, UserRowTyped
<1> QED
  BY <1>1, <1>2

-----------------------------------------------------------------------------
(* Types: sessions *)

LEMMA UpdatesTyped ==
    ASSUME UsersTypeOK, SessionsTypeOK, NEW r \in Auths, NEW op, NEW columns,
           Stored(auth[r].user) => columns \in UserRow /\ columns.state = "stored",
           Updates(r, op, columns)
    PROVE  UsersTypeOK'
<1>1. PICK i \in Ids : auth[r].user = i
  BY DEF Updates, SessionsTypeOK
<1>2. CASE Stored(i)
  BY <1>1, <1>2, UserRowTyped DEF Updates
<1>3. CASE ~Stored(i)
  BY <1>1, <1>3 DEF Updates, UsersTypeOK, Tables, Stored
<1> QED
  BY <1>2, <1>3

\* The row a request is about to update.
LEMMA UpdatedRow ==
    ASSUME UsersTypeOK, SessionsTypeOK, NEW r \in Auths, auth[r].pc = "update",
           Stored(auth[r].user)
    PROVE  /\ user[auth[r].user] \in UserRow
           /\ user[auth[r].user].state = "stored"
           /\ user[auth[r].user].pw \in Nat
BY DEF UsersTypeOK, SessionsTypeOK, Stored, UserRow

LEMMA AuthCallTyped ==
    ASSUME UsersTypeOK, SessionsTypeOK, NEW r \in Auths, AuthCall(r)
    PROVE  UsersTypeOK' /\ SessionsTypeOK'
<1>0. UNCHANGED usersVars => UsersTypeOK'
  BY DEF usersVars, UsersTypeOK, Stored
<1>1. ASSUME NEW i \in Ids, Login(r, i) PROVE UsersTypeOK' /\ SessionsTypeOK'
  <2>1. user[i].pw \in Nat
    BY DEF UsersTypeOK, UserRow
  <2> QED
    BY <1>0, <1>1, <2>1 DEF Login, SessionsTypeOK, IdleAuth, AuthRequest, AuthPc, History
<1>2. ASSUME NEW i \in Ids, NEW pc \in AuthPc, NEW op \in UserOps \cup {"logout"},
             Begins(r, pc, op, i)
      PROVE  /\ auth' \in [Auths -> AuthRequest]
             /\ \A q \in Auths : auth'[q].pc # "idle" => auth'[q].user \in Ids
             /\ pc # "revoke" => \A q \in Auths : auth'[q].pc = "revoke" => auth'[q] = auth[q]
  BY <1>2 DEF Begins, SessionsTypeOK, IdleAuth, AuthRequest, AuthPc
<1>3. ASSUME NEW i \in Ids,
             VerifyBegin(r, i) \/ ResendBegin(r, i) \/ ForgotBegin(r, i) \/ ResetBegin(r, i)
      PROVE  UsersTypeOK' /\ SessionsTypeOK'
  <2>1. "update" \in AuthPc /\ {"verify", "resend", "forgot", "reset"} \subseteq UserOps
    BY DEF AuthPc, UserOps
  <2>2. /\ auth' \in [Auths -> AuthRequest]
        /\ \A q \in Auths : /\ auth'[q].pc # "idle" => auth'[q].user \in Ids
                            /\ auth'[q].pc = "revoke" => auth'[q] = auth[q]
    BY <1>2, <1>3, <2>1 DEF VerifyBegin, ResendBegin, ForgotBegin, ResetBegin
  <2> QED
    BY <1>0, <1>3, <2>2 DEF VerifyBegin, ResendBegin, ForgotBegin, ResetBegin,
       SessionsTypeOK, History
<1>4. ASSUME NEW t \in Tokens, RefreshRead(r, t) PROVE UsersTypeOK' /\ SessionsTypeOK'
  <2>1. token[t] \in TokenRow /\ token[t].user \in Ids
    BY <1>4 DEF RefreshRead, Live, SessionsTypeOK
  <2>2. /\ auth' \in [Auths -> AuthRequest]
        /\ \A q \in Auths : /\ auth'[q].pc # "idle" => auth'[q].user \in Ids
                            /\ auth'[q].pc = "revoke" => \/ auth'[q] = auth[q]
                                                        \/ auth'[q].token = t
    BY <1>4, <2>1 DEF RefreshRead, SessionsTypeOK, AuthRequest, AuthPc, TokenRow
  <2>3. raced' \subseteq Tokens
    BY <1>4 DEF RefreshRead, SessionsTypeOK
  <2> QED
    BY <1>0, <1>4, <2>2, <2>3 DEF RefreshRead, SessionsTypeOK, Live
<1>5. ASSUME NEW t \in Tokens, LogoutBegin(r, t) PROVE UsersTypeOK' /\ SessionsTypeOK'
  <2>1. token[t] \in TokenRow /\ token[t].user \in Ids
    BY <1>5 DEF LogoutBegin, Accepted, SessionsTypeOK
  <2>2. /\ auth' \in [Auths -> AuthRequest]
        /\ \A q \in Auths : /\ auth'[q].pc # "idle" => auth'[q].user \in Ids
                            /\ auth'[q].pc = "revoke" => auth'[q] = auth[q]
    BY <1>2, <1>5, <2>1 DEF LogoutBegin, AuthPc
  <2>3. /\ token' \in [Tokens -> TokenRow]
        /\ \A x \in Tokens : /\ token'[x].state # "none" => token'[x].user \in Ids
                             /\ token'[x].state = token[x].state
    BY <1>5, <2>1 DEF LogoutBegin, SessionsTypeOK, TokenRow
  <2> QED
    BY <1>0, <1>5, <2>2, <2>3 DEF LogoutBegin, SessionsTypeOK, History
<1>6. ASSUME NEW t \in Tokens, ChangeBegin(r, t) PROVE UsersTypeOK' /\ SessionsTypeOK'
  <2>1. token[t].user \in Ids
    BY <1>6 DEF ChangeBegin, Accepted, SessionsTypeOK
  <2>2. /\ auth' \in [Auths -> AuthRequest]
        /\ \A q \in Auths : /\ auth'[q].pc # "idle" => auth'[q].user \in Ids
                            /\ auth'[q].pc = "revoke" => auth'[q] = auth[q]
    BY <1>2, <1>6, <2>1 DEF ChangeBegin, AuthPc, UserOps
  <2> QED
    BY <1>0, <1>6, <2>2 DEF ChangeBegin, SessionsTypeOK, History
<1> QED
  BY <1>1, <1>3, <1>4, <1>5, <1>6 DEF AuthCall

LEMMA AuthStepTyped ==
    ASSUME UsersTypeOK, SessionsTypeOK, NEW r \in Auths, AuthStep(r)
    PROVE  UsersTypeOK' /\ SessionsTypeOK'
<1> USE DEF History
<1>0. /\ UNCHANGED usersVars => UsersTypeOK'
      /\ auth[r] \in AuthRequest
      /\ auth[r].pc # "idle" => auth[r].user \in Ids
  BY DEF usersVars, UsersTypeOK, Stored, SessionsTypeOK
<1>1. CASE RefreshRevoke(r)
  <2>1. /\ token' \in [Tokens -> TokenRow]
        /\ \A x \in Tokens : token'[x].user = token[x].user
        /\ \A x \in Tokens : token'[x].state # "none" <=> token[x].state # "none"
    BY <1>1 DEF RefreshRevoke, SessionsTypeOK, TokenRow
  <2>2. /\ auth' \in [Auths -> AuthRequest]
        /\ \A q \in Auths : /\ auth'[q].pc # "idle" => auth'[q].user \in Ids
                            /\ auth'[q].pc = "revoke" => auth'[q] = auth[q]
    BY <1>1 DEF RefreshRevoke, SessionsTypeOK, AuthRequest, AuthPc
  <2> QED
    BY <1>0, <1>1, <2>1, <2>2 DEF RefreshRevoke, SessionsTypeOK
<1>2. ASSUME AuthEnds(r)
      PROVE  /\ auth' \in [Auths -> AuthRequest]
             /\ \A q \in Auths : /\ auth'[q].pc # "idle" => auth'[q].user \in Ids
                                 /\ auth'[q].pc = "revoke" => auth'[q] = auth[q]
  BY <1>2, IdleTyped DEF AuthEnds, SessionsTypeOK
<1>3. ASSUME NEW t \in Tokens, SaveRefreshToken(r, t) PROVE UsersTypeOK' /\ SessionsTypeOK'
  <2>1. /\ token' \in [Tokens -> TokenRow]
        /\ \A x \in Tokens : token'[x].state # "none" => token'[x].user \in Ids
        /\ \A x \in Tokens : token[x].state # "none" => token'[x] = token[x]
    BY <1>0, <1>3 DEF SaveRefreshToken, SessionsTypeOK, AuthRequest, TokenRow
  <2> QED
    BY <1>0, <1>2, <1>3, <2>1 DEF SaveRefreshToken, SessionsTypeOK
<1>4. CASE RevokeAll(r)
  <2>1. /\ token' \in [Tokens -> TokenRow]
        /\ \A x \in Tokens : token'[x].user = token[x].user
        /\ \A x \in Tokens : token'[x].state # "none" <=> token[x].state # "none"
    BY <1>4 DEF RevokeAll, SessionsTypeOK, TokenRow
  <2>2. /\ auth' \in [Auths -> AuthRequest]
        /\ \A q \in Auths : /\ auth'[q].pc # "idle" => auth'[q].user \in Ids
                            /\ auth'[q].pc = "revoke" => /\ auth[q].pc = "revoke"
                                                        /\ auth'[q].token = auth[q].token
    BY <1>4, IdleTyped DEF RevokeAll, SessionsTypeOK, AuthRequest
  <2> QED
    BY <1>0, <1>4, <2>1, <2>2 DEF RevokeAll, SessionsTypeOK
<1>5. ASSUME VerifyWrite(r) \/ ResendWrite(r) \/ ForgotWrite(r)
      PROVE  UsersTypeOK' /\ SessionsTypeOK'
  <2> DEFINE u == user[auth[r].user]
  <2>1. auth[r].pc = "update"
    BY <1>5 DEF VerifyWrite, ResendWrite, ForgotWrite, Updates
  <2>2. ASSUME Stored(auth[r].user)
        PROVE  /\ [u EXCEPT !.emailVerified = TRUE, !.verification = "none"] \in UserRow
               /\ [u EXCEPT !.emailVerified = TRUE, !.verification = "none"].state = "stored"
               /\ [u EXCEPT !.verification = "made"] \in UserRow
               /\ [u EXCEPT !.verification = "made"].state = "stored"
               /\ [u EXCEPT !.reset = "asked"] \in UserRow
               /\ [u EXCEPT !.reset = "asked"].state = "stored"
    BY <2>1, <2>2, UpdatedRow DEF UserRow, Links
  <2>3. UsersTypeOK'
    BY <1>5, <2>2, UpdatesTyped DEF VerifyWrite, ResendWrite, ForgotWrite
  <2> QED
    BY <1>2, <1>5, <2>3 DEF VerifyWrite, ResendWrite, ForgotWrite, Updates, SessionsTypeOK
<1>6. ASSUME ResetWrite(r) \/ ChangeWrite(r)
      PROVE  UsersTypeOK' /\ SessionsTypeOK'
  <2> DEFINE u == user[auth[r].user]
  <2>1. auth[r].pc = "update"
    BY <1>6 DEF ResetWrite, ChangeWrite, Updates
  <2>2. ASSUME Stored(auth[r].user)
        PROVE  /\ [u EXCEPT !.pw = u.pw + 1, !.reset = "none"] \in UserRow
               /\ [u EXCEPT !.pw = u.pw + 1, !.reset = "none"].state = "stored"
               /\ [u EXCEPT !.pw = u.pw + 1] \in UserRow
               /\ [u EXCEPT !.pw = u.pw + 1].state = "stored"
    <3>1. u \in UserRow /\ u.state = "stored" /\ u.pw + 1 \in Nat
      BY <2>1, <2>2, UpdatedRow
    <3>2. \A v \in Nat : /\ [u EXCEPT !.pw = v, !.reset = "none"] \in UserRow
                         /\ [u EXCEPT !.pw = v, !.reset = "none"].state = "stored"
                         /\ [u EXCEPT !.pw = v] \in UserRow
                         /\ [u EXCEPT !.pw = v].state = "stored"
      BY <3>1 DEF UserRow, Links
    <3> QED
      BY <3>1, <3>2
  <2>3. UsersTypeOK'
    BY <1>6, <2>2, UpdatesTyped DEF ResetWrite, ChangeWrite
  <2>4. u.pw + 1 \in Nat /\ auth[r].user \in Ids
    BY <1>0, <2>1 DEF UsersTypeOK, UserRow
  <2>5. CASE ResetWrite(r)
    <3>1. /\ auth' \in [Auths -> AuthRequest]
          /\ \A q \in Auths : /\ auth'[q].pc # "idle" => auth'[q].user \in Ids
                              /\ auth'[q].pc = "revoke" => auth'[q] = auth[q]
      BY <2>4, <2>5 DEF ResetWrite, SessionsTypeOK, AuthRequest, AuthPc
    <3> QED
      BY <2>3, <2>5, <3>1 DEF ResetWrite, Updates, SessionsTypeOK
  <2>6. CASE ChangeWrite(r)
    BY <1>2, <2>3, <2>4, <2>6 DEF ChangeWrite, Updates, SessionsTypeOK
  <2> QED
    BY <1>6, <2>5, <2>6
<1>7. CASE AuthFail(r)
  <2>1. auth[r].user \in Ids /\ auth[r].pw \in Nat
    BY <1>0, <1>7 DEF AuthFail, AuthRequest
  <2> QED
    BY <1>0, <1>2, <1>7, <2>1 DEF AuthFail, SessionsTypeOK
<1> QED
  BY <1>1, <1>3, <1>4, <1>5, <1>6, <1>7 DEF AuthStep

LEMMA TokenExpiresTyped ==
    ASSUME UsersTypeOK, SessionsTypeOK, NEW t \in Tokens, TokenExpires(t)
    PROVE  UsersTypeOK' /\ SessionsTypeOK'
<1>1. UsersTypeOK'
  BY DEF TokenExpires, usersVars, UsersTypeOK, Stored
<1>2. /\ token' \in [Tokens -> TokenRow]
      /\ \A x \in Tokens : token'[x].user = token[x].user
      /\ \A x \in Tokens : token'[x].state # "none" <=> token[x].state # "none"
  BY DEF TokenExpires, SessionsTypeOK, TokenRow
<1> QED
  BY <1>1, <1>2 DEF TokenExpires, SessionsTypeOK, History
-----------------------------------------------------------------------------
(* Types: profiles, services and administrators *)

GoodEdit(q) ==
    /\ q \in EditRequest
    /\ q.pc \in {"load", "write"} => q.key \in Keys
    /\ q.pc \in {"act", "audit"} => q.op \in AdminOps
    /\ q.op \in AdminOps => q.id \in Ids

\* DirectoryTypeOK but for late, which every step writes.
EditsTyped ==
    /\ edit \in [Edits -> EditRequest]
    /\ \A r \in Edits : GoodEdit(edit[r])
    /\ audit \in Counters /\ acts \in Counters /\ unlogged \in Counters
    /\ stale \subseteq Keys
    /\ contested \subseteq Ids

LEMMA DirectoryParts == DirectoryTypeOK <=> EditsTyped /\ late \in [Edits -> SUBSET Keys]
BY DEF DirectoryTypeOK, EditsTyped, GoodEdit

LEMMA LateTyped ==
    ASSUME late \in [Edits -> SUBSET Keys], NoteLate
    PROVE  late' \in [Edits -> SUBSET Keys]
BY DEF NoteLate

LEMMA IdleGood == GoodEdit(IdleEdit)
BY IdleEditTyped DEF GoodEdit, AdminOps

\* Request r becomes q; what else changes stays typed.
LEMMA EditKept ==
    ASSUME EditsTyped, NEW r \in Edits, NEW q, GoodEdit(q),
           edit' = [edit EXCEPT ![r] = q],
           audit' \in Counters, acts' \in Counters, unlogged' \in Counters,
           stale' \subseteq Keys, contested' \subseteq Ids
    PROVE  EditsTyped'
BY DEF EditsTyped, GoodEdit

LEMMA EditEndsTyped ==
    ASSUME EditsTyped, NEW r \in Edits, EditEnds(r),
           audit' \in Counters, acts' \in Counters, unlogged' \in Counters,
           stale' \subseteq Keys, contested' \subseteq Ids
    PROVE  EditsTyped'
BY EditKept, IdleGood DEF EditEnds

LEMMA SaveTyped ==
    ASSUME EditsTyped, NEW r \in Edits, NEW i \in Ids,
           NEW op \in AdminOps \cup {"update", "service"},
           NEW key \in Keys, NEW rest \in Seq(Services),
           NEW copy \in [Keys -> Row], NEW asks \in SUBSET Columns,
           Save(r, op, i, key, rest, copy, asks),
           UNCHANGED <<Logs, stale>>, contested' \subseteq Ids
    PROVE  EditsTyped'
<1> DEFINE q == [IdleEdit EXCEPT !.pc = "load", !.op = op, !.id = i, !.key = key,
                    !.rest = rest, !.copy = copy, !.asks = asks, !.had = ServicesOf(i)]
<1>1. q \in EditRequest /\ q.pc = "load" /\ q.key = key /\ q.id = i
  BY IdleEditTyped DEF EditRequest, EditPc, ServicesOf
<1>2. GoodEdit(q)
  BY <1>1 DEF GoodEdit
<1>3. edit' = [edit EXCEPT ![r] = q]
  BY DEF Save
<1> HIDE DEF q
<1>4. audit' \in Counters /\ acts' \in Counters /\ unlogged' \in Counters
  BY DEF EditsTyped, Logs
<1>5. stale' \subseteq Keys
  BY DEF EditsTyped
<1> QED
  BY <1>2, <1>3, <1>4, <1>5, EditKept

LEMMA CopyTyped ==
    ASSUME NEW k \in Keys, NEW columns \in Row
    PROVE  Copy(k, columns) \in [Keys -> Row]
BY BlankTyped DEF Copy

\* A row with another value in one column.
LEMMA SetTyped ==
    ASSUME NEW columns \in Row, NEW c \in Columns, NEW v \in Nat
    PROVE  [columns EXCEPT ![c] = v] \in Row
BY DEF Row

LEMMA EditedTyped ==
    ASSUME UsersTypeOK, NEW i \in Ids, NEW c \in Columns, NEW v \in {0, 1}
    PROVE  Edited(i, c, v) \in Row
<1>1. row[i] \in Row /\ v \in Nat /\ "profileCompleted" \in Columns
  BY RowTyped DEF Keys, Columns
<1>2. [row[i] EXCEPT ![c] = v] \in Row
  BY <1>1, SetTyped
<1>3. \A x : Complete(x) \in Nat
  BY DEF Complete
<1> QED
  BY <1>1, <1>2, <1>3, SetTyped DEF Edited

LEMMA ProfileCallTyped ==
    ASSUME UsersTypeOK, EditsTyped, NEW r \in Edits, ProfileCall(r)
    PROVE  UsersTypeOK' /\ EditsTyped'
<1>1. ASSUME NEW i \in Ids, NEW c \in Columns, NEW v \in {0, 1},
             UpdatePrestataireBegin(r, i, c, v)
      PROVE  EditsTyped' /\ UNCHANGED usersVars
  <2>1. /\ Save(r, "update", i, i, <<>>, Copy(i, Edited(i, c, v)), {c, "profileCompleted"})
        /\ UNCHANGED <<usersVars, Logs, stale, contested>>
    BY <1>1 DEF UpdatePrestataireBegin
  <2>2. i \in Keys /\ {c, "profileCompleted"} \subseteq Columns /\ << >> \in Seq(Services)
    BY DEF Keys, Columns
  <2>3. Copy(i, Edited(i, c, v)) \in [Keys -> Row]
    BY <2>2, EditedTyped, CopyTyped
  <2>4. contested' \subseteq Ids
    BY <2>1 DEF EditsTyped
  <2> QED
    BY <2>1, <2>2, <2>3, <2>4, SaveTyped
<1>2. ASSUME NEW i \in Ids, NEW v \in {0, 1}, UpdateClientBegin(r, i, v)
      PROVE  EditsTyped' /\ UNCHANGED usersVars
  <2>1. /\ Save(r, "update", i, i, <<>>, Copy(i, [row[i] EXCEPT !["bio"] = v]), {"bio"})
        /\ UNCHANGED <<usersVars, Logs, stale, contested>>
    BY <1>2 DEF UpdateClientBegin
  <2>2. i \in Keys /\ {"bio"} \subseteq Columns /\ << >> \in Seq(Services) /\ v \in Nat
    BY DEF Keys, Columns
  <2>3. Copy(i, [row[i] EXCEPT !["bio"] = v]) \in [Keys -> Row]
    BY <2>2, RowTyped, SetTyped, CopyTyped
  <2>4. contested' \subseteq Ids
    BY <2>1 DEF EditsTyped
  <2> QED
    BY <2>1, <2>2, <2>3, <2>4, SaveTyped
<1> QED
  BY <1>1, <1>2 DEF ProfileCall, usersVars, UsersTypeOK, Stored

LEMMA ServiceCallTyped ==
    ASSUME UsersTypeOK, EditsTyped, NEW r \in Edits, ServiceCall(r)
    PROVE  UsersTypeOK' /\ EditsTyped'
<1>0. \A s \in Services : s \in Keys /\ Owner[s] \in Ids
  BY UsersAssumption DEF Keys
<1>1. ASSUME NEW s \in Services, NEW c \in Columns, NEW v \in {0, 1}, ServiceBegin(r, s, c, v)
      PROVE  EditsTyped' /\ UNCHANGED usersVars
  <2>1. /\ Save(r, "service", Owner[s], s, <<>>, Copy(s, [row[s] EXCEPT ![c] = v]), {c})
        /\ UNCHANGED <<usersVars, Logs, stale, contested>>
    BY <1>1 DEF ServiceBegin
  <2>2. {c} \subseteq Columns /\ << >> \in Seq(Services) /\ v \in Nat
    OBVIOUS
  <2>3. Copy(s, [row[s] EXCEPT ![c] = v]) \in [Keys -> Row]
    BY <1>0, <2>2, RowTyped, SetTyped, CopyTyped
  <2>4. contested' \subseteq Ids
    BY <2>1 DEF EditsTyped
  <2> QED
    BY <1>0, <2>1, <2>2, <2>3, <2>4, SaveTyped
<1>2. ASSUME NEW s \in Services, NEW t \in Services, ReorderBegin(r, s, t)
      PROVE  EditsTyped' /\ UNCHANGED usersVars
  <2> DEFINE one == [row[s] EXCEPT !["displayOrder"] = 0]
             two == [row[t] EXCEPT !["displayOrder"] = 1]
             copy == [Copy(s, one) EXCEPT ![t] = two]
  <2>1. /\ Save(r, "service", Owner[s], s, <<t>>, copy, {"displayOrder"})
        /\ UNCHANGED <<usersVars, Logs, stale, contested>>
    BY <1>2 DEF ReorderBegin
  <2>2. {"displayOrder"} \in SUBSET Columns /\ <<t>> \in Seq(Services)
    BY DEF Columns
  <2>3. one \in Row /\ two \in Row
    BY <1>0, <2>2, RowTyped, SetTyped
  <2> HIDE DEF one, two
  <2>4. copy \in [Keys -> Row]
    BY <1>0, <2>3, CopyTyped
  <2> HIDE DEF copy
  <2>5. contested' \subseteq Ids
    BY <2>1 DEF EditsTyped
  <2> QED
    BY <1>0, <2>1, <2>2, <2>4, <2>5, SaveTyped
<1> QED
  BY <1>1, <1>2 DEF ServiceCall, UpdateServiceBegin, DeleteServiceBegin, usersVars,
     UsersTypeOK, Stored, Columns

LEMMA ActTyped ==
    ASSUME EditsTyped, NEW r \in Edits, NEW i \in Ids, NEW op \in AdminOps,
           Act(r, op, i), UNCHANGED <<Logs, stale>>, contested' \subseteq Ids
    PROVE  EditsTyped'
<1> DEFINE q == [IdleEdit EXCEPT !.pc = "act", !.op = op, !.id = i]
<1>1. GoodEdit(q)
  BY IdleEditTyped DEF GoodEdit, EditRequest, EditPc
<1>2. edit' = [edit EXCEPT ![r] = q]
  BY DEF Act
<1> HIDE DEF q
<1>3. /\ audit' \in Counters /\ acts' \in Counters /\ unlogged' \in Counters
      /\ stale' \subseteq Keys
  BY DEF EditsTyped, Logs
<1> QED
  BY <1>1, <1>2, <1>3, EditKept

LEMMA AdminCallTyped ==
    ASSUME UsersTypeOK, EditsTyped, NEW r \in Edits, AdminCall(r)
    PROVE  UsersTypeOK' /\ EditsTyped'
<1> PICK i \in Ids : \/ ApproveBegin(r, i) \/ RejectBegin(r, i)
                      \/ \E op \in AdminOps : SuspendBegin(r, op, i)
  BY DEF AdminCall
<1>1. UNCHANGED usersVars /\ UNCHANGED <<Logs, stale>>
  BY DEF ApproveBegin, RejectBegin, SuspendBegin
<1>2. contested' \subseteq Ids
  BY DEF ApproveBegin, RejectBegin, SuspendBegin, NoteContest, EditsTyped
<1>3. CASE ApproveBegin(r, i)
  <2>1. Save(r, "approve", i, i, <<>>, Copy(i, [row[i] EXCEPT !["status"] = ACTIVE]), {"status"})
    BY <1>3 DEF ApproveBegin
  <2>2. /\ i \in Keys /\ {"status"} \subseteq Columns /\ << >> \in Seq(Services)
        /\ ACTIVE \in Nat /\ "approve" \in AdminOps
    BY DEF Keys, Columns, ACTIVE, AdminOps
  <2>3. Copy(i, [row[i] EXCEPT !["status"] = ACTIVE]) \in [Keys -> Row]
    BY <2>2, RowTyped, SetTyped, CopyTyped
  <2>4. EditsTyped'
    BY <1>1, <1>2, <2>1, <2>2, <2>3, SaveTyped
  <2> QED
    BY <1>1, <2>4 DEF usersVars, UsersTypeOK, Stored
<1>4. CASE ~ApproveBegin(r, i)
  <2>1. PICK op \in AdminOps : Act(r, op, i)
    BY <1>4 DEF RejectBegin, SuspendBegin, AdminOps
  <2>2. EditsTyped'
    BY <1>1, <1>2, <2>1, ActTyped
  <2> QED
    BY <1>1, <2>2 DEF usersVars, UsersTypeOK, Stored
<1> QED
  BY <1>3, <1>4

LEMMA CreateServiceTyped ==
    ASSUME UsersTypeOK, EditsTyped, NEW s \in Services, CreateService(s)
    PROVE  UsersTypeOK' /\ EditsTyped'
<1>1. s \in Keys /\ Stored(OwnerOf(s)) /\ NewService \in Row
  BY UsersAssumption, ProfileTyped DEF Keys, OwnerOf, CreateService, Admitted
<1>2. /\ kept' \subseteq Keys /\ \A x \in kept' : Stored(OwnerOf(x))
      /\ row' \in [Keys -> Row] /\ meant' \in [Keys -> Row]
  BY <1>1, InsertTyped DEF CreateService
<1> QED
  BY <1>2 DEF CreateService, UsersTypeOK, EditsTyped, Logs, Stored

LEMMA BookTyped ==
    ASSUME UsersTypeOK, EditsTyped, NEW i \in Ids, Book(i)
    PROVE  UsersTypeOK' /\ EditsTyped'
<1>1. i \in Keys /\ "totalAppointments" \in Columns
  BY DEF Keys, Columns
<1>2. /\ row[i] \in Row /\ row[i]["totalAppointments"] + 1 \in Nat
      /\ meant[i] \in Row /\ meant[i]["totalAppointments"] + 1 \in Nat
  BY <1>1, RowTyped
<1>3. row' \in [Keys -> Row] /\ meant' \in [Keys -> Row]
  BY <1>1, <1>2, SetTyped DEF Book, UsersTypeOK
<1> QED
  BY <1>3 DEF Book, UsersTypeOK, EditsTyped, Logs, Stored

-----------------------------------------------------------------------------
(* Types: the steps of a save and of an administrator's act *)

LEMMA CounterTyped ==
    ASSUME NEW x \in Counters, NEW i \in Ids, NEW op \in AdminOps
    PROVE  [x EXCEPT ![<<i, op>>] = @ + 1] \in Counters
BY DEF Counters

LEMMA ToAuditTyped ==
    ASSUME EditsTyped, NEW r \in Edits, edit[r].op \in AdminOps,
           ToAudit(r), Acted(r), audit' = audit, unlogged' = unlogged,
           stale' \subseteq Keys, contested' = contested
    PROVE  EditsTyped'
<1> DEFINE q == [edit[r] EXCEPT !.pc = "audit"]
<1>1. edit[r] \in EditRequest /\ edit[r].id \in Ids
  BY DEF EditsTyped, GoodEdit
<1>2. GoodEdit(q)
  BY <1>1 DEF GoodEdit, EditRequest, EditPc
<1>3. edit' = [edit EXCEPT ![r] = q]
  BY DEF ToAudit
<1>4. acts' \in Counters
  BY <1>1, CounterTyped DEF Acted, EditsTyped
<1> HIDE DEF q
<1> QED
  BY <1>2, <1>3, <1>4, EditKept DEF EditsTyped

LEMMA SavedTyped ==
    ASSUME EditsTyped, NEW r \in Edits, edit[r].pc \in {"load", "write"}, Saved(r),
           audit' = audit, unlogged' = unlogged, stale' \subseteq Keys,
           contested' = contested
    PROVE  EditsTyped'
<1>1. CASE edit[r].rest # <<>>
  <2> DEFINE q == [edit[r] EXCEPT !.pc = "load", !.key = Head(edit[r].rest),
                                  !.rest = Tail(edit[r].rest), !.dirty = {}]
  <2>1. /\ edit[r] \in EditRequest /\ edit[r].rest \in Seq(Services)
        /\ edit[r].op \in AdminOps => edit[r].id \in Ids
    BY DEF EditsTyped, GoodEdit, EditRequest
  <2>2. Head(edit[r].rest) \in Services /\ Tail(edit[r].rest) \in Seq(Services)
    BY <1>1, <2>1
  <2>3. GoodEdit(q)
    BY <2>1, <2>2 DEF GoodEdit, EditRequest, EditPc, Keys
  <2>4. edit' = [edit EXCEPT ![r] = q] /\ acts' = acts
    BY <1>1 DEF Saved
  <2> HIDE DEF q
  <2> QED
    BY <2>3, <2>4, EditKept DEF EditsTyped
<1>2. CASE edit[r].rest = <<>> /\ edit[r].op = "approve"
  BY <1>2, ToAuditTyped DEF Saved, AdminOps
<1>3. CASE edit[r].rest = <<>> /\ edit[r].op # "approve"
  <2>1. EditEnds(r) /\ acts' = acts
    BY <1>3 DEF Saved
  <2> QED
    BY <2>1, EditEndsTyped DEF EditsTyped
<1> QED
  BY <1>1, <1>2, <1>3

LEMMA MergeTyped ==
    ASSUME NEW old \in Row, NEW columns \in Row, NEW C
    PROVE  Merge(old, columns, C) \in Row
BY DEF Merge, Row

LEMMA MeantTyped ==
    ASSUME UsersTypeOK, NEW q, GoodEdit(q), q.key \in Keys
    PROVE  Meant(q) \in Row
<1>1. meant[q.key] \in Row /\ q.copy[q.key] \in Row
  BY DEF UsersTypeOK, GoodEdit, EditRequest
<1>2. PICK merged \in Row : merged = Merge(meant[q.key], q.copy[q.key], q.asks)
  BY <1>1, MergeTyped
<1>3. "profileCompleted" \in Columns /\ Complete(merged) \in Nat
  BY DEF Columns, Complete
<1> QED
  BY <1>2, <1>3, SetTyped DEF Meant

LEMMA EditStepTyped ==
    ASSUME UsersTypeOK, EditsTyped, NEW r \in Edits, EditStep(r)
    PROVE  UsersTypeOK' /\ EditsTyped'
<1>0. /\ UNCHANGED usersVars => UsersTypeOK'
      /\ GoodEdit(edit[r])
  BY DEF usersVars, UsersTypeOK, Stored, EditsTyped
<1>1. CASE SaveLoad(r)
  <2> DEFINE dirty == {c \in Columns : edit[r].copy[edit[r].key][c] # row[edit[r].key][c]}
             q == [edit[r] EXCEPT !.pc = "write", !.dirty = dirty]
  <2>1. CASE dirty = {}
    BY <1>0, <1>1, <2>1, SavedTyped DEF SaveLoad, EditsTyped
  <2>2. CASE dirty # {}
    <3>1. edit' = [edit EXCEPT ![r] = q] /\ acts' = acts
      BY <1>1, <2>2 DEF SaveLoad
    <3>2. GoodEdit(q)
      BY <1>0, <1>1 DEF SaveLoad, GoodEdit, EditRequest, EditPc
    <3> HIDE DEF q
    <3> QED
      BY <1>0, <1>1, <3>1, <3>2, EditKept DEF SaveLoad, EditsTyped
  <2> QED
    BY <2>1, <2>2
<1>2. CASE SaveRefused(r)
  BY <1>0, <1>2, EditEndsTyped DEF SaveRefused, EditsTyped, Logs
<1>3. CASE SaveWrite(r)
  <2> DEFINE q == edit[r]
  <2>1. q.key \in Keys /\ q.copy[q.key] \in Row
    BY <1>0, <1>3 DEF SaveWrite, GoodEdit, EditRequest
  <2>2. Meant(q) \in Row /\ Merge(row[q.key], q.copy[q.key], q.dirty) \in Row
    BY <1>0, <2>1, MeantTyped, MergeTyped, RowTyped
  <2>3. /\ row' \in [Keys -> Row] /\ meant' \in [Keys -> Row] /\ stale' \subseteq Keys
    BY <1>3, <2>1, <2>2 DEF SaveWrite, UsersTypeOK, EditsTyped
  <2>4. UsersTypeOK'
    BY <1>3, <2>3 DEF SaveWrite, UsersTypeOK, Stored
  <2> QED
    BY <1>3, <2>3, <2>4, SavedTyped DEF SaveWrite
<1>4. CASE RejectAct(r)
  <2>1. edit[r].op \in AdminOps /\ edit[r].id \in Ids
    BY <1>0, <1>4 DEF RejectAct, GoodEdit, AdminOps
  <2>2. UsersTypeOK'
    BY <1>4, <2>1, DeleteUserTyped DEF RejectAct, UsersTypeOK, Tables, Stored
  <2>3. stale' \subseteq Keys
    BY <1>4 DEF RejectAct, EditsTyped
  <2> QED
    BY <1>4, <2>1, <2>2, <2>3, ToAuditTyped DEF RejectAct
<1>5. CASE SuspendAct(r)
  <2>1. edit[r].op \in AdminOps /\ edit[r].id \in Ids
    BY <1>0, <1>5 DEF SuspendAct, GoodEdit, AdminOps
  <2>2. UsersTypeOK'
    <3> DEFINE u == [user[edit[r].id] EXCEPT !.isActive = (edit[r].op = "reactivate")]
    <3>1. u \in UserRow /\ u.state = user[edit[r].id].state
      BY <2>1 DEF UsersTypeOK, UserRow
    <3>2. CASE Stored(edit[r].id)
      <4>1. user' = [user EXCEPT ![edit[r].id] = u] /\ UNCHANGED <<Tables, reg, halfway>>
        BY <1>5, <3>2 DEF SuspendAct
      <4> HIDE DEF u
      <4> QED
        BY <2>1, <3>1, <4>1, UserRowTyped
    <3>3. CASE ~Stored(edit[r].id)
      BY <1>5, <3>3 DEF SuspendAct, UsersTypeOK, Tables, Stored
    <3> QED
      BY <3>2, <3>3
  <2>3. stale' \subseteq Keys
    BY <1>5 DEF SuspendAct, EditsTyped
  <2> QED
    BY <1>5, <2>1, <2>2, <2>3, ToAuditTyped DEF SuspendAct
<1>6. CASE AuditStep(r)
  <2>1. audit' \in Counters
    BY <1>0, <1>6, CounterTyped DEF AuditStep, GoodEdit, EditsTyped
  <2> QED
    BY <1>0, <1>6, <2>1, EditEndsTyped DEF AuditStep, EditsTyped
<1>7. CASE EditFail(r)
  <2>1. unlogged' \in Counters
    BY <1>0, <1>7, CounterTyped DEF EditFail, GoodEdit, EditsTyped
  <2> QED
    BY <1>0, <1>7, <2>1, EditEndsTyped DEF EditFail, EditsTyped
<1> QED
  BY <1>1, <1>2, <1>3, <1>4, <1>5, <1>6, <1>7 DEF EditStep
-----------------------------------------------------------------------------
(* Types: lookups and their cache *)

\* SearchTypeOK but for ago, which every step writes.
LookupsTyped ==
    /\ cache \in [Queries -> Entry]
    /\ lookup \in [Lookups -> LookupRequest]
    /\ \A l \in Lookups : lookup[l].pc # "idle" => lookup[l].query \in Queries

LEMMA SearchParts == SearchTypeOK <=> LookupsTyped /\ ago \in [Queries -> [Ids -> Nat]]
BY DEF SearchTypeOK, LookupsTyped

LEMMA AgedTyped ==
    ASSUME ago \in [Queries -> [Ids -> Nat]], NEW n \in Nat, Aged(n)
    PROVE  ago' \in [Queries -> [Ids -> Nat]]
BY SearchAssumption DEF Aged, LongAgo

LEMMA LookupTyped ==
    ASSUME LookupsTyped, NEW l \in Lookups,
           (\E q \in Queries : LookupMiss(l, q)) \/ LookupStep(l)
    PROVE  LookupsTyped'
<1>1. ASSUME NEW q \in Queries, LookupMiss(l, q) PROVE LookupsTyped'
  <2>1. Reads(q) \in 0..3
    BY DEF Reads
  <2> QED
    BY <1>1, <2>1 DEF LookupMiss, LookupsTyped, LookupRequest
<1>2. CASE LookupRead(l)
  <2> DEFINE m == lookup[l]
  <2>1. m \in LookupRequest /\ m.pc = "read" /\ m.query \in Queries /\ m.reads \in 0..3
    BY <1>2 DEF LookupRead, LookupsTyped, LookupRequest
  <2>2. PICK gives \in SUBSET Ids :
           lookup' = [lookup EXCEPT ![l] =
               [m EXCEPT !.pc = IF m.reads > 1 THEN "read" ELSE "store",
                         !.reads = IF m.reads > 1 THEN m.reads - 1 ELSE 0,
                         !.found = m.found \cup gives]]
    BY <1>2 DEF LookupRead, Listed
  <2>3. (IF m.reads > 1 THEN m.reads - 1 ELSE 0) \in 0..3
    BY <2>1
  <2>4. lookup'[l] \in LookupRequest /\ lookup'[l].query \in Queries
    BY <2>1, <2>2, <2>3 DEF LookupsTyped, LookupRequest
  <2> QED
    BY <1>2, <2>2, <2>4 DEF LookupRead, LookupsTyped
<1>3. CASE LookupStore(l)
  <2>1. lookup[l].query \in Queries /\ lookup[l].found \subseteq Ids /\ lookup[l].took \in Nat
    BY <1>3 DEF LookupStore, LookupsTyped, LookupRequest
  <2>2. cache' \in [Queries -> Entry]
    BY <1>3, <2>1, SearchAssumption DEF LookupStore, LookupsTyped, Entry
  <2> QED
    BY <1>3, <2>2, IdleTyped DEF LookupStore, LookupsTyped
<1>4. CASE LookupFail(l)
  BY <1>4, IdleTyped DEF LookupFail, LookupsTyped
<1> QED
  BY <1>1, <1>2, <1>3, <1>4 DEF LookupStep

LEMMA TickTyped ==
    ASSUME LookupsTyped, Tick
    PROVE  LookupsTyped'
<1>1. \A q \in Queries : cache'[q] \in Entry
  <2> TAKE q \in Queries
  <2>1. cache[q] \in Entry /\ cache[q].left \in Nat
    BY DEF LookupsTyped, Entry
  <2>2. CASE cache[q].left > 1
    <3>1. cache[q].left - 1 \in Nat
      BY <2>1, <2>2
    <3> QED
      BY <2>1, <2>2, <3>1 DEF Tick, Entry
  <2>3. CASE ~(cache[q].left > 1)
    BY <2>3, IdleTyped DEF Tick
  <2> QED
    BY <2>2, <2>3
<1>2. \A l \in Lookups : /\ lookup'[l] \in LookupRequest
                          /\ lookup'[l].pc = lookup[l].pc /\ lookup'[l].query = lookup[l].query
  <2> TAKE l \in Lookups
  <2>1. lookup[l] \in LookupRequest /\ lookup[l].took + 1 \in Nat
    BY DEF LookupsTyped, LookupRequest
  <2>2. lookup'[l] = IF lookup[l].pc = "idle" THEN lookup[l]
                     ELSE [lookup[l] EXCEPT !.took = lookup[l].took + 1]
    BY DEF Tick
  <2> QED
    BY <2>1, <2>2 DEF LookupRequest
<1>3. cache' \in [Queries -> Entry] /\ lookup' \in [Lookups -> LookupRequest]
  BY <1>1, <1>2 DEF Tick
<1> QED
  BY <1>2, <1>3 DEF LookupsTyped

-----------------------------------------------------------------------------
(* Types of the whole *)

\* What a step is, whichever part of the system takes it.
LEMMA NextParts ==
    ASSUME TypeOK, Next
    PROVE  /\ calls' \in 0..MaxCalls
           /\ NoteLate
           /\ \E n \in {0, 1} : Aged(n)
<1> SUFFICES ASSUME calls < MaxCalls PROVE calls + 1 \in 0..MaxCalls
  BY DEF Next, TypeOK
<1> QED
  BY AccountsAssumption DEF TypeOK

\* Every step of registration, sessions, profiles or search, and of nothing
\* else, keeps the types of its part.
LEMMA PartsTyped ==
    ASSUME TypeOK, Call \/ Progress \/ (Tick /\ OnlySearch)
    PROVE  UsersTypeOK' /\ SessionsTypeOK' /\ EditsTyped' /\ LookupsTyped'
<1>0. UsersTypeOK /\ SessionsTypeOK /\ EditsTyped /\ LookupsTyped
  BY DirectoryParts, SearchParts DEF TypeOK
<1>1. UNCHANGED usersVars => UsersTypeOK'
  BY <1>0 DEF usersVars, UsersTypeOK, Stored
<1>2. UNCHANGED sessionVars => SessionsTypeOK'
  BY <1>0 DEF sessionVars, SessionsTypeOK
<1>3. UNCHANGED <<edit, audit, stale, acts, unlogged, contested>> => EditsTyped'
  BY <1>0 DEF EditsTyped, GoodEdit
<1>4. UNCHANGED <<cache, lookup>> => LookupsTyped'
  BY <1>0 DEF LookupsTyped
<1> DEFINE Goal == UsersTypeOK' /\ SessionsTypeOK' /\ EditsTyped' /\ LookupsTyped'
<1>5. ASSUME OnlyUsers, UsersTypeOK' PROVE Goal
  BY <1>2, <1>3, <1>4, <1>5 DEF OnlyUsers
<1>6. ASSUME OnlySessions, UsersTypeOK', SessionsTypeOK' PROVE Goal
  BY <1>3, <1>4, <1>6 DEF OnlySessions
<1>7. ASSUME OnlyDirectory, UsersTypeOK', EditsTyped' PROVE Goal
  BY <1>2, <1>4, <1>7 DEF OnlyDirectory
<1>8. ASSUME OnlySearch, LookupsTyped' PROVE Goal
  BY <1>1, <1>2, <1>3, <1>8 DEF OnlySearch
<1> SUFFICES Goal
  OBVIOUS
<1> HIDE DEF Goal
<1>9. CASE Call
  <2>1. CASE \E r \in Signups : RegisterCall(r) /\ OnlyUsers
    BY <1>0, <1>5, <2>1, RegisterTyped
  <2>2. CASE \E r \in Auths : AuthCall(r) /\ OnlySessions
    BY <1>0, <1>6, <2>2, AuthCallTyped
  <2>3. CASE \E r \in Edits : (ProfileCall(r) \/ ServiceCall(r) \/ AdminCall(r)) /\ OnlyDirectory
    BY <1>0, <1>7, <2>3, ProfileCallTyped, ServiceCallTyped, AdminCallTyped
  <2>4. CASE \E s \in Services : CreateService(s) /\ OnlyDirectory
    BY <1>0, <1>7, <2>4, CreateServiceTyped
  <2>5. CASE \E i \in Ids : Book(i) /\ OnlyDirectory
    BY <1>0, <1>7, <2>5, BookTyped
  <2>6. CASE \E l \in Lookups, q \in Queries : LookupMiss(l, q) /\ OnlySearch
    BY <1>0, <1>8, <2>6, LookupTyped
  <2> QED
    BY <1>9, <2>1, <2>2, <2>3, <2>4, <2>5, <2>6 DEF Call
<1>10. CASE Progress
  <2>1. CASE \E r \in Signups : RegisterStep(r) /\ OnlyUsers
    BY <1>0, <1>5, <2>1, RegisterTyped
  <2>2. CASE \E i \in Ids : UserEvent(i) /\ OnlyUsers
    BY <1>0, <1>5, <2>2, UserEventTyped
  <2>3. CASE \E r \in Auths : AuthStep(r) /\ OnlySessions
    BY <1>0, <1>6, <2>3, AuthStepTyped
  <2>4. CASE \E t \in Tokens : TokenExpires(t) /\ OnlySessions
    BY <1>0, <1>6, <2>4, TokenExpiresTyped
  <2>5. CASE \E r \in Edits : EditStep(r) /\ OnlyDirectory
    BY <1>0, <1>7, <2>5, EditStepTyped
  <2>6. CASE \E l \in Lookups : LookupStep(l) /\ OnlySearch
    BY <1>0, <1>8, <2>6, LookupTyped
  <2> QED
    BY <1>10, <2>1, <2>2, <2>3, <2>4, <2>5, <2>6 DEF Progress
<1>11. CASE Tick /\ OnlySearch
  BY <1>0, <1>8, <1>11, TickTyped
<1> QED
  BY <1>9, <1>10, <1>11

LEMMA NextTyped == TypeOK /\ [Next]_vars => TypeOK'
<1> SUFFICES ASSUME TypeOK, [Next]_vars PROVE TypeOK'
  OBVIOUS
<1>1. CASE Next
  <2>1. UsersTypeOK' /\ SessionsTypeOK' /\ EditsTyped' /\ LookupsTyped'
    BY <1>1, PartsTyped DEF Next
  <2>2. late' \in [Edits -> SUBSET Keys]
    BY <1>1, NextParts, LateTyped DEF TypeOK, DirectoryTypeOK
  <2>3. ago' \in [Queries -> [Ids -> Nat]]
    BY <1>1, NextParts, AgedTyped DEF TypeOK, SearchTypeOK
  <2>4. DirectoryTypeOK' /\ SearchTypeOK'
    BY <2>1, <2>2, <2>3 DEF DirectoryTypeOK, EditsTyped, GoodEdit, SearchTypeOK, LookupsTyped
  <2> QED
    BY <1>1, <2>1, <2>4, NextParts DEF TypeOK
<1>2. CASE UNCHANGED vars
  BY <1>2 DEF vars, usersVars, sessionVars, directoryVars, searchVars, TypeOK,
     UsersTypeOK, Stored, SessionsTypeOK, DirectoryTypeOK, SearchTypeOK
<1> QED
  BY <1>1, <1>2

\* The state keeps its types, no profile, service or token refers to a user
\* that is not stored, and no request goes on without what it needs, whatever
\* calls overlap, fail, or delete what others work on.
THEOREM AccountsTyped == Spec => []TypeOK
BY InitTyped, NextTyped, PTL DEF Spec
-----------------------------------------------------------------------------
(* The age of answers.  A lookup has found nothing older than the time it has *)
(* taken; an entry with n ticks to live was stored n ticks less than its      *)
(* whole life ago, by a lookup that had taken its time before.                *)

EntryFresh(q) ==
    cache[q].left > 0 =>
        \A i \in cache[q].ids : ago[q][i] + cache[q].left =< Ttl[q] + cache[q].took

LookupFresh(l) ==
    lookup[l].pc # "idle" =>
        \A i \in lookup[l].found : ago[lookup[l].query][i] =< lookup[l].took

AnswersInv ==
    /\ \A q \in Queries : EntryFresh(q)
    /\ \A l \in Lookups : LookupFresh(l)

LEMMA AgedLittle ==
    ASSUME TypeOK, NEW n \in Nat, Aged(n), NEW q \in Queries, NEW i \in Ids
    PROVE  /\ ago[q][i] \in Nat /\ Ttl[q] \in Nat
           /\ ago'[q][i] \in Nat /\ ago'[q][i] =< ago[q][i] + n
           /\ i \in Listed(q)' => ago'[q][i] = 0
<1>1. ago[q][i] \in Nat /\ Ttl[q] \in Nat /\ LongAgo(q) \in Nat
  BY SearchAssumption DEF TypeOK, SearchTypeOK, LongAgo
<1>2. ago'[q][i] = IF i \in Listed(q)' THEN 0
                   ELSE IF ago[q][i] + n > LongAgo(q) THEN LongAgo(q) ELSE ago[q][i] + n
  BY DEF Aged
<1> QED
  BY <1>1, <1>2

LEMMA EntryStays ==
    ASSUME TypeOK, NEW q \in Queries, EntryFresh(q), Aged(0), cache'[q] = cache[q]
    PROVE  EntryFresh(q)'
<1> SUFFICES ASSUME cache[q].left > 0, NEW i \in cache[q].ids
             PROVE  ago'[q][i] + cache[q].left =< Ttl[q] + cache[q].took
  BY DEF EntryFresh
<1>1. i \in Ids /\ cache[q].left \in Nat /\ cache[q].took \in Nat
  BY DEF TypeOK, SearchTypeOK, Entry
<1>2. ago[q][i] + cache[q].left =< Ttl[q] + cache[q].took
  BY DEF EntryFresh
<1>3. /\ ago[q][i] \in Nat /\ ago'[q][i] \in Nat /\ Ttl[q] \in Nat
      /\ ago'[q][i] =< ago[q][i] + 0
  BY <1>1, AgedLittle
<1> QED
  BY <1>1, <1>2, <1>3

LEMMA LookupStays ==
    ASSUME TypeOK, NEW l \in Lookups, LookupFresh(l), Aged(0), lookup'[l] = lookup[l]
    PROVE  LookupFresh(l)'
<1> SUFFICES ASSUME lookup[l].pc # "idle", NEW i \in lookup[l].found
             PROVE  ago'[lookup[l].query][i] =< lookup[l].took
  BY DEF LookupFresh
<1> DEFINE q == lookup[l].query
<1>1. i \in Ids /\ q \in Queries /\ lookup[l].took \in Nat
  BY DEF TypeOK, SearchTypeOK, LookupRequest
<1>2. ago[q][i] =< lookup[l].took
  BY DEF LookupFresh
<1>3. ago[q][i] \in Nat /\ ago'[q][i] \in Nat /\ ago'[q][i] =< ago[q][i] + 0
  BY <1>1, AgedLittle
<1> QED
  BY <1>1, <1>2, <1>3

LEMMA AnswersStay ==
    ASSUME TypeOK, AnswersInv, Aged(0), UNCHANGED <<cache, lookup>>
    PROVE  AnswersInv'
<1>1. \A q \in Queries : EntryFresh(q)'
  BY EntryStays DEF AnswersInv
<1>2. \A l \in Lookups : LookupFresh(l)'
  BY LookupStays DEF AnswersInv
<1> QED
  BY <1>1, <1>2 DEF AnswersInv

LEMMA LookupKeepsAnswers ==
    ASSUME TypeOK, AnswersInv, NEW l \in Lookups, Aged(0), UNCHANGED usersVars,
           (\E q \in Queries : LookupMiss(l, q)) \/ LookupStep(l)
    PROVE  AnswersInv'
<1>0. lookup \in [Lookups -> LookupRequest]
  BY DEF TypeOK, SearchTypeOK
<1>1. \A m \in Lookups \ {l} : LookupFresh(m)'
  <2>1. \A m \in Lookups \ {l} : lookup'[m] = lookup[m]
    BY <1>0 DEF LookupMiss, LookupStep, LookupRead, LookupStore, LookupFail
  <2> QED
    BY <2>1, LookupStays DEF AnswersInv
<1>2. ASSUME cache' = cache PROVE \A q \in Queries : EntryFresh(q)'
  BY <1>2, EntryStays DEF AnswersInv
<1>3. ASSUME NEW q \in Queries, LookupMiss(l, q) PROVE AnswersInv'
  <2>1. LookupFresh(l)'
    BY <1>0, <1>3 DEF LookupMiss, LookupFresh
  <2> QED
    BY <1>1, <1>2, <1>3, <2>1 DEF AnswersInv, LookupMiss
<1>4. CASE LookupRead(l)
  <2> DEFINE m == lookup[l]
  <2>1. PICK q \in Queries : q = m.query /\ m.pc = "read"
    BY <1>4 DEF LookupRead, TypeOK, SearchTypeOK
  <2>2. /\ lookup'[l].query = q
        /\ lookup'[l].found \subseteq m.found \cup Listed(q)
        /\ lookup'[l].took = m.took
    BY <1>0, <1>4, <2>1 DEF LookupRead, LookupRequest
  <2>3. Listed(q) \subseteq Ids /\ m.found \subseteq Ids /\ m.took \in Nat
    BY <1>0 DEF Listed, LookupRequest
  <2>4. \A i \in Listed(q) : ago'[q][i] = 0
    <3>1. \A i \in Listed(q) : i \in Listed(q)'
      BY DEF Listed, usersVars, HasRole
    <3> QED
      BY <2>3, <3>1, AgedLittle
  <2>5. \A i \in m.found : ago'[q][i] =< m.took
    <3> TAKE i \in m.found
    <3>1. ago[q][i] =< m.took
      BY <2>1 DEF AnswersInv, LookupFresh
    <3>2. ago[q][i] \in Nat /\ ago'[q][i] \in Nat /\ ago'[q][i] =< ago[q][i] + 0
      BY <2>3, AgedLittle
    <3> QED
      BY <2>3, <3>1, <3>2
  <2>6. \A i \in lookup'[l].found : ago'[q][i] =< m.took
    BY <2>2, <2>3, <2>4, <2>5
  <2>7. LookupFresh(l)'
    BY <2>2, <2>6 DEF LookupFresh
  <2> QED
    BY <1>1, <1>2, <1>4, <2>7 DEF AnswersInv, LookupRead
<1>5. CASE LookupStore(l)
  <2>1. PICK q \in Queries : /\ q = lookup[l].query /\ lookup[l].pc = "store"
                             /\ lookup[l].found \subseteq Ids /\ lookup[l].took \in Nat
    BY <1>0, <1>5 DEF LookupStore, TypeOK, SearchTypeOK, LookupRequest
  <2>2. /\ cache'[q] = [left |-> Ttl[q], ids |-> lookup[l].found, took |-> lookup[l].took]
        /\ \A x \in Queries \ {q} : cache'[x] = cache[x]
    BY <1>5, <2>1 DEF LookupStore, TypeOK, SearchTypeOK
  <2>3. \A x \in Queries \ {q} : EntryFresh(x)'
    BY <2>2, EntryStays DEF AnswersInv
  <2>4. EntryFresh(q)'
    <3>1. Ttl[q] \in Nat
      BY SearchAssumption
    <3>2. ASSUME NEW i \in lookup[l].found
          PROVE  ago'[q][i] + Ttl[q] =< Ttl[q] + lookup[l].took
      <4>1. ago[q][i] =< lookup[l].took
        BY <2>1 DEF AnswersInv, LookupFresh
      <4>2. ago[q][i] \in Nat /\ ago'[q][i] \in Nat /\ ago'[q][i] =< ago[q][i] + 0
        BY <2>1, AgedLittle
      <4> QED
        BY <2>1, <3>1, <4>1, <4>2
    <3> QED
      BY <2>2, <3>2 DEF EntryFresh
  <2>5. LookupFresh(l)'
    BY <1>0, <1>5, IdleTyped DEF LookupStore, LookupFresh
  <2> QED
    BY <1>1, <2>3, <2>4, <2>5 DEF AnswersInv
<1>6. CASE LookupFail(l)
  <2>1. LookupFresh(l)'
    BY <1>0, <1>6, IdleTyped DEF LookupFail, LookupFresh
  <2> QED
    BY <1>1, <1>2, <1>6, <2>1 DEF AnswersInv, LookupFail
<1> QED
  BY <1>3, <1>4, <1>5, <1>6 DEF LookupStep

LEMMA TickKeepsAnswers ==
    ASSUME TypeOK, AnswersInv, Aged(1), Tick
    PROVE  AnswersInv'
<1>1. ASSUME NEW l \in Lookups, lookup'[l].pc # "idle" PROVE LookupFresh(l)'
  <2>1. lookup[l] \in LookupRequest /\ lookup[l].pc # "idle"
    BY <1>1 DEF Tick, TypeOK, SearchTypeOK
  <2>2. lookup'[l] = [lookup[l] EXCEPT !.took = lookup[l].took + 1]
    BY <2>1 DEF Tick
  <2>3. PICK q \in Queries : q = lookup[l].query
    BY <2>1 DEF TypeOK, SearchTypeOK
  <2>4. /\ lookup'[l].query = q /\ lookup'[l].found = lookup[l].found
        /\ lookup'[l].took = lookup[l].took + 1 /\ lookup[l].took \in Nat
        /\ lookup[l].found \subseteq Ids
    BY <2>1, <2>2, <2>3 DEF LookupRequest
  <2>5. ASSUME NEW i \in lookup[l].found PROVE ago'[q][i] =< lookup[l].took + 1
    <3>1. ago[q][i] =< lookup[l].took
      BY <2>1, <2>3 DEF AnswersInv, LookupFresh
    <3>2. ago[q][i] \in Nat /\ ago'[q][i] \in Nat /\ ago'[q][i] =< ago[q][i] + 1
      BY <2>4, AgedLittle
    <3> QED
      BY <2>4, <3>1, <3>2
  <2> QED
    BY <2>4, <2>5 DEF LookupFresh
<1>2. ASSUME NEW q \in Queries PROVE EntryFresh(q)'
  <2>1. cache[q].left \in Nat /\ cache[q].ids \subseteq Ids /\ cache[q].took \in Nat
    BY DEF TypeOK, SearchTypeOK, Entry
  <2>2. CASE cache[q].left > 1
    <3>1. /\ cache'[q].left = cache[q].left - 1
          /\ cache'[q].ids = cache[q].ids /\ cache'[q].took = cache[q].took
      BY <2>2 DEF Tick, TypeOK, SearchTypeOK, Entry
    <3>2. ASSUME NEW i \in cache[q].ids
          PROVE  ago'[q][i] + (cache[q].left - 1) =< Ttl[q] + cache[q].took
      <4>1. ago[q][i] + cache[q].left =< Ttl[q] + cache[q].took
        BY <2>1, <2>2 DEF AnswersInv, EntryFresh
      <4>2. /\ ago[q][i] \in Nat /\ ago'[q][i] \in Nat /\ Ttl[q] \in Nat
            /\ ago'[q][i] =< ago[q][i] + 1
        BY <2>1, AgedLittle
      <4> QED
        BY <2>1, <2>2, <4>1, <4>2
    <3> QED
      BY <3>1, <3>2 DEF EntryFresh
  <2>3. CASE ~(cache[q].left > 1)
    BY <2>3 DEF Tick, NoEntry, EntryFresh
  <2> QED
    BY <2>2, <2>3
<1>3. \A l \in Lookups : LookupFresh(l)'
  BY <1>1 DEF LookupFresh
<1> QED
  BY <1>2, <1>3 DEF AnswersInv

LEMMA NextKeepsAnswers == TypeOK /\ AnswersInv /\ [Next]_vars => AnswersInv'
<1> SUFFICES ASSUME TypeOK, AnswersInv, [Next]_vars PROVE AnswersInv'
  OBVIOUS
<1>1. CASE (Call \/ Progress) /\ Aged(0)
  <2>1. CASE UNCHANGED <<cache, lookup>>
    BY <1>1, <2>1, AnswersStay
  <2>2. CASE \E l \in Lookups : /\ (\E q \in Queries : LookupMiss(l, q)) \/ LookupStep(l)
                               /\ OnlySearch
    BY <1>1, <2>2, LookupKeepsAnswers DEF OnlySearch
  <2> QED
    BY <1>1, <2>1, <2>2 DEF Call, Progress, OnlyUsers, OnlySessions, OnlyDirectory
<1>2. CASE Tick /\ Aged(1)
  BY <1>2, TickKeepsAnswers
<1>3. CASE UNCHANGED vars
  BY <1>3 DEF vars, searchVars, AnswersInv, EntryFresh, LookupFresh
<1> QED
  BY <1>1, <1>2, <1>3 DEF Next

\* No answer from the cache lists a prestataire that was not to be listed at
\* any moment of the entry's life and of the lookup that stored it: however
\* long lookups take, and whatever decisions and edits overlap them, a removal
\* shows after at most that time.
THEOREM AnswersSound == Spec => []AnswersAreRecent
<1>1. Init => AnswersInv
  BY DEF Init, SearchInit, AnswersInv, EntryFresh, LookupFresh, NoEntry, IdleLookup
<1>2. TypeOK /\ AnswersInv => AnswersAreRecent
  <2> SUFFICES ASSUME TypeOK, AnswersInv, NEW q \in Queries, cache[q].left > 0,
                      NEW i \in cache[q].ids
               PROVE  ago[q][i] < Ttl[q] + cache[q].took
    BY DEF AnswersAreRecent
  <2>1. cache[q].left \in Nat /\ i \in Ids /\ Ttl[q] \in Nat /\ cache[q].took \in Nat
    BY SearchAssumption DEF TypeOK, SearchTypeOK, Entry
  <2>2. ago[q][i] \in Nat /\ ago[q][i] + cache[q].left =< Ttl[q] + cache[q].took
    BY <2>1 DEF AnswersInv, EntryFresh, TypeOK, SearchTypeOK
  <2> QED
    BY <2>1, <2>2
<1> QED
  BY <1>1, <1>2, AccountsTyped, NextKeepsAnswers, PTL DEF Spec
=============================================================================
