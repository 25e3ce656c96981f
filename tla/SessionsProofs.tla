--------------------------- MODULE SessionsProofs ---------------------------
(***************************************************************************)
(* A reset leaves no refresh token of older passwords: the proof of        *)
(* ResetRevokesRefresh.                                                    *)
(***************************************************************************)
EXTENDS AccountsProofs

\* Every password user i got after its p-th was spared.
LaterSpared(i, p) == Stored(i) => \A v \in p + 1 .. user[i].pw : Spared(i, v)

\* What is true of a token has to be true of a request that issues one.
SessionsInv ==
    /\ ResetRevokesRefresh
    /\ \A q \in Auths :
          auth[q].op = "token" /\ auth[q].pc # "idle" /\ ~auth[q].overtaken
              => LaterSpared(auth[q].user, auth[q].pw)

\* A step that gives user i no password but a spared one, and no other user
\* its row, and takes nothing back.
SparesUser(i) ==
    /\ Stored(i)' => \/ user'[i].pw = 0
                     \/ Stored(i) /\ \A v \in user[i].pw + 1 .. user'[i].pw : Spared(i, v)'
    /\ \A v \in Nat : Spared(i, v) => Spared(i, v)'

\* The same of a user that a variable holds after the step.
Spares(u) == \E i \in Ids : i = u /\ SparesUser(i)

LEMMA SparedStays ==
    ASSUME TypeOK, TypeOK', NEW i \in Ids, NEW p \in Nat, SparesUser(i), LaterSpared(i, p)
    PROVE  LaterSpared(i, p)'
<1> SUFFICES ASSUME Stored(i)', NEW v \in p + 1 .. user'[i].pw PROVE Spared(i, v)'
  BY DEF LaterSpared
<1>1. user[i].pw \in Nat /\ user'[i].pw \in Nat /\ v \in Nat /\ p < v /\ v =< user'[i].pw
  BY DEF TypeOK, UsersTypeOK, UserRow
<1>2. Stored(i) /\ \A w \in user[i].pw + 1 .. user'[i].pw : Spared(i, w)'
  BY <1>1 DEF SparesUser
<1>3. CASE v =< user[i].pw
  <2>1. v \in p + 1 .. user[i].pw
    BY <1>1, <1>3
  <2> QED
    BY <1>1, <1>2, <2>1 DEF LaterSpared, SparesUser
<1>4. CASE ~(v =< user[i].pw)
  <2>1. v \in user[i].pw + 1 .. user'[i].pw
    BY <1>1, <1>4
  <2> QED
    BY <1>2, <2>1
<1> QED
  BY <1>3, <1>4

\* A pair of user and password a step may leave in a token or a request: one
\* that was in a token or request that counts.
Carried(i, p) ==
    \/ \E t \in Tokens : /\ token[t].state = "live" /\ ~token[t].overtaken
                         /\ token[t].user = i /\ token[t].pw = p
    \/ \E q \in Auths : /\ auth[q].op = "token" /\ auth[q].pc # "idle"
                        /\ ~auth[q].overtaken
                        /\ auth[q].user = i /\ auth[q].pw = p
    \/ p = user[i].pw

LEMMA CarriedSpared ==
    ASSUME TypeOK, SessionsInv, NEW i \in Ids, NEW p \in Nat, Carried(i, p)
    PROVE  LaterSpared(i, p)
<1>1. CASE p = user[i].pw
  <2>1. p + 1 .. user[i].pw = {}
    BY <1>1
  <2> QED
    BY <2>1 DEF LaterSpared
<1>2. CASE \E t \in Tokens : /\ token[t].state = "live" /\ ~token[t].overtaken
                             /\ token[t].user = i /\ token[t].pw = p
  BY <1>2 DEF SessionsInv, ResetRevokesRefresh, Live, LaterSpared
<1>3. CASE \E q \in Auths : /\ auth[q].op = "token" /\ auth[q].pc # "idle"
                            /\ ~auth[q].overtaken
                            /\ auth[q].user = i /\ auth[q].pw = p
  BY <1>3 DEF SessionsInv
<1> QED
  BY <1>1, <1>2, <1>3 DEF Carried

\* A step keeps the invariant when each token and request it leaves carries
\* what one carried before, of a user that it spares.
LEMMA CarryKeeps ==
    ASSUME TypeOK, TypeOK', SessionsInv,
           \A t \in Tokens : token'[t].state = "live" /\ ~token'[t].overtaken
               => /\ Carried(token'[t].user, token'[t].pw)
                  /\ Spares(token'[t].user),
           \A q \in Auths :
               auth'[q].op = "token" /\ auth'[q].pc # "idle" /\ ~auth'[q].overtaken
               => /\ Carried(auth'[q].user, auth'[q].pw)
                  /\ Spares(auth'[q].user)
    PROVE  SessionsInv'
<1>1. ASSUME NEW t \in Tokens, Live(t)', ~token'[t].overtaken,
             NEW v \in token'[t].pw + 1 .. user'[token'[t].user].pw
      PROVE  Spared(token[t].user, v)'
  <2>1. token'[t].state = "live" /\ Stored(token[t].user)'
    BY <1>1 DEF Live
  <2>2. token'[t].user \in Ids /\ token'[t].pw \in Nat
    BY <2>1 DEF TypeOK, SessionsTypeOK, TokenRow
  <2>3. PICK i \in Ids, p \in Nat :
           token'[t].user = i /\ token'[t].pw = p /\ SparesUser(i)
    BY <1>1, <2>1, <2>2 DEF Spares
  <2>4. LaterSpared(i, p)'
    BY <1>1, <2>1, <2>3, CarriedSpared, SparedStays
  <2> QED
    BY <1>1, <2>1, <2>3, <2>4 DEF LaterSpared
<1>2. ASSUME NEW q \in Auths, auth'[q].op = "token", auth'[q].pc # "idle",
             ~auth'[q].overtaken
      PROVE  LaterSpared(auth[q].user, auth[q].pw)'
  <2>1. auth'[q].user \in Ids /\ auth'[q].pw \in Nat
    BY <1>2 DEF TypeOK, SessionsTypeOK, AuthRequest
  <2>2. PICK i \in Ids, p \in Nat :
           auth'[q].user = i /\ auth'[q].pw = p /\ SparesUser(i)
    BY <1>2, <2>1 DEF Spares
  <2>3. LaterSpared(i, p)'
    BY <1>2, <2>2, CarriedSpared, SparedStays
  <2> QED
    BY <2>2, <2>3
<1> QED
  BY <1>1, <1>2 DEF SessionsInv, ResetRevokesRefresh

-----------------------------------------------------------------------------
(* Steps that set no password *)

\* No user gets a password; a new one may begin with none.
NoPassword ==
    \A i \in Ids : Stored(i)' => \/ user'[i].pw = 0
                                 \/ Stored(i) /\ user'[i].pw = user[i].pw

LEMMA NoPasswordSpares ==
    ASSUME TypeOK, NoPassword, NEW i \in Ids,
           \A v \in Nat : Spared(i, v) => Spared(i, v)'
    PROVE  SparesUser(i)
<1>1. user[i].pw \in Nat /\ user[i].pw + 1 .. user[i].pw = {}
  BY DEF TypeOK, UsersTypeOK, UserRow
<1> QED
  BY <1>1 DEF NoPassword, SparesUser

\* Registration, profiles, administrators and search.
LEMMA OthersKeep ==
    ASSUME TypeOK, TypeOK', SessionsInv, NoPassword, UNCHANGED sessionVars
    PROVE  SessionsInv'
<1>1. \A i \in Ids : SparesUser(i)
  <2>1. \A i, v : Spared(i, v) => Spared(i, v)'
    BY DEF Spared, sessionVars
  <2> QED
    BY <2>1, NoPasswordSpares
<1>2. \A t \in Tokens : token[t].state = "live" => token[t].user \in Ids
  BY DEF TypeOK, SessionsTypeOK
<1>3. \A q \in Auths : auth[q].pc # "idle" => auth[q].user \in Ids
  BY DEF TypeOK, SessionsTypeOK
<1>4. token' = token /\ auth' = auth
  BY DEF sessionVars
<1>5. \A t \in Tokens : token[t].state = "live" /\ ~token[t].overtaken
          => Carried(token[t].user, token[t].pw)
  BY DEF Carried
<1>6. \A q \in Auths : auth[q].op = "token" /\ auth[q].pc # "idle" /\ ~auth[q].overtaken
          => Carried(auth[q].user, auth[q].pw)
  BY DEF Carried
<1> QED
  BY <1>1, <1>2, <1>3, <1>4, <1>5, <1>6, CarryKeeps DEF Spares

LEMMA SameUsers == UNCHANGED user => NoPassword
BY DEF NoPassword, Stored

LEMMA RegisterNoPassword ==
    ASSUME TypeOK, NEW r \in Signups, RegisterCall(r) \/ RegisterStep(r)
    PROVE  NoPassword
<1>0. user \in [Ids -> UserRow]
  BY DEF TypeOK, UsersTypeOK
<1>1. CASE UNCHANGED user
  BY <1>1, SameUsers
<1>2. ASSUME NEW i \in Ids, RegisterUser(r, i) PROVE NoPassword
  <2>1. /\ user'[i].pw = 0
        /\ \A j \in Ids : j # i => user'[j] = user[j]
    BY <1>0, <1>2 DEF RegisterUser, NoUser
  <2> QED
    BY <2>1 DEF NoPassword, Stored
<1>3. CASE RegisterProfile(r)
  <2>1. \A j \in Ids : user'[j].pw = user[j].pw /\ user'[j].state = user[j].state
    BY <1>0, <1>3 DEF RegisterProfile, UserRow
  <2> QED
    BY <2>1 DEF NoPassword, Stored
<1> QED
  BY <1>1, <1>2, <1>3 DEF RegisterCall, RegisterStep, RegisterCheck, RegisterConflict,
     RegisterFail

LEMMA EventNoPassword ==
    ASSUME TypeOK, NEW i \in Ids, UserEvent(i)
    PROVE  NoPassword
<1>0. user \in [Ids -> UserRow]
  BY DEF TypeOK, UsersTypeOK
<1>1. CASE CreateInitialAdmin(i)
  <2>1. /\ user'[i].pw = 0
        /\ \A j \in Ids : j # i => user'[j] = user[j]
    BY <1>0, <1>1 DEF CreateInitialAdmin, NoUser
  <2> QED
    BY <2>1 DEF NoPassword, Stored
<1>2. ASSUME NEW sent \in BOOLEAN, MailVerification(i, sent) \/ MailReset(i, sent)
      PROVE  \A j \in Ids : user'[j].pw = user[j].pw /\ user'[j].state = user[j].state
  BY <1>0, <1>2 DEF MailVerification, MailReset, UserRow
<1>3. ASSUME LinkExpires(i)
      PROVE  \A j \in Ids : user'[j].pw = user[j].pw /\ user'[j].state = user[j].state
  BY <1>0, <1>3 DEF LinkExpires, UserRow
<1> QED
  BY <1>1, <1>2, <1>3 DEF UserEvent, NoPassword, Stored

LEMMA EditNoPassword ==
    ASSUME TypeOK, NEW r \in Edits,
           ProfileCall(r) \/ ServiceCall(r) \/ AdminCall(r) \/ EditStep(r)
    PROVE  NoPassword
<1>0. user \in [Ids -> UserRow]
  BY DEF TypeOK, UsersTypeOK
<1>1. CASE UNCHANGED user
  BY <1>1, SameUsers
<1>2. CASE RejectAct(r)
  <2>1. ASSUME NEW i \in Ids, DeleteUser(i) PROVE \A j \in Ids : j # i => user'[j] = user[j]
    BY <1>0, <2>1 DEF DeleteUser
  <2>2. ASSUME NEW i \in Ids, DeleteUser(i) PROVE ~Stored(i)'
    BY <1>0, <2>2 DEF DeleteUser, NoUser, Stored
  <2>3. edit[r].id \in Ids
    BY <1>2 DEF RejectAct, TypeOK, DirectoryTypeOK, AdminOps
  <2>4. CASE DeleteUser(edit[r].id)
    BY <2>1, <2>2, <2>3, <2>4 DEF NoPassword, Stored
  <2> QED
    BY <1>1, <1>2, <2>4 DEF RejectAct
<1>3. CASE SuspendAct(r)
  <2>1. \A j \in Ids : user'[j].pw = user[j].pw /\ user'[j].state = user[j].state
    BY <1>0, <1>3 DEF SuspendAct, UserRow
  <2> QED
    BY <2>1 DEF NoPassword, Stored
<1>4. ProfileCall(r) => UNCHANGED user
  BY DEF ProfileCall, UpdatePrestataireBegin, UpdateClientBegin, usersVars
<1>5. ServiceCall(r) => UNCHANGED user
  BY DEF ServiceCall, UpdateServiceBegin, DeleteServiceBegin, ServiceBegin, ReorderBegin,
     usersVars
<1>6. AdminCall(r) => UNCHANGED user
  BY DEF AdminCall, ApproveBegin, RejectBegin, SuspendBegin, usersVars
<1>7. EditStep(r) => UNCHANGED user \/ RejectAct(r) \/ SuspendAct(r)
  BY DEF EditStep, SaveLoad, SaveRefused, SaveWrite, AuditStep, EditFail, usersVars
<1> QED
  BY <1>1, <1>2, <1>3, <1>4, <1>5, <1>6, <1>7

-----------------------------------------------------------------------------
(* Steps of the sessions *)

\* What a call does to the state as it begins.
LEMMA CallBegins ==
    ASSUME TypeOK, NEW r \in Auths, AuthCall(r)
    PROVE  /\ auth[r].pc = "idle"
           /\ \A q \in Auths : q # r => auth'[q] = auth[q]
           /\ UNCHANGED <<user, byChange, unrevoked>>
           /\ \A t \in Tokens : /\ token'[t].state = token[t].state
                                /\ token'[t].user = token[t].user
                                /\ token'[t].pw = token[t].pw
                                /\ token'[t].overtaken = token[t].overtaken
           /\ auth'[r].op = "token"
                => \/ auth'[r].pw = user[auth'[r].user].pw
                   \/ \E t \in Tokens : /\ token[t].state = "live"
                                        /\ auth'[r].user = token[t].user
                                        /\ auth'[r].pw = token[t].pw
                                        /\ auth'[r].overtaken = token[t].overtaken
<1>0. auth \in [Auths -> AuthRequest] /\ token \in [Tokens -> TokenRow]
  BY DEF TypeOK, SessionsTypeOK
<1> DEFINE Goal ==
           /\ auth[r].pc = "idle"
           /\ \A q \in Auths : q # r => auth'[q] = auth[q]
           /\ UNCHANGED <<user, byChange, unrevoked>>
           /\ \A t \in Tokens : /\ token'[t].state = token[t].state
                                /\ token'[t].user = token[t].user
                                /\ token'[t].pw = token[t].pw
                                /\ token'[t].overtaken = token[t].overtaken
           /\ auth'[r].op = "token"
                => \/ auth'[r].pw = user[auth'[r].user].pw
                   \/ \E t \in Tokens : /\ token[t].state = "live"
                                        /\ auth'[r].user = token[t].user
                                        /\ auth'[r].pw = token[t].pw
                                        /\ auth'[r].overtaken = token[t].overtaken
<1> SUFFICES Goal
  OBVIOUS
<1>1. ASSUME NEW i \in Ids, Login(r, i) PROVE Goal
  BY <1>0, <1>1 DEF Login, IdleAuth, usersVars, History
<1>2. ASSUME NEW t \in Tokens, RefreshRead(r, t) PROVE Goal
  BY <1>0, <1>2 DEF RefreshRead, Live, usersVars
<1>3. ASSUME NEW pc, NEW op, NEW i, Begins(r, pc, op, i)
      PROVE  /\ auth[r].pc = "idle"
             /\ \A q \in Auths : q # r => auth'[q] = auth[q]
             /\ auth'[r].op = op
  BY <1>0, <1>3 DEF Begins, IdleAuth
<1>4. ASSUME NEW i \in Ids,
             VerifyBegin(r, i) \/ ResendBegin(r, i) \/ ForgotBegin(r, i) \/ ResetBegin(r, i)
      PROVE  Goal
  BY <1>3, <1>4 DEF VerifyBegin, ResendBegin, ForgotBegin, ResetBegin, usersVars, History
<1>5. ASSUME NEW t \in Tokens, ChangeBegin(r, t) PROVE Goal
  BY <1>3, <1>5 DEF ChangeBegin, usersVars, History
<1>6. ASSUME NEW t \in Tokens, LogoutBegin(r, t) PROVE Goal
  <2>1. \A s \in Tokens : /\ token'[s].state = token[s].state
                          /\ token'[s].user = token[s].user
                          /\ token'[s].pw = token[s].pw
                          /\ token'[s].overtaken = token[s].overtaken
    BY <1>0, <1>6 DEF LogoutBegin, TokenRow
  <2> QED
    BY <1>3, <1>6, <2>1 DEF LogoutBegin, usersVars, History
<1> QED
  BY <1>1, <1>2, <1>4, <1>5, <1>6 DEF AuthCall

LEMMA AuthCallKeeps ==
    ASSUME TypeOK, TypeOK', SessionsInv, NEW r \in Auths, AuthCall(r)
    PROVE  SessionsInv'
<1>1. \A i \in Ids : SparesUser(i)
  <2>1. \A i, v : Spared(i, v) => Spared(i, v)'
    BY CallBegins DEF Spared
  <2>2. NoPassword
    BY CallBegins, SameUsers
  <2> QED
    BY <2>1, <2>2, NoPasswordSpares
<1>2. ASSUME NEW t \in Tokens, token'[t].state = "live", ~token'[t].overtaken
      PROVE  Carried(token'[t].user, token'[t].pw) /\ Spares(token'[t].user)
  <2>1. token'[t].user \in Ids
    BY <1>2 DEF TypeOK, SessionsTypeOK
  <2> QED
    BY <1>1, <1>2, <2>1, CallBegins DEF Carried, Spares
<1>3. ASSUME NEW q \in Auths, auth'[q].op = "token", auth'[q].pc # "idle",
             ~auth'[q].overtaken
      PROVE  Carried(auth'[q].user, auth'[q].pw) /\ Spares(auth'[q].user)
  <2>1. auth'[q].user \in Ids
    BY <1>3 DEF TypeOK, SessionsTypeOK
  <2>2. ASSUME q = r PROVE Carried(auth'[q].user, auth'[q].pw)
    <3>1. auth'[r].op = "token" /\ ~auth'[r].overtaken
      BY <1>3, <2>2
    <3>2. ASSUME auth'[r].pw = user[auth'[r].user].pw
          PROVE  Carried(auth'[r].user, auth'[r].pw)
      BY <3>2 DEF Carried
    <3>3. ASSUME NEW t \in Tokens, token[t].state = "live", auth'[r].user = token[t].user,
                 auth'[r].pw = token[t].pw, auth'[r].overtaken = token[t].overtaken
          PROVE  Carried(auth'[r].user, auth'[r].pw)
      BY <3>1, <3>3 DEF Carried
    <3>4. Carried(auth'[r].user, auth'[r].pw)
      BY <3>1, <3>2, <3>3, <2>2, CallBegins
    <3> QED
      BY <2>2, <3>4
  <2>3. ASSUME q # r PROVE Carried(auth'[q].user, auth'[q].pw)
    <3>1. auth'[q] = auth[q]
      BY <2>3, CallBegins
    <3> QED
      BY <1>3, <3>1 DEF Carried
  <2> QED
    BY <1>1, <2>1, <2>2, <2>3 DEF Spares
<1> QED
  BY <1>2, <1>3, CarryKeeps

\* Only a call that issues a token revokes one or saves one.
Issuers == \A q \in Auths : auth[q].pc \in {"revoke", "save"} => auth[q].op = "token"

\* A step that leaves no token or request that counts, but those it found.
NoneIssued ==
    /\ \A t \in Tokens : token'[t].state = "live" => token'[t] = token[t]
    /\ \A q \in Auths : auth'[q].op = "token" => auth'[q] = auth[q]

LEMMA NoneIssuedKeeps ==
    ASSUME TypeOK, TypeOK', SessionsInv, NoneIssued,
           \A i \in Ids : SparesUser(i)
    PROVE  SessionsInv'
<1>1. ASSUME NEW t \in Tokens, token'[t].state = "live", ~token'[t].overtaken
      PROVE  Carried(token'[t].user, token'[t].pw) /\ Spares(token'[t].user)
  <2>1. token'[t] = token[t]
    BY <1>1 DEF NoneIssued
  <2>2. token[t].user \in Ids
    BY <1>1, <2>1 DEF TypeOK, SessionsTypeOK
  <2>3. Carried(token[t].user, token[t].pw)
    BY <1>1, <2>1 DEF Carried
  <2> QED
    BY <2>1, <2>2, <2>3 DEF Spares
<1>2. ASSUME NEW q \in Auths, auth'[q].op = "token", auth'[q].pc # "idle",
             ~auth'[q].overtaken
      PROVE  Carried(auth'[q].user, auth'[q].pw) /\ Spares(auth'[q].user)
  <2>1. auth'[q] = auth[q]
    BY <1>2 DEF NoneIssued
  <2>2. auth[q].user \in Ids
    BY <1>2, <2>1 DEF TypeOK, SessionsTypeOK
  <2>3. Carried(auth[q].user, auth[q].pw)
    BY <1>2, <2>1 DEF Carried
  <2> QED
    BY <2>1, <2>2, <2>3 DEF Spares
<1> QED
  BY <1>1, <1>2, CarryKeeps

\* A request that was not revoking after a reset takes no user's excuse away.
LEMMA ExcuseStays ==
    ASSUME TypeOK, NEW r \in Auths,
           auth[r].pc # "revokeAll" \/ auth[r].op # "reset",
           \A q \in Auths : q # r => auth'[q] = auth[q],
           byChange \subseteq byChange', unrevoked \subseteq unrevoked'
    PROVE  \A i, v : Spared(i, v) => Spared(i, v)'
BY DEF Spared

LEMMA RefreshRevokeKeeps ==
    ASSUME TypeOK, TypeOK', SessionsInv, NEW r \in Auths, RefreshRevoke(r)
    PROVE  SessionsInv'
<1>0. auth \in [Auths -> AuthRequest] /\ token \in [Tokens -> TokenRow]
  BY DEF TypeOK, SessionsTypeOK
<1>1. /\ \A t \in Tokens : token'[t].state = "live" => token'[t] = token[t]
      /\ \A q \in Auths : /\ q # r => auth'[q] = auth[q]
                          /\ auth'[q].op = auth[q].op
                          /\ auth'[q].user = auth[q].user
                          /\ auth'[q].pw = auth[q].pw
                          /\ auth'[q].overtaken = auth[q].overtaken
                          /\ auth'[q].pc # "idle" => auth[q].pc # "idle"
      /\ auth[r].pc # "revokeAll"
      /\ UNCHANGED <<user, byChange, unrevoked>>
  BY <1>0 DEF RefreshRevoke, AuthRequest, TokenRow, usersVars, History
<1>2. \A i \in Ids : SparesUser(i)
  <2>1. NoPassword
    BY <1>1, SameUsers
  <2>2. \A i, v : Spared(i, v) => Spared(i, v)'
    BY <1>1, ExcuseStays
  <2> QED
    BY <2>1, <2>2, NoPasswordSpares
<1>3. ASSUME NEW t \in Tokens, token'[t].state = "live", ~token'[t].overtaken
      PROVE  Carried(token'[t].user, token'[t].pw) /\ Spares(token'[t].user)
  <2>1. token'[t] = token[t]
    BY <1>1, <1>3
  <2>2. token[t].user \in Ids
    BY <1>3, <2>1 DEF TypeOK, SessionsTypeOK
  <2>3. Carried(token[t].user, token[t].pw)
    BY <1>3, <2>1 DEF Carried
  <2> QED
    BY <1>2, <2>1, <2>2, <2>3 DEF Spares
<1>4. ASSUME NEW q \in Auths, auth'[q].op = "token", auth'[q].pc # "idle",
             ~auth'[q].overtaken
      PROVE  Carried(auth'[q].user, auth'[q].pw) /\ Spares(auth'[q].user)
  <2>1. /\ auth[q].op = "token" /\ auth[q].pc # "idle" /\ ~auth[q].overtaken
        /\ auth'[q].user = auth[q].user /\ auth'[q].pw = auth[q].pw
    BY <1>1, <1>4
  <2>2. auth[q].user \in Ids
    BY <2>1 DEF TypeOK, SessionsTypeOK
  <2>3. Carried(auth[q].user, auth[q].pw)
    BY <2>1 DEF Carried
  <2> QED
    BY <1>2, <2>1, <2>2, <2>3 DEF Spares
<1> QED
  BY <1>3, <1>4, CarryKeeps

\* A saved token carries what its request carried.
LEMMA SaveTokenKeeps ==
    ASSUME TypeOK, TypeOK', SessionsInv, Issuers, NEW r \in Auths, NEW t \in Tokens,
           SaveRefreshToken(r, t)
    PROVE  SessionsInv'
<1>0. auth \in [Auths -> AuthRequest] /\ token \in [Tokens -> TokenRow]
  BY DEF TypeOK, SessionsTypeOK
<1>1. /\ auth[r].pc = "save" /\ auth[r].op = "token" /\ auth[r].user \in Ids
      /\ \A s \in Tokens : s # t => token'[s] = token[s]
      /\ token'[t].user = auth[r].user /\ token'[t].pw = auth[r].pw
      /\ token'[t].overtaken = auth[r].overtaken
      /\ \A q \in Auths : q # r => auth'[q] = auth[q]
      /\ auth'[r].op # "token"
      /\ UNCHANGED <<user, byChange, unrevoked>>
  BY <1>0 DEF SaveRefreshToken, AuthEnds, IdleAuth, Issuers, usersVars, History,
     TypeOK, SessionsTypeOK
<1>2. \A i \in Ids : SparesUser(i)
  <2>1. NoPassword
    BY <1>1, SameUsers
  <2>2. \A i, v : Spared(i, v) => Spared(i, v)'
    BY <1>1, ExcuseStays
  <2> QED
    BY <2>1, <2>2, NoPasswordSpares
<1>3. ASSUME NEW s \in Tokens, token'[s].state = "live", ~token'[s].overtaken
      PROVE  Carried(token'[s].user, token'[s].pw) /\ Spares(token'[s].user)
  <2>1. ASSUME s = t PROVE Carried(token'[s].user, token'[s].pw)
    <3>1. ~auth[r].overtaken
      BY <1>1, <1>3, <2>1
    <3>2. Carried(auth[r].user, auth[r].pw)
      BY <1>1, <3>1 DEF Carried
    <3> QED
      BY <1>1, <2>1, <3>2
  <2>2. ASSUME s # t PROVE Carried(token'[s].user, token'[s].pw)
    <3>1. token'[s] = token[s]
      BY <1>1, <2>2
    <3>2. Carried(token[s].user, token[s].pw)
      BY <1>3, <3>1 DEF Carried
    <3> QED
      BY <3>1, <3>2
  <2>3. token'[s].user \in Ids
    BY <1>3 DEF TypeOK, SessionsTypeOK
  <2> QED
    BY <1>2, <2>1, <2>2, <2>3 DEF Spares
<1>4. ASSUME NEW q \in Auths, auth'[q].op = "token", auth'[q].pc # "idle",
             ~auth'[q].overtaken
      PROVE  Carried(auth'[q].user, auth'[q].pw) /\ Spares(auth'[q].user)
  <2>1. auth'[q] = auth[q]
    BY <1>1, <1>4
  <2>2. auth[q].user \in Ids
    BY <1>4, <2>1 DEF TypeOK, SessionsTypeOK
  <2>3. Carried(auth[q].user, auth[q].pw)
    BY <1>4, <2>1 DEF Carried
  <2> QED
    BY <1>2, <2>1, <2>2, <2>3 DEF Spares
<1> QED
  BY <1>3, <1>4, CarryKeeps

\* Revoking all tokens of user i takes its excuse away; no token and no request
\* of i counts after it, and nothing changes for other users.
LEMMA RevokeAllKeeps ==
    ASSUME TypeOK, TypeOK', SessionsInv, NEW r \in Auths, RevokeAll(r)
    PROVE  SessionsInv'
<1>0. auth \in [Auths -> AuthRequest] /\ token \in [Tokens -> TokenRow]
  BY DEF TypeOK, SessionsTypeOK
<1>1. PICK i \in Ids : auth[r].user = i
  BY DEF RevokeAll, TypeOK, SessionsTypeOK
<1>2. \A t \in Tokens : token'[t].state = "live"
                          => token'[t] = token[t] /\ token[t].user # i
  BY <1>0, <1>1 DEF RevokeAll, TokenRow
<1>3. \A q \in Auths : auth'[q].op = "token" /\ ~auth'[q].overtaken
                          => auth'[q] = auth[q] /\ auth[q].user # i
  BY <1>0, <1>1 DEF RevokeAll, Issuing, IdleAuth, AuthRequest
<1>4. \A q \in Auths : auth[q].user # i => auth'[q] = auth[q]
  BY <1>0, <1>1 DEF RevokeAll, Issuing
<1>5. UNCHANGED <<user, byChange, unrevoked>>
  BY DEF RevokeAll, usersVars, History
<1>6. ASSUME NEW j \in Ids, j # i PROVE SparesUser(j)
  <2>1. \A v \in Nat : Spared(j, v) => Spared(j, v)'
    BY <1>4, <1>5, <1>6 DEF Spared
  <2>2. NoPassword
    BY <1>5, SameUsers
  <2> QED
    BY <2>1, <2>2, NoPasswordSpares
<1>7. ASSUME NEW t \in Tokens, token'[t].state = "live", ~token'[t].overtaken
      PROVE  Carried(token'[t].user, token'[t].pw) /\ Spares(token'[t].user)
  <2>1. token'[t] = token[t] /\ token[t].user # i
    BY <1>2, <1>7
  <2>2. token[t].user \in Ids
    BY <1>7, <2>1 DEF TypeOK, SessionsTypeOK
  <2>3. Carried(token[t].user, token[t].pw)
    BY <1>7, <2>1 DEF Carried
  <2> QED
    BY <1>6, <2>1, <2>2, <2>3 DEF Spares
<1>8. ASSUME NEW q \in Auths, auth'[q].op = "token", auth'[q].pc # "idle",
             ~auth'[q].overtaken
      PROVE  Carried(auth'[q].user, auth'[q].pw) /\ Spares(auth'[q].user)
  <2>1. auth'[q] = auth[q] /\ auth[q].user # i
    BY <1>3, <1>8
  <2>2. auth[q].user \in Ids
    BY <1>8, <2>1 DEF TypeOK, SessionsTypeOK
  <2>3. Carried(auth[q].user, auth[q].pw)
    BY <1>8, <2>1 DEF Carried
  <2> QED
    BY <1>6, <2>1, <2>2, <2>3 DEF Spares
<1> QED
  BY <1>7, <1>8, CarryKeeps

\* A step of request r that updates the user's row, or fails.
LEMMA WritesKeep ==
    ASSUME TypeOK, TypeOK', SessionsInv, NEW r \in Auths,
           \/ VerifyWrite(r) \/ ResendWrite(r) \/ ForgotWrite(r)
           \/ ResetWrite(r) \/ ChangeWrite(r) \/ AuthFail(r)
    PROVE  SessionsInv'
<1>0. user \in [Ids -> UserRow] /\ auth \in [Auths -> AuthRequest]
  BY DEF TypeOK, UsersTypeOK, SessionsTypeOK
<1>1. token' = token
  BY DEF VerifyWrite, ResendWrite, ForgotWrite, ResetWrite, ChangeWrite, AuthFail, Updates
<1>2. \A q \in Auths : q # r => auth'[q] = auth[q]
  BY <1>0 DEF VerifyWrite, ResendWrite, ForgotWrite, ResetWrite, ChangeWrite, AuthFail,
     AuthEnds
<1>3. auth'[r].op # "token"
  <2>1. AuthEnds(r) => auth'[r].op = "none"
    BY <1>0 DEF AuthEnds, IdleAuth
  <2>2. ResetWrite(r) => auth'[r].op = "reset"
    BY <1>0 DEF ResetWrite, Updates, AuthRequest
  <2> QED
    BY <2>1, <2>2 DEF VerifyWrite, ResendWrite, ForgotWrite, ChangeWrite, AuthFail
<1>4. NoneIssued
  BY <1>1, <1>2, <1>3 DEF NoneIssued
<1>5. auth[r].pc # "idle" /\ auth[r].user \in Ids
  BY DEF VerifyWrite, ResendWrite, ForgotWrite, ResetWrite, ChangeWrite, AuthFail,
     Updates, TypeOK, SessionsTypeOK
<1>6. PICK i \in Ids : auth[r].user = i
  BY <1>5
<1>7. byChange \subseteq byChange' /\ unrevoked \subseteq unrevoked'
  BY DEF VerifyWrite, ResendWrite, ForgotWrite, ResetWrite, ChangeWrite, AuthFail, History
<1>8. CASE VerifyWrite(r) \/ ResendWrite(r) \/ ForgotWrite(r)
  <2>1. \A j \in Ids : user'[j].pw = user[j].pw /\ user'[j].state = user[j].state
    <3>1. ASSUME NEW op, NEW u, u.pw = user[i].pw, u.state = user[i].state,
                 Updates(r, op, u)
          PROVE  \A j \in Ids : user'[j].pw = user[j].pw /\ user'[j].state = user[j].state
      BY <1>0, <1>6, <3>1 DEF Updates
    <3>2. user[i] \in UserRow
      BY <1>0
    <3>3. CASE VerifyWrite(r)
      <4> DEFINE u == [user[i] EXCEPT !.emailVerified = TRUE, !.verification = "none"]
      <4>1. u.pw = user[i].pw /\ u.state = user[i].state
        BY <3>2 DEF UserRow
      <4>2. Updates(r, "verify", u)
        BY <1>6, <3>3 DEF VerifyWrite
      <4> QED
        BY <3>1, <4>1, <4>2
    <3>4. CASE ResendWrite(r)
      <4> DEFINE u == [user[i] EXCEPT !.verification = "made"]
      <4>1. u.pw = user[i].pw /\ u.state = user[i].state
        BY <3>2 DEF UserRow
      <4>2. Updates(r, "resend", u)
        BY <1>6, <3>4 DEF ResendWrite
      <4> QED
        BY <3>1, <4>1, <4>2
    <3>5. CASE ForgotWrite(r)
      <4> DEFINE u == [user[i] EXCEPT !.reset = "asked"]
      <4>1. u.pw = user[i].pw /\ u.state = user[i].state
        BY <3>2 DEF UserRow
      <4>2. Updates(r, "forgot", u)
        BY <1>6, <3>5 DEF ForgotWrite
      <4> QED
        BY <3>1, <4>1, <4>2
    <3> QED
      BY <1>8, <3>3, <3>4, <3>5
  <2>2. NoPassword
    BY <2>1 DEF NoPassword, Stored
  <2>3. auth[r].pc # "revokeAll"
    BY <1>8 DEF VerifyWrite, ResendWrite, ForgotWrite, Updates
  <2> QED
    BY <1>2, <1>4, <1>7, <2>2, <2>3, ExcuseStays, NoPasswordSpares, NoneIssuedKeeps
<1>9. CASE ResetWrite(r) \/ ChangeWrite(r)
  <2>0. PICK n \in Nat : user[i].pw = n
    BY <1>0 DEF UserRow
  <2>1. auth[r].pc # "revokeAll"
    BY <1>9 DEF ResetWrite, ChangeWrite, Updates
  <2>2. \A j, v : Spared(j, v) => Spared(j, v)'
    BY <1>2, <1>7, <2>1, ExcuseStays
  <2>3. Spared(i, n + 1)'
    <3>1. CASE ResetWrite(r)
      <4>1. /\ auth'[r].pc = "revokeAll" /\ auth'[r].op = "reset"
            /\ auth'[r].user = i /\ auth'[r].pw = n + 1
        BY <1>0, <1>6, <2>0, <3>1 DEF ResetWrite, Updates, AuthRequest
      <4> QED
        BY <4>1 DEF Spared
    <3>2. CASE ChangeWrite(r)
      BY <1>6, <2>0, <3>2 DEF ChangeWrite, Spared
    <3> QED
      BY <1>9, <3>1, <3>2
  <2>4. \/ user' = user
        \/ /\ Stored(i)
           /\ \A j \in Ids : j # i => user'[j] = user[j]
           /\ user'[i].pw = n + 1
    <3>1. ASSUME NEW op, NEW u, u.pw = n + 1, Updates(r, op, u)
          PROVE  \/ user' = user
                 \/ /\ Stored(i)
                    /\ \A j \in Ids : j # i => user'[j] = user[j]
                    /\ user'[i].pw = n + 1
      BY <1>0, <1>6, <3>1 DEF Updates
    <3>2. user[i] \in UserRow
      BY <1>0
    <3>3. CASE ResetWrite(r)
      <4> DEFINE u == [user[i] EXCEPT !.pw = user[i].pw + 1, !.reset = "none"]
      <4>1. u.pw = n + 1
        BY <2>0, <3>2 DEF UserRow
      <4>2. Updates(r, "reset", u)
        BY <1>6, <3>3 DEF ResetWrite
      <4> QED
        BY <3>1, <4>1, <4>2
    <3>4. CASE ChangeWrite(r)
      <4> DEFINE u == [user[i] EXCEPT !.pw = user[i].pw + 1]
      <4>1. u.pw = n + 1
        BY <2>0, <3>2 DEF UserRow
      <4>2. Updates(r, "change", u)
        BY <1>6, <3>4 DEF ChangeWrite
      <4> QED
        BY <3>1, <4>1, <4>2
    <3> QED
      BY <1>9, <3>3, <3>4
  <2>5. ASSUME NEW j \in Ids PROVE SparesUser(j)
    <3>1. CASE user'[j] = user[j]
      <4>1. user[j].pw \in Nat /\ user[j].pw + 1 .. user[j].pw = {}
        BY <1>0 DEF UserRow
      <4> QED
        BY <2>2, <3>1, <4>1 DEF SparesUser, Stored
    <3>2. CASE j = i /\ Stored(i) /\ user'[i].pw = n + 1
      <4>1. user[i].pw + 1 .. user'[i].pw = {n + 1}
        BY <2>0, <3>2
      <4> QED
        BY <2>2, <2>3, <3>2, <4>1 DEF SparesUser
    <3> QED
      BY <2>4, <3>1, <3>2
  <2> QED
    BY <1>4, <2>5, NoneIssuedKeeps
<1>10. CASE AuthFail(r)
  <2>1. user' = user
    BY <1>10 DEF AuthFail, usersVars
  <2>2. \A j, v : Spared(j, v) => Spared(j, v)'
    BY <1>2, <1>7, <1>10 DEF AuthFail, Spared
  <2> QED
    BY <1>4, <2>1, <2>2, SameUsers, NoPasswordSpares, NoneIssuedKeeps
<1> QED
  BY <1>8, <1>9, <1>10

LEMMA ExpiryKeeps ==
    ASSUME TypeOK, TypeOK', SessionsInv, NEW t \in Tokens, TokenExpires(t)
    PROVE  SessionsInv'
<1>1. \A s \in Tokens : token'[s].state = "live" => token'[s] = token[s]
  BY DEF TokenExpires, TypeOK, SessionsTypeOK, TokenRow
<1>2. auth' = auth /\ UNCHANGED <<user, byChange, unrevoked>>
  BY DEF TokenExpires, usersVars, History
<1>3. \A j, v : Spared(j, v) => Spared(j, v)'
  BY <1>2 DEF Spared
<1>4. \A i \in Ids : SparesUser(i)
  BY <1>2, <1>3, SameUsers, NoPasswordSpares
<1> QED
  BY <1>1, <1>2, <1>4, NoneIssuedKeeps DEF NoneIssued

LEMMA AuthStepKeeps ==
    ASSUME TypeOK, TypeOK', SessionsInv, Issuers, NEW r \in Auths, AuthStep(r)
    PROVE  SessionsInv'
BY RefreshRevokeKeeps, SaveTokenKeeps, RevokeAllKeeps, WritesKeep DEF AuthStep

LEMMA IssuersCall ==
    ASSUME TypeOK, Issuers, NEW r \in Auths, AuthCall(r)
    PROVE  Issuers'
<1>0. auth \in [Auths -> AuthRequest]
  BY DEF TypeOK, SessionsTypeOK
<1>1. \A q \in Auths : q # r => auth'[q] = auth[q]
  BY CallBegins
<1>2. ASSUME NEW pc, NEW op, NEW i, Begins(r, pc, op, i)
      PROVE  auth'[r].pc = pc
  BY <1>0, <1>2 DEF Begins, IdleAuth
<1>3. ASSUME NEW i \in Ids,
             VerifyBegin(r, i) \/ ResendBegin(r, i) \/ ForgotBegin(r, i) \/ ResetBegin(r, i)
      PROVE  auth'[r].pc = "update"
  BY <1>2, <1>3 DEF VerifyBegin, ResendBegin, ForgotBegin, ResetBegin
<1>4. ASSUME NEW t \in Tokens, LogoutBegin(r, t) \/ ChangeBegin(r, t)
      PROVE  auth'[r].pc \in {"update", "revokeAll"}
  BY <1>2, <1>4 DEF LogoutBegin, ChangeBegin
<1>5. ASSUME NEW i \in Ids, Login(r, i) PROVE auth'[r].op = "token"
  BY <1>0, <1>5 DEF Login, IdleAuth
<1>6. ASSUME NEW t \in Tokens, RefreshRead(r, t) PROVE auth'[r].op = "token"
  BY <1>0, <1>6 DEF RefreshRead
<1>7. auth'[r].pc \in {"revoke", "save"} => auth'[r].op = "token"
  BY <1>3, <1>4, <1>5, <1>6 DEF AuthCall
<1> QED
  BY <1>1, <1>7 DEF Issuers

LEMMA IssuersStep ==
    ASSUME TypeOK, Issuers, NEW r \in Auths, AuthStep(r)
    PROVE  Issuers'
<1>0. auth \in [Auths -> AuthRequest]
  BY DEF TypeOK, SessionsTypeOK
<1>1. ASSUME AuthEnds(r) PROVE Issuers'
  BY <1>0, <1>1 DEF AuthEnds, IdleAuth, Issuers
<1>2. CASE RefreshRevoke(r)
  BY <1>0, <1>2 DEF RefreshRevoke, Issuers, AuthRequest
<1>3. CASE RevokeAll(r)
  BY <1>0, <1>3 DEF RevokeAll, Issuers, Issuing, IdleAuth, AuthRequest
<1>4. CASE ResetWrite(r)
  BY <1>0, <1>4 DEF ResetWrite, Issuers, AuthRequest
<1> QED
  BY <1>1, <1>2, <1>3, <1>4 DEF AuthStep, SaveRefreshToken, VerifyWrite, ResendWrite,
     ForgotWrite, ChangeWrite, AuthFail

LEMMA SessionsStart == Init => SessionsInv /\ Issuers
<1> SUFFICES ASSUME Init PROVE SessionsInv /\ Issuers
  OBVIOUS
<1>1. TypeOK
  BY InitTyped
<1>2. \A q \in Auths : auth[q].pc = "idle"
  BY DEF Init, SessionsInit, IdleAuth
<1>3. ASSUME NEW t \in Tokens, Live(t) PROVE user[token[t].user].pw = 0
  <2>1. token[t].user \in Ids
    BY <1>1, <1>3 DEF Live, TypeOK, SessionsTypeOK
  <2>2. \A i \in Ids : user[i].pw = 0
    BY DEF Init, UsersInit, Known, NoUser
  <2> QED
    BY <2>1, <2>2
<1>4. \A t \in Tokens : Live(t) => token[t].pw + 1 .. user[token[t].user].pw = {}
  <2>1. \A t \in Tokens : token[t].pw \in Nat
    BY <1>1 DEF TypeOK, SessionsTypeOK, TokenRow
  <2>2. \A n \in Nat : n + 1 .. 0 = {}
    OBVIOUS
  <2> QED
    BY <1>3, <2>1, <2>2
<1> QED
  BY <1>2, <1>4 DEF SessionsInv, ResetRevokesRefresh, Issuers

LEMMA SessionsNext ==
    ASSUME TypeOK, TypeOK', SessionsInv, Issuers, [Next]_vars
    PROVE  SessionsInv' /\ Issuers'
<1>1. ASSUME UNCHANGED sessionVars, NoPassword PROVE SessionsInv' /\ Issuers'
  BY <1>1, OthersKeep DEF sessionVars, Issuers
<1>2. CASE UNCHANGED vars
  BY <1>1, <1>2, SameUsers DEF vars, usersVars
<1>3. ASSUME NEW r \in Signups, RegisterCall(r) \/ RegisterStep(r), OnlyUsers
      PROVE  SessionsInv' /\ Issuers'
  BY <1>1, <1>3, RegisterNoPassword DEF OnlyUsers
<1>4. ASSUME NEW i \in Ids, UserEvent(i), OnlyUsers PROVE SessionsInv' /\ Issuers'
  BY <1>1, <1>4, EventNoPassword DEF OnlyUsers
<1>5. ASSUME NEW r \in Edits, OnlyDirectory,
             ProfileCall(r) \/ ServiceCall(r) \/ AdminCall(r) \/ EditStep(r)
      PROVE  SessionsInv' /\ Issuers'
  BY <1>1, <1>5, EditNoPassword DEF OnlyDirectory
<1>6. ASSUME NEW s \in Services, CreateService(s), OnlyDirectory
      PROVE  SessionsInv' /\ Issuers'
  BY <1>1, <1>6, SameUsers DEF OnlyDirectory, CreateService
<1>7. ASSUME NEW i \in Ids, Book(i), OnlyDirectory PROVE SessionsInv' /\ Issuers'
  BY <1>1, <1>7, SameUsers DEF OnlyDirectory, Book
<1>8. CASE OnlySearch
  BY <1>1, <1>8, SameUsers DEF OnlySearch, usersVars
<1>9. ASSUME NEW r \in Auths, AuthCall(r) \/ AuthStep(r) PROVE SessionsInv' /\ Issuers'
  BY <1>9, AuthCallKeeps, AuthStepKeeps, IssuersCall, IssuersStep
<1>10. ASSUME NEW t \in Tokens, TokenExpires(t) PROVE SessionsInv' /\ Issuers'
  <2>1. Issuers'
    BY <1>10 DEF TokenExpires, Issuers
  <2> QED
    BY <1>10, <2>1, ExpiryKeeps
<1>11. CASE Call
  BY <1>3, <1>5, <1>6, <1>7, <1>8, <1>9, <1>11 DEF Call
<1>12. CASE Progress
  BY <1>3, <1>4, <1>5, <1>8, <1>9, <1>10, <1>12 DEF Progress
<1> QED
  BY <1>2, <1>8, <1>11, <1>12 DEF Next

\* A refresh token issued to who logged in with a password that a reset has
\* replaced is revoked, unless the reset has yet to revoke the tokens or broke
\* off there, or the token was on its way at that moment.  It says nothing of
\* access tokens, which outlive a reset.
THEOREM RefreshTokensRevoked == Spec => []ResetRevokesRefresh
<1>1. SessionsInv => ResetRevokesRefresh
  BY DEF SessionsInv
<1> QED
  BY AccountsTyped, SessionsStart, SessionsNext, <1>1, PTL DEF Spec

-----------------------------------------------------------------------------
(* A token is replaced once *)

Holds(q, t) == auth[q].pc \in {"revoke", "save"} /\ auth[q].token = t

Spent(t) == token[t].state \in {"revoked", "expired"}

\* A token with a successor, or one whose successor is about to be saved, is
\* spent.  Before, at most one request holds it.
RotationInv ==
    /\ \A s, t \in Tokens : token[s].parent = t => Spent(t)
    /\ \A q \in Auths, t \in Tokens :
          auth[q].pc = "save" /\ auth[q].token = t => Spent(t)
    /\ \A t \in Tokens \ raced, q \in Auths : Holds(q, t) =>
          /\ \A p \in Auths : Holds(p, t) => p = q
          /\ \A s \in Tokens : token[s].parent # t
    /\ RotatedOnce

\* A step that gives no request a token, and no token a successor.
NoneRotated ==
    /\ \A t \in Tokens : /\ Spent(t) => token'[t].state \in {"revoked", "expired"}
                         /\ token'[t].parent = token[t].parent
    /\ \A q \in Auths : auth'[q].pc \in {"revoke", "save"} /\ auth'[q].token # NoOne
          => auth'[q].pc = auth[q].pc /\ auth'[q].token = auth[q].token
    /\ raced' = raced

LEMMA NoneRotatedKeeps ==
    ASSUME TypeOK, RotationInv, NoneRotated
    PROVE  RotationInv'
<1>0. /\ \A s \in Tokens : token[s].parent \in Tokens \cup {NoOne}
      /\ \A q \in Auths : auth[q].token \in Tokens \cup {NoOne}
      /\ NoOne \notin Tokens
  BY SessionsAssumption DEF TypeOK, SessionsTypeOK, TokenRow, AuthRequest
<1>1. \A t \in Tokens : Spent(t) => Spent(t)'
  BY DEF NoneRotated, Spent
<1>2. \A s, t \in Tokens : token'[s].parent = t => Spent(t)'
  BY <1>1 DEF NoneRotated, RotationInv
<1>3. \A q \in Auths, t \in Tokens : auth'[q].pc = "save" /\ auth'[q].token = t => Spent(t)'
  BY <1>0, <1>1 DEF NoneRotated, RotationInv
<1>4. \A t \in Tokens, q \in Auths : Holds(q, t)' => Holds(q, t)
  BY <1>0 DEF NoneRotated, Holds
<1>5. \A t \in Tokens \ raced', q \in Auths : Holds(q, t)' =>
          /\ \A p \in Auths : Holds(p, t)' => p = q
          /\ \A s \in Tokens : token'[s].parent # t
  BY <1>4 DEF NoneRotated, RotationInv
<1>6. RotatedOnce'
  BY DEF NoneRotated, RotationInv, RotatedOnce
<1> QED
  BY <1>2, <1>3, <1>5, <1>6 DEF RotationInv

LEMMA RefreshReadRotates ==
    ASSUME TypeOK, RotationInv, NEW r \in Auths, NEW t \in Tokens, RefreshRead(r, t)
    PROVE  RotationInv'
<1>0. /\ auth \in [Auths -> AuthRequest] /\ NoOne \notin Tokens /\ raced \subseteq Tokens
  BY SessionsAssumption DEF TypeOK, SessionsTypeOK
<1>1. /\ auth'[r].pc = "revoke" /\ auth'[r].token = t
      /\ \A q \in Auths \ {r} : auth'[q] = auth[q]
      /\ token' = token /\ token[t].state = "live"
      /\ raced' = IF \E q \in Auths : auth[q].pc = "revoke" /\ auth[q].token = t
                  THEN raced \cup {t} ELSE raced
  BY <1>0 DEF RefreshRead, Live
<1>2. \A s \in Tokens : token[s].parent # t
  BY <1>0, <1>1 DEF RotationInv, Spent
<1>3. t \notin raced' => \A q \in Auths : ~Holds(q, t)
  BY <1>0, <1>1 DEF RotationInv, Holds, Spent
<1>4. \A x \in Tokens, q \in Auths : Holds(q, x)' => Holds(q, x) \/ (q = r /\ x = t)
  BY <1>1 DEF Holds
<1>5. \A x \in Tokens \ raced', q \in Auths : Holds(q, x)' =>
          /\ \A p \in Auths : Holds(p, x)' => p = q
          /\ \A s \in Tokens : token'[s].parent # x
  <2> TAKE x \in Tokens \ raced', q \in Auths
  <2>1. x \notin raced
    BY <1>1
  <2>2. CASE x = t
    BY <1>1, <1>2, <1>3, <1>4, <2>2
  <2>3. CASE x # t
    BY <1>1, <1>4, <2>1, <2>3 DEF RotationInv
  <2> QED
    BY <2>2, <2>3
<1>6. RotatedOnce'
  BY <1>1 DEF RotationInv, RotatedOnce
<1>7. /\ \A s, x \in Tokens : token'[s].parent = x => Spent(x)'
      /\ \A q \in Auths, x \in Tokens :
            auth'[q].pc = "save" /\ auth'[q].token = x => Spent(x)'
  BY <1>1 DEF RotationInv, Spent
<1> QED
  BY <1>5, <1>6, <1>7 DEF RotationInv

LEMMA RefreshRevokeRotates ==
    ASSUME TypeOK, RotationInv, NEW r \in Auths, RefreshRevoke(r)
    PROVE  RotationInv'
<1>0. /\ auth \in [Auths -> AuthRequest] /\ token \in [Tokens -> TokenRow]
      /\ auth[r].pc = "revoke" /\ auth[r].token \in Tokens
      /\ \A s \in Tokens : token[s].parent \in Tokens \cup {NoOne}
      /\ \A q \in Auths : auth[q].token \in Tokens \cup {NoOne}
  BY DEF RefreshRevoke, TypeOK, SessionsTypeOK, AuthRequest, TokenRow
<1>1. PICK t \in Tokens : auth[r].token = t
  BY <1>0
<1>2. /\ auth'[r].pc = "save" /\ auth'[r].token = t
      /\ \A q \in Auths \ {r} : auth'[q] = auth[q]
      /\ raced' = raced
  BY <1>0, <1>1 DEF RefreshRevoke, History, AuthRequest
<1>3. /\ token'[t].state = "revoked"
      /\ \A x \in Tokens : token'[x].parent = token[x].parent
      /\ \A x \in Tokens \ {t} : token'[x].state = token[x].state
  BY <1>0, <1>1 DEF RefreshRevoke, TokenRow
<1>4. \A x \in Tokens : x = t \/ Spent(x) => Spent(x)'
  BY <1>3 DEF Spent
<1>5. \A s, x \in Tokens : token'[s].parent = x => Spent(x)'
  BY <1>0, <1>3, <1>4 DEF RotationInv
<1>6. \A q \in Auths, x \in Tokens : auth'[q].pc = "save" /\ auth'[q].token = x => Spent(x)'
  BY <1>0, <1>2, <1>4 DEF RotationInv
<1>7. \A x \in Tokens, q \in Auths : Holds(q, x)' => Holds(q, x)
  BY <1>0, <1>1, <1>2 DEF Holds
<1>8. \A x \in Tokens \ raced', q \in Auths : Holds(q, x)' =>
          /\ \A p \in Auths : Holds(p, x)' => p = q
          /\ \A s \in Tokens : token'[s].parent # x
  BY <1>2, <1>3, <1>7 DEF RotationInv
<1>9. RotatedOnce'
  BY <1>2, <1>3 DEF RotationInv, RotatedOnce
<1> QED
  BY <1>5, <1>6, <1>8, <1>9 DEF RotationInv

LEMMA SaveTokenRotates ==
    ASSUME TypeOK, RotationInv, NEW r \in Auths, NEW t \in Tokens, SaveRefreshToken(r, t)
    PROVE  RotationInv'
<1>0. /\ auth \in [Auths -> AuthRequest] /\ token \in [Tokens -> TokenRow]
      /\ NoOne \notin Tokens
      /\ auth[r].pc = "save" /\ token[t].state = "none"
      /\ \A s \in Tokens : token[s].parent \in Tokens \cup {NoOne}
      /\ \A q \in Auths : auth[q].token \in Tokens \cup {NoOne}
  BY SessionsAssumption DEF SaveRefreshToken, TypeOK, SessionsTypeOK, AuthRequest, TokenRow
<1>1. PICK p \in Tokens \cup {NoOne} : auth[r].token = p
  BY <1>0
<1>2. /\ auth'[r].pc = "idle" /\ \A q \in Auths \ {r} : auth'[q] = auth[q]
      /\ token'[t].parent = p /\ \A x \in Tokens \ {t} : token'[x] = token[x]
      /\ raced' = raced
  BY <1>0, <1>1, IdleTyped DEF SaveRefreshToken, AuthEnds, History
<1>3. \A x \in Tokens : Spent(x) => Spent(x)'
  BY <1>0, <1>2 DEF Spent
<1>4. p # NoOne => Spent(p)
  BY <1>0, <1>1 DEF RotationInv
<1>5. \A s, x \in Tokens : token'[s].parent = x => Spent(x)'
  BY <1>0, <1>2, <1>3, <1>4 DEF RotationInv
<1>6. \A q \in Auths, x \in Tokens : auth'[q].pc = "save" /\ auth'[q].token = x => Spent(x)'
  BY <1>0, <1>2, <1>3 DEF RotationInv
<1>7. \A x \in Tokens, q \in Auths : Holds(q, x)' => Holds(q, x) /\ q # r
  BY <1>2 DEF Holds
<1>8. p # NoOne => Holds(r, p)
  BY <1>0, <1>1 DEF Holds
<1>9. \A x \in Tokens \ raced', q \in Auths : Holds(q, x)' =>
          /\ \A o \in Auths : Holds(o, x)' => o = q
          /\ \A s \in Tokens : token'[s].parent # x
  <2> TAKE x \in Tokens \ raced', q \in Auths
  <2> HAVE Holds(q, x)'
  <2>1. Holds(q, x) /\ q # r /\ x \notin raced
    BY <1>2, <1>7
  <2>2. p # x
    BY <1>0, <1>8, <2>1 DEF RotationInv
  <2> QED
    BY <1>2, <1>7, <2>1, <2>2 DEF RotationInv
<1>10. RotatedOnce'
  <2> SUFFICES ASSUME NEW a \in Tokens, NEW b \in Tokens, a # b,
                      token'[a].parent = token'[b].parent, token'[a].parent # NoOne,
                      token'[a].parent \notin raced
               PROVE  FALSE
    BY <1>2 DEF RotatedOnce
  <2>1. CASE a # t /\ b # t
    BY <1>2, <2>1 DEF RotationInv, RotatedOnce
  <2>2. CASE a = t \/ b = t
    <3>1. p \in Tokens \ raced /\ Holds(r, p)
      BY <1>1, <1>2, <1>8, <2>2
    <3>2. \A s \in Tokens : token[s].parent # p
      BY <3>1 DEF RotationInv
    <3> QED
      BY <1>2, <2>2, <3>2
  <2> QED
    BY <2>1, <2>2
<1> QED
  BY <1>5, <1>6, <1>9, <1>10 DEF RotationInv

LEMMA AuthCallRotates ==
    ASSUME TypeOK, RotationInv, NEW r \in Auths, AuthCall(r)
    PROVE  RotationInv'
<1>0. auth \in [Auths -> AuthRequest] /\ token \in [Tokens -> TokenRow]
  BY DEF TypeOK, SessionsTypeOK
<1>1. \A q \in Auths \ {r} : auth'[q] = auth[q]
  BY CallBegins
<1>2. ASSUME NEW pc, NEW op, NEW i, Begins(r, pc, op, i) PROVE auth'[r].pc = pc
  BY <1>0, <1>2 DEF Begins, IdleAuth
<1>3. ASSUME NEW i \in Ids,
             VerifyBegin(r, i) \/ ResendBegin(r, i) \/ ForgotBegin(r, i) \/ ResetBegin(r, i)
      PROVE  NoneRotated
  <2>1. auth'[r].pc = "update"
    BY <1>2, <1>3 DEF VerifyBegin, ResendBegin, ForgotBegin, ResetBegin
  <2> QED
    BY <1>1, <1>3, <2>1 DEF VerifyBegin, ResendBegin, ForgotBegin, ResetBegin, NoneRotated,
       History, Spent
<1>4. ASSUME NEW t \in Tokens, ChangeBegin(r, t) PROVE NoneRotated
  <2>1. auth'[r].pc = "update"
    BY <1>2, <1>4 DEF ChangeBegin
  <2> QED
    BY <1>1, <1>4, <2>1 DEF ChangeBegin, NoneRotated, History, Spent
<1>5. ASSUME NEW t \in Tokens, LogoutBegin(r, t) PROVE NoneRotated
  <2>1. auth'[r].pc = "revokeAll"
    BY <1>2, <1>5 DEF LogoutBegin
  <2>2. \A x \in Tokens : token'[x].state = token[x].state /\ token'[x].parent = token[x].parent
    BY <1>0, <1>5 DEF LogoutBegin, TokenRow
  <2> QED
    BY <1>1, <1>5, <2>1, <2>2 DEF LogoutBegin, NoneRotated, History, Spent
<1>6. ASSUME NEW i \in Ids, Login(r, i) PROVE NoneRotated
  <2>1. auth'[r].token = NoOne
    BY <1>0, <1>6 DEF Login, IdleAuth
  <2> QED
    BY <1>1, <1>6, <2>1 DEF Login, NoneRotated, History, Spent
<1> QED
  BY <1>3, <1>4, <1>5, <1>6, NoneRotatedKeeps, RefreshReadRotates DEF AuthCall

LEMMA AuthStepRotates ==
    ASSUME TypeOK, RotationInv, NEW r \in Auths, AuthStep(r)
    PROVE  RotationInv'
<1>0. auth \in [Auths -> AuthRequest] /\ token \in [Tokens -> TokenRow]
  BY DEF TypeOK, SessionsTypeOK
<1>1. ASSUME AuthEnds(r), token' = token, raced' = raced PROVE NoneRotated
  BY <1>0, <1>1, IdleTyped DEF AuthEnds, NoneRotated, Spent
<1>2. CASE RevokeAll(r)
  <2>1. \A x \in Tokens : /\ token'[x].parent = token[x].parent
                          /\ token'[x].state \in {token[x].state, "revoked"}
    BY <1>0, <1>2 DEF RevokeAll, TokenRow
  <2>2. \A q \in Auths : auth'[q].pc # "idle" =>
           auth'[q].pc = auth[q].pc /\ auth'[q].token = auth[q].token
    BY <1>0, <1>2, IdleTyped DEF RevokeAll, AuthRequest
  <2>3. NoneRotated
    BY <1>2, <2>1, <2>2 DEF RevokeAll, History, NoneRotated, Spent
  <2> QED
    BY <2>3, NoneRotatedKeeps
<1>3. CASE ResetWrite(r)
  <2>1. auth'[r].pc = "revokeAll" /\ \A q \in Auths \ {r} : auth'[q] = auth[q]
    BY <1>0, <1>3 DEF ResetWrite, AuthRequest
  <2>2. NoneRotated
    BY <1>3, <2>1 DEF ResetWrite, Updates, History, NoneRotated, Spent
  <2> QED
    BY <2>2, NoneRotatedKeeps
<1>4. CASE VerifyWrite(r) \/ ResendWrite(r) \/ ForgotWrite(r) \/ ChangeWrite(r) \/ AuthFail(r)
  <2>1. NoneRotated
    BY <1>1, <1>4 DEF VerifyWrite, ResendWrite, ForgotWrite, ChangeWrite, AuthFail, Updates,
       History
  <2> QED
    BY <2>1, NoneRotatedKeeps
<1> QED
  BY <1>2, <1>3, <1>4, RefreshRevokeRotates, SaveTokenRotates DEF AuthStep

LEMMA RotationInductive ==
    ASSUME TypeOK, RotationInv, [Next]_vars
    PROVE  RotationInv'
<1>1. ASSUME UNCHANGED sessionVars PROVE RotationInv'
  BY <1>1 DEF sessionVars, RotationInv, Holds, Spent, RotatedOnce
<1>2. ASSUME NEW t \in Tokens, TokenExpires(t) PROVE RotationInv'
  <2>1. \A x \in Tokens : /\ token'[x].parent = token[x].parent
                          /\ Spent(x) => token'[x].state = token[x].state
    BY <1>2 DEF TokenExpires, Spent, TypeOK, SessionsTypeOK, TokenRow
  <2>2. NoneRotated
    BY <1>2, <2>1 DEF TokenExpires, NoneRotated, History, Spent
  <2> QED
    BY <2>2, NoneRotatedKeeps
<1>3. CASE UNCHANGED vars
  BY <1>1, <1>3 DEF vars
<1>4. CASE Call
  BY <1>1, <1>4, AuthCallRotates DEF Call, OnlyUsers, OnlyDirectory, OnlySearch
<1>5. CASE Progress
  BY <1>1, <1>2, <1>5, AuthStepRotates DEF Progress, OnlyUsers, OnlyDirectory, OnlySearch
<1>6. CASE OnlySearch
  BY <1>1, <1>6 DEF OnlySearch
<1> QED
  BY <1>3, <1>4, <1>5, <1>6 DEF Next

LEMMA RotationStart == Init => RotationInv
<1> SUFFICES ASSUME Init PROVE RotationInv
  OBVIOUS
<1>1. NoOne \notin Tokens
  BY SessionsAssumption
<1>2. \A t \in Tokens : token[t].parent = NoOne
  BY DEF Init, SessionsInit, NoToken
<1>3. \A q \in Auths : auth[q].pc = "idle"
  BY DEF Init, SessionsInit, IdleAuth
<1> QED
  BY <1>1, <1>2, <1>3 DEF RotationInv, Holds, RotatedOnce
=============================================================================
