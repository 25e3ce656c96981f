------------------------------ MODULE Sessions ------------------------------
(***************************************************************************)
(* Who is logged in: refresh tokens, passwords and the links that replace  *)
(* them.  A call of AuthService is a request that makes one statement at a *)
(* time.                                                                   *)
(***************************************************************************)
EXTENDS Users

CONSTANTS
    Tokens,         \* ids of refresh tokens
    KnownSession,   \* user of the tokens issued long ago, or NoOne
    Auths           \* requests of AuthService

ASSUME SessionsAssumption ==
    /\ KnownSession \in [Tokens -> Ids \cup {NoOne}]
    /\ \A t \in Tokens : KnownSession[t] # NoOne => KnownRole[KnownSession[t]] # "none"
    /\ NoOne \notin Tokens

VARIABLES
    token,      \* token[t]: the row of refresh_tokens, and its access token
    auth,       \* auth[r]: a call in progress
    byChange,   \* history: the passwords set by changePassword
    unrevoked,  \* history: the passwords set by a reset that then broke off
    raced       \* history: tokens that two calls were refreshing at once

sessionVars == <<token, auth, byChange, unrevoked, raced>>

\* A pair of a refresh token and the access token issued with it.  pw is the
\* password its user had logged in with, parent the token it replaces;
\* overtaken (history): it, or a token before it, was on its way while all
\* tokens of the user were revoked.
TokenRow == [state: {"none", "live", "revoked", "expired"},
             user: Ids \cup {NoOne}, pw: Nat, parent: Tokens \cup {NoOne},
             blacklisted: BOOLEAN, overtaken: BOOLEAN]

NoToken == [state |-> "none", user |-> NoOne, pw |-> 0, parent |-> NoOne,
            blacklisted |-> FALSE, overtaken |-> FALSE]

\* What a request does next: revoke the token it read, save a new one, update
\* the user's row, or revoke all tokens of the user.
AuthPc == {"idle", "revoke", "save", "update", "revokeAll"}

\* The calls that read a user and then update its row.
UserOps == {"verify", "resend", "forgot", "reset", "change"}

AuthRequest == [pc: AuthPc, op: UserOps \cup {"none", "token", "logout"},
                user: Ids \cup {NoOne}, pw: Nat, token: Tokens \cup {NoOne},
                overtaken: BOOLEAN]

IdleAuth == [pc |-> "idle", op |-> "none", user |-> NoOne, pw |-> 0,
             token |-> NoOne, overtaken |-> FALSE]

SessionsTypeOK ==
    /\ token \in [Tokens -> TokenRow]
    /\ auth \in [Auths -> AuthRequest]
    /\ byChange \subseteq Ids \X Nat
    /\ unrevoked \subseteq Ids \X Nat
    /\ raced \subseteq Tokens
    /\ \A r \in Auths : auth[r].pc # "idle" => auth[r].user \in Ids
    /\ \A t \in Tokens : token[t].state # "none" => token[t].user \in Ids
    /\ \A r \in Auths : auth[r].pc = "revoke" => /\ auth[r].token \in Tokens
                                                /\ token[auth[r].token].state # "none"

\* Deleting a user deletes its tokens.
Live(t) == token[t].state = "live" /\ Stored(token[t].user)

\* JwtAuthGuard: the access token of the pair is accepted.
Accepted(t) ==
    /\ token[t].state # "none"
    /\ ~token[t].blacklisted
    /\ Admitted(token[t].user)

-----------------------------------------------------------------------------
SessionsInit ==
    /\ token = [t \in Tokens |->
                  IF KnownSession[t] = NoOne THEN NoToken
                  ELSE [NoToken EXCEPT !.state = "live", !.user = KnownSession[t]]]
    /\ auth = [r \in Auths |-> IdleAuth]
    /\ byChange = {}
    /\ unrevoked = {}
    /\ raced = {}

\* Request r begins for user i.
Begins(r, pc, op, i) ==
    /\ auth[r].pc = "idle"
    /\ auth' = [auth EXCEPT ![r] = [IdleAuth EXCEPT !.pc = pc, !.op = op, !.user = i]]

AuthEnds(r) == auth' = [auth EXCEPT ![r] = IdleAuth]

History == <<byChange, unrevoked, raced>>

-----------------------------------------------------------------------------
(* login and refreshToken *)

\* validateUser has found the user and compared the password.  The time of
\* the last login, saved after the token, has no reader.
Login(r, i) ==
    /\ auth[r].pc = "idle"
    /\ Admitted(i)
    /\ auth' = [auth EXCEPT ![r] = [IdleAuth EXCEPT !.pc = "save",
                   !.op = "token", !.user = i, !.pw = user[i].pw]]
    /\ UNCHANGED <<usersVars, token, History>>

RefreshRead(r, t) ==
    /\ auth[r].pc = "idle"
    /\ Live(t)
    /\ user[token[t].user].isActive
    /\ auth' = [auth EXCEPT ![r] = [pc |-> "revoke", op |-> "token",
                   user |-> token[t].user, pw |-> token[t].pw, token |-> t,
                   overtaken |-> token[t].overtaken]]
    /\ raced' = IF \E q \in Auths : auth[q].pc = "revoke" /\ auth[q].token = t
                THEN raced \cup {t} ELSE raced
    /\ UNCHANGED <<usersVars, token, byChange, unrevoked>>

RefreshRevoke(r) ==
    /\ auth[r].pc = "revoke"
    /\ token' = [token EXCEPT ![auth[r].token].state = "revoked"]
    /\ auth' = [auth EXCEPT ![r].pc = "save"]
    /\ UNCHANGED <<usersVars, History>>

\* saveRefreshToken: the foreign key asks for the user.
SaveRefreshToken(r, t) ==
    /\ auth[r].pc = "save"
    /\ Stored(auth[r].user)
    /\ token[t].state = "none"
    /\ token' = [token EXCEPT ![t] = [state |-> "live", user |-> auth[r].user,
                   pw |-> auth[r].pw, parent |-> auth[r].token,
                   blacklisted |-> FALSE, overtaken |-> auth[r].overtaken]]
    /\ AuthEnds(r)
    /\ UNCHANGED <<usersVars, History>>

\* refresh_tokens.expires_at
TokenExpires(t) ==
    /\ token[t].state = "live"
    /\ token' = [token EXCEPT ![t].state = "expired"]
    /\ UNCHANGED <<usersVars, auth, History>>

-----------------------------------------------------------------------------
(* logout: the access token is blacklisted in Redis, then all refresh      *)
(* tokens of the user are revoked.                                         *)

LogoutBegin(r, t) ==
    /\ Accepted(t)
    /\ Begins(r, "revokeAll", "logout", token[t].user)
    /\ token' = [token EXCEPT ![t].blacklisted = TRUE]
    /\ UNCHANGED <<usersVars, History>>

\* Issues a token for user i.
Issuing(q, i) == auth[q].op = "token" /\ auth[q].user = i

RevokeAll(r) ==
    LET i == auth[r].user IN
    /\ auth[r].pc = "revokeAll"
    /\ token' = [t \in Tokens |->
                   IF token[t].user = i /\ token[t].state = "live"
                   THEN [token[t] EXCEPT !.state = "revoked"] ELSE token[t]]
    /\ auth' = [q \in Auths |->
                   IF q = r THEN IdleAuth
                   ELSE IF Issuing(q, i)
                   THEN [auth[q] EXCEPT !.overtaken = TRUE] ELSE auth[q]]
    /\ UNCHANGED <<usersVars, History>>

-----------------------------------------------------------------------------
(* verifyEmail, resendVerificationEmail, forgotPassword, resetPassword and  *)
(* changePassword: a SELECT and an UPDATE of the user.                      *)

VerifyBegin(r, i) ==
    /\ Stored(i) /\ user[i].verification = "mailed"
    /\ Begins(r, "update", "verify", i)
    /\ UNCHANGED <<usersVars, token, History>>

ResendBegin(r, i) ==
    /\ Stored(i) /\ ~user[i].emailVerified
    /\ Begins(r, "update", "resend", i)
    /\ UNCHANGED <<usersVars, token, History>>

ForgotBegin(r, i) ==
    /\ Stored(i)
    /\ Begins(r, "update", "forgot", i)
    /\ UNCHANGED <<usersVars, token, History>>

ResetBegin(r, i) ==
    /\ Stored(i) /\ user[i].reset = "mailed"
    /\ Begins(r, "update", "reset", i)
    /\ UNCHANGED <<usersVars, token, History>>

\* The caller gives the current password.
ChangeBegin(r, t) ==
    /\ Accepted(t)
    /\ Begins(r, "update", "change", token[t].user)
    /\ UNCHANGED <<usersVars, token, History>>

\* Request r, a call of op, updates the row of its user, if there is one.
Updates(r, op, columns) ==
    /\ auth[r].pc = "update" /\ auth[r].op = op
    /\ user' = IF Stored(auth[r].user)
               THEN [user EXCEPT ![auth[r].user] = columns] ELSE user
    /\ UNCHANGED <<Tables, reg, halfway, token>>

VerifyWrite(r) ==
    /\ Updates(r, "verify", [user[auth[r].user] EXCEPT
                 !.emailVerified = TRUE, !.verification = "none"])
    /\ AuthEnds(r)
    /\ UNCHANGED History

\* Nothing listens to user.verification_resend: the new link is not mailed.
ResendWrite(r) ==
    /\ Updates(r, "resend", [user[auth[r].user] EXCEPT !.verification = "made"])
    /\ AuthEnds(r)
    /\ UNCHANGED History

ForgotWrite(r) ==
    /\ Updates(r, "forgot", [user[auth[r].user] EXCEPT !.reset = "asked"])
    /\ AuthEnds(r)
    /\ UNCHANGED History

\* Mutant: the refresh tokens are not revoked.
ResetOnly(r) ==
    LET u == user[auth[r].user] IN
    /\ Updates(r, "reset", [u EXCEPT !.pw = u.pw + 1, !.reset = "none"])
    /\ AuthEnds(r)
    /\ UNCHANGED History

\* pw of the request is the password it has set.
ResetWrite(r) ==
    LET u == user[auth[r].user] IN
    /\ Updates(r, "reset", [u EXCEPT !.pw = u.pw + 1, !.reset = "none"])
    /\ auth' = [auth EXCEPT ![r] = [auth[r] EXCEPT !.pc = "revokeAll",
                                                  !.pw = u.pw + 1]]
    /\ UNCHANGED History

\* changePassword revokes no token.
ChangeWrite(r) ==
    LET u == user[auth[r].user] IN
    /\ Updates(r, "change", [u EXCEPT !.pw = u.pw + 1])
    /\ AuthEnds(r)
    /\ byChange' = byChange \cup {<<auth[r].user, u.pw + 1>>}
    /\ UNCHANGED <<unrevoked, raced>>

\* A statement of the request fails, or the server stops.
AuthFail(r) ==
    /\ auth[r].pc # "idle"
    /\ AuthEnds(r)
    /\ unrevoked' = IF auth[r].pc = "revokeAll" /\ auth[r].op = "reset"
                    THEN unrevoked \cup {<<auth[r].user, auth[r].pw>>}
                    ELSE unrevoked
    /\ UNCHANGED <<usersVars, token, byChange, raced>>

AuthCall(r) ==
    \/ \E i \in Ids : \/ Login(r, i)
                      \/ VerifyBegin(r, i) \/ ResendBegin(r, i)
                      \/ ForgotBegin(r, i) \/ ResetBegin(r, i)
    \/ \E t \in Tokens : RefreshRead(r, t) \/ LogoutBegin(r, t) \/ ChangeBegin(r, t)

AuthStep(r) ==
    \/ RefreshRevoke(r)
    \/ \E t \in Tokens : SaveRefreshToken(r, t)
    \/ RevokeAll(r)
    \/ VerifyWrite(r) \/ ResendWrite(r) \/ ForgotWrite(r)
    \/ ResetWrite(r) \/ ChangeWrite(r)
    \/ AuthFail(r)

-----------------------------------------------------------------------------
(* Properties *)

\* Whether user i got its password v without its tokens being revoked (yet).
Spared(i, v) ==
    \/ <<i, v>> \in byChange \cup unrevoked
    \/ \E r \in Auths : /\ auth[r].pc = "revokeAll" /\ auth[r].op = "reset"
                        /\ auth[r].user = i /\ auth[r].pw = v

\* resetPassword leaves no refresh token to who logged in with the password it
\* replaces: one is live only until the reset has revoked the tokens, if that
\* broke off, or if it was on its way at that moment.  This is of refresh
\* tokens alone.  The access token issued with one stays Accepted until it
\* expires, for a reset blacklists nothing; and changePassword revokes nothing.
ResetRevokesRefresh ==
    \A t \in Tokens :
        Live(t) /\ ~token[t].overtaken
            => \A v \in token[t].pw + 1 .. user[token[t].user].pw :
                   Spared(token[t].user, v)

\* A refresh token is replaced once, unless two calls that hold it overlap.
RotatedOnce ==
    \A s, t \in Tokens :
        s # t /\ token[s].parent = token[t].parent /\ token[s].parent # NoOne
            => token[s].parent \in raced
=============================================================================
