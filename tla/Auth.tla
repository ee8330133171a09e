-------------------------------- MODULE Auth --------------------------------
(***************************************************************************)
(* Auth service: users, the single-use tokens sent to them by e-mail,      *)
(* refresh-token sessions and access tokens.                               *)
(*                                                                         *)
(* No handler locks a row: it reads, spends its time on hashing, and       *)
(* commits.  What it commits are the columns whose values it changed, not  *)
(* the rows it read.  So a request is a step that reads and checks and a   *)
(* step that commits; requests that are refused change nothing and are     *)
(* left out, and so are audit events and tokens for services, which leave  *)
(* users alone.                                                            *)
(*                                                                         *)
(* A user stands for the e-mail address, which is unique; the role is      *)
(* chosen once, by the constant Sellers of Profiles.                       *)
(***************************************************************************)
EXTENDS Naturals, FiniteSets

CONSTANTS
  Users,
  Passwords,
  Tokens,    \* verification_tokens and password_reset_tokens
  Sessions,  \* refresh_tokens
  Requests,  \* requests that are under way at once
  MaxFailed  \* max_failed_login_attempts

ASSUME MaxFailedAssumption == MaxFailed \in Nat \ {0}

VARIABLES
  user,     \* users
  token,    \* tokens, and whether the mail that carries them arrived
  session,  \* refresh-token sessions
  access,   \* users who hold an access token that is valid
  call      \* what each request has read and will write

authVars == <<user, token, session, access, call>>

Locks == {"none", "running", "over"}

UserRows == [password : Passwords, verified : BOOLEAN, active : BOOLEAN, failed : Nat, lock : Locks]

TokenRows == [kind : {"verify", "reset"}, user : Users, used : BOOLEAN, expired : BOOLEAN,
              known : BOOLEAN]

SessionRows == [user : Users, revoked : BOOLEAN, expired : BOOLEAN]

NoUser    == [failed |-> 0]
NoToken   == [used |-> TRUE]
NoSession == [revoked |-> TRUE]
Idle      == [op |-> "idle"]

Calls == {Idle}
  \union [op : {"mail"}, token : Tokens]
  \union [op : {"verify"}, user : Users, token : Tokens, saw : UserRows]
  \union [op : {"resend", "forgot"}, user : Users, seen : SUBSET Tokens]
  \union [op : {"login"}, user : Users, password : Passwords, saw : UserRows]
  \union [op : {"refresh"}, session : Sessions]
  \union [op : {"reset"}, user : Users, token : Tokens, password : Passwords, saw : UserRows,
          seen : SUBSET Sessions]
  \union [op : {"change"}, user : Users, password : Passwords, saw : UserRows,
          seen : SUBSET Sessions]

AuthTypeOK ==
  /\ user    \in [Users -> UserRows \union {NoUser}]
  /\ token   \in [Tokens -> TokenRows \union {NoToken}]
  /\ session \in [Sessions -> SessionRows \union {NoSession}]
  /\ access  \in SUBSET Users
  /\ call    \in [Requests -> Calls]

-----------------------------------------------------------------------------
Registered(u) == user[u] # NoUser
Fresh(t)      == token[t] = NoToken
Unmade(s)     == session[s] = NoSession

\* Ids are random: one that was never used.
FreshToken   == CHOOSE t \in Tokens : Fresh(t)
FreshSession == CHOOSE s \in Sessions : Unmade(s)
TokensLeft   == \E t \in Tokens : Fresh(t)
SessionsLeft == \E s \in Sessions : Unmade(s)

\* The tokens of a kind, and the sessions, that an UPDATE of a user's rows finds.
UnusedTokens(u, kind) == {t \in Tokens : ~token[t].used /\ token[t].user = u /\ token[t].kind = kind}
LiveSessions(u) == {s \in Sessions : ~session[s].revoked /\ session[s].user = u}

\* The UPDATE runs between the read and the commit: it finds the rows of the
\* read, and any of those that were added since.
Reaches(seen, now) == {rows \in SUBSET now : seen \intersect now \subseteq rows}

\* Mutant: the whole row is written back.
FlushAll(row, saw, new) == new

\* A commit writes the columns that differ from what was read.
Flush(row, saw, new) == [c \in DOMAIN row |-> IF new[c] = saw[c] THEN row[c] ELSE new[c]]

Usable(t, kind) ==
  /\ ~Fresh(t)
  /\ token[t].kind = kind /\ token[t].known
  /\ ~token[t].used /\ ~token[t].expired

NewToken(kind, u) ==
  [kind |-> kind, user |-> u, used |-> FALSE, expired |-> FALSE, known |-> FALSE]

NewSession(u) == [user |-> u, revoked |-> FALSE, expired |-> FALSE]

\* Access tokens live on their own: nothing but time ends them.
SignedIn(u) == u \in access /\ user[u].active

Begin(r, c) ==
  /\ call[r] = Idle
  /\ call' = [call EXCEPT ![r] = c]

Answer(r) == call' = [call EXCEPT ![r] = Idle]

\* The mail is asked for after the commit.
ThenMail(r, t) == call' = [call EXCEPT ![r] = [op |-> "mail", token |-> t]]

-----------------------------------------------------------------------------
AuthInit ==
  /\ user    = [u \in Users |-> NoUser]
  /\ token   = [t \in Tokens |-> NoToken]
  /\ session = [s \in Sessions |-> NoSession]
  /\ access  = {}
  /\ call    = [r \in Requests |-> Idle]

\* The unique index on the address leaves one registration.
Register(r, u, p) ==
  LET t == FreshToken IN
  /\ call[r] = Idle
  /\ ~Registered(u) /\ TokensLeft
  /\ user'  = [user EXCEPT ![u] = [password |-> p, verified |-> FALSE, active |-> TRUE,
                                   failed |-> 0, lock |-> "none"]]
  /\ token' = [token EXCEPT ![t] = NewToken("verify", u)]
  /\ ThenMail(r, t)
  /\ UNCHANGED <<session, access>>

\* Best effort: Notification takes the mail, or it is lost and only logged.
SendMail(r) ==
  /\ call[r].op = "mail"
  /\ \/ token' = [token EXCEPT ![call[r].token].known = TRUE]
     \/ token' = token
  /\ Answer(r)
  /\ UNCHANGED <<user, session, access>>

AskToVerify(r, t) ==
  /\ Usable(t, "verify")
  /\ Begin(r, [op |-> "verify", user |-> token[t].user, token |-> t, saw |-> user[token[t].user]])
  /\ UNCHANGED <<user, token, session, access>>

VerifyEmail(r) ==
  LET c == call[r] IN
  /\ c.op = "verify"
  /\ user'  = [user EXCEPT ![c.user] = Flush(@, c.saw, [c.saw EXCEPT !.verified = TRUE])]
  /\ token' = [token EXCEPT ![c.token].used = TRUE]
  /\ Answer(r)
  /\ UNCHANGED <<session, access>>

AskToResend(r, u) ==
  /\ Registered(u) /\ ~user[u].verified
  /\ Begin(r, [op |-> "resend", user |-> u, seen |-> UnusedTokens(u, "verify")])
  /\ UNCHANGED <<user, token, session, access>>

\* The unused tokens of the kind are used up, and a new one takes their place.
ReplaceTokens(r, kind) ==
  LET c == call[r]
      t == FreshToken IN
  /\ TokensLeft
  /\ \E old \in Reaches(c.seen, UnusedTokens(c.user, kind)) :
       token' = [x \in Tokens |->
         IF x = t THEN NewToken(kind, c.user)
         ELSE IF x \in old THEN [token[x] EXCEPT !.used = TRUE] ELSE token[x]]
  /\ ThenMail(r, t)
  /\ UNCHANGED <<user, session, access>>

ResendVerification(r) == call[r].op = "resend" /\ ReplaceTokens(r, "verify")

-----------------------------------------------------------------------------
\* A lock that has run out is taken off, with the count behind it.
Unlocked(row) == IF row.lock = "over" THEN [row EXCEPT !.lock = "none", !.failed = 0] ELSE row

AskToLogin(r, u, p) ==
  /\ Registered(u) /\ user[u].lock # "running"
  /\ p = user[u].password => user[u].active /\ user[u].verified
  /\ Begin(r, [op |-> "login", user |-> u, password |-> p, saw |-> user[u]])
  /\ UNCHANGED <<user, token, session, access>>

LoginFails(r) ==
  LET c == call[r]
      n == Unlocked(c.saw).failed + 1
      new == [Unlocked(c.saw) EXCEPT !.failed = n, !.lock = IF n >= MaxFailed THEN "running" ELSE @] IN
  /\ c.op = "login" /\ c.password # c.saw.password
  /\ user' = [user EXCEPT ![c.user] = Flush(@, c.saw, new)]
  /\ Answer(r)
  /\ UNCHANGED <<token, session, access>>

LoginSucceeds(r) ==
  LET c == call[r] IN
  /\ c.op = "login" /\ c.password = c.saw.password
  /\ SessionsLeft
  /\ user' = [user EXCEPT ![c.user] =
       Flush(@, c.saw, [c.saw EXCEPT !.failed = 0, !.lock = "none"])]
  /\ session' = [session EXCEPT ![FreshSession] = NewSession(c.user)]
  /\ access'  = access \union {c.user}
  /\ Answer(r)
  /\ UNCHANGED token

AskToRefresh(r, s) ==
  /\ ~Unmade(s) /\ ~session[s].revoked /\ ~session[s].expired
  /\ user[session[s].user].active
  /\ Begin(r, [op |-> "refresh", session |-> s])
  /\ UNCHANGED <<user, token, session, access>>

\* The old session ends and the new one starts in one commit; another refresh
\* of the old one may have read it too.
Refresh(r) ==
  LET old == call[r].session IN
  /\ call[r].op = "refresh"
  /\ SessionsLeft
  /\ session' = [session EXCEPT ![old].revoked = TRUE, ![FreshSession] = NewSession(session[old].user)]
  /\ access'  = access \union {session[old].user}
  /\ Answer(r)
  /\ UNCHANGED <<user, token>>

Revoke(s) ==
  /\ ~Unmade(s) /\ ~session[s].revoked
  /\ session' = [session EXCEPT ![s].revoked = TRUE]
  /\ UNCHANGED <<user, token, access, call>>

\* To log out takes the refresh token, which must not have expired; to revoke one
\* session of the list, expired or not, takes an access token.
Logout(s) == Revoke(s) /\ ~session[s].expired

RevokeSession(s) == ~Unmade(s) /\ SignedIn(session[s].user) /\ Revoke(s)

-----------------------------------------------------------------------------
AskForReset(r, u) ==
  /\ Registered(u) /\ user[u].active
  /\ Begin(r, [op |-> "forgot", user |-> u, seen |-> UnusedTokens(u, "reset")])
  /\ UNCHANGED <<user, token, session, access>>

ForgotPassword(r) == call[r].op = "forgot" /\ ReplaceTokens(r, "reset")

AskToReset(r, t, p) ==
  LET u == token[t].user IN
  /\ Usable(t, "reset")
  /\ user[u].active /\ p # user[u].password
  /\ Begin(r, [op |-> "reset", user |-> u, token |-> t, password |-> p, saw |-> user[u],
               seen |-> LiveSessions(u)])
  /\ UNCHANGED <<user, token, session, access>>

\* The current password is asked for again; the new one differs from it.
AskToChange(r, u, p) ==
  /\ SignedIn(u)
  /\ p # user[u].password
  /\ Begin(r, [op |-> "change", user |-> u, password |-> p, saw |-> user[u],
               seen |-> LiveSessions(u)])
  /\ UNCHANGED <<user, token, session, access>>

\* The password is replaced, the account unlocked and its sessions revoked.
SetPassword(r) ==
  LET c == call[r] IN
  /\ user' = [user EXCEPT ![c.user] = Flush(@, c.saw,
       [c.saw EXCEPT !.password = c.password, !.failed = 0, !.lock = "none"])]
  /\ \E ended \in Reaches(c.seen, LiveSessions(c.user)) :
       session' = [s \in Sessions |->
         IF s \in ended THEN [session[s] EXCEPT !.revoked = TRUE] ELSE session[s]]
  /\ Answer(r)
  /\ UNCHANGED access

ResetPassword(r) ==
  /\ call[r].op = "reset"
  /\ token' = [token EXCEPT ![call[r].token].used = TRUE]
  /\ SetPassword(r)

ChangePassword(r) ==
  /\ call[r].op = "change"
  /\ SetPassword(r)
  /\ UNCHANGED token

-----------------------------------------------------------------------------
\* The process or the database stops: what was not committed is forgotten.
Abandon(r) ==
  /\ call[r] # Idle
  /\ Answer(r)
  /\ UNCHANGED <<user, token, session, access>>

\* An operator switches a user off or on; no handler does.
SwitchUser(u) ==
  /\ Registered(u)
  /\ user' = [user EXCEPT ![u].active = ~@]
  /\ UNCHANGED <<token, session, access, call>>

LockRunsOut(u) ==
  /\ Registered(u) /\ user[u].lock = "running"
  /\ user' = [user EXCEPT ![u].lock = "over"]
  /\ UNCHANGED <<token, session, access, call>>

TokenExpires(t) ==
  /\ ~token[t].used /\ ~token[t].expired
  /\ token' = [token EXCEPT ![t].expired = TRUE]
  /\ UNCHANGED <<user, session, access, call>>

SessionExpires(s) ==
  /\ ~session[s].revoked /\ ~session[s].expired
  /\ session' = [session EXCEPT ![s].expired = TRUE]
  /\ UNCHANGED <<user, token, access, call>>

AccessExpires(u) ==
  /\ u \in access
  /\ access' = access \ {u}
  /\ UNCHANGED <<user, token, session, call>>

AuthAsks == \E r \in Requests :
  \/ \E u \in Users : AskToResend(r, u) \/ AskForReset(r, u)
  \/ \E u \in Users, p \in Passwords : Register(r, u, p) \/ AskToLogin(r, u, p) \/ AskToChange(r, u, p)
  \/ \E t \in Tokens : AskToVerify(r, t)
  \/ \E t \in Tokens, p \in Passwords : AskToReset(r, t, p)
  \/ \E s \in Sessions : AskToRefresh(r, s)

AuthCommits == \E r \in Requests :
  \/ SendMail(r) \/ VerifyEmail(r) \/ ResendVerification(r)
  \/ LoginFails(r) \/ LoginSucceeds(r) \/ Refresh(r)
  \/ ForgotPassword(r) \/ ResetPassword(r) \/ ChangePassword(r)
  \/ Abandon(r)

AuthPasses ==
  \/ \E s \in Sessions : Logout(s) \/ RevokeSession(s) \/ SessionExpires(s)
  \/ \E u \in Users : SwitchUser(u) \/ LockRunsOut(u) \/ AccessExpires(u)
  \/ \E t \in Tokens : TokenExpires(t)

-----------------------------------------------------------------------------
\* Sessions and access tokens are given to users whose address is verified.
HoldersAreVerified ==
  /\ \A s \in Sessions : ~Unmade(s) => user[session[s].user].verified
  /\ \A u \in access : user[u].verified

\* Requests race with what they read, and a commit writes over it.  Even so no
\* commit takes back what another one did: a verified address stays verified, a
\* used token used and a revoked session revoked, and the password is replaced
\* only by a request to do so, together with the end of every session that the
\* request found.
NothingTakenBack ==
  [][/\ \A u \in Users : Registered(u) =>
          /\ user[u].verified => user'[u].verified
          /\ user'[u].password # user[u].password =>
               \E r \in Requests :
                 /\ call[r].op \in {"reset", "change"}
                 /\ call[r].user = u /\ call[r].password = user'[u].password
                 /\ \A s \in call[r].seen : session'[s].revoked
     /\ \A t \in Tokens : ~Fresh(t) /\ token[t].used => token'[t].used
     /\ \A s \in Sessions : ~Unmade(s) /\ session[s].revoked => session'[s].revoked]_authVars

=============================================================================
