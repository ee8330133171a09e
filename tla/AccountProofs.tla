--------------------------- MODULE AccountProofs ---------------------------
(***************************************************************************)
(* What the Auth service and the User service keep, each and together, for *)
(* any users, tokens, sessions, addresses, keys and settings and any       *)
(* number of requests at a time.                                           *)
(*                                                                         *)
(* Every step of the Auth service makes its tables grow (Grows): no row is *)
(* deleted, changes its owner, or loses a mark it has.  So what a request  *)
(* found when it read is still there when it commits (CallOK), which is    *)
(* all it needs; that a commit writes changed columns only (FlushedUser)   *)
(* keeps it from undoing what was committed in between.                    *)
(*                                                                         *)
(* A request of the User service relies on little between its read and its *)
(* commit (EditOK): the row it read is compared again by its version, so   *)
(* Store and Write change a row that is still the one that was read.  Its  *)
(* tables only grow too (Extends), which is why a step of one service      *)
(* keeps the invariant of the other.                                       *)
(***************************************************************************)
EXTENDS Profiles, FiniteSetTheorems, TLAPS

-----------------------------------------------------------------------------
(***************************************************************************)
(* The Auth service.  AuthInv is inductive.                                *)
(***************************************************************************)

\* What a request may rely on between its read and its commit: the rows it
\* found are still those of its user, and who gave the right password had a
\* verified address.
CallOK(c) ==
  /\ c.op \in {"verify", "resend", "forgot", "login", "reset", "change"} => Registered(c.user)
  /\ c.op \in {"mail", "verify", "reset"} => ~Fresh(c.token)
  /\ c.op = "refresh" => ~Unmade(c.session)
  /\ c.op = "login" /\ c.password = c.saw.password => user[c.user].verified
  /\ c.op \in {"reset", "change"} =>
       \A s \in c.seen : ~Unmade(s) /\ session[s].user = c.user

CallsOK == \A r \in Requests : CallOK(call[r])

\* Rows belong to registered users, those of holders to verified ones.
Owned ==
  /\ \A t \in Tokens : ~Fresh(t) => Registered(token[t].user)
  /\ \A s \in Sessions : ~Unmade(s) => Registered(session[s].user)
  /\ \A u \in access : Registered(u)

RowTypes ==
  /\ user    \in [Users -> UserRows \union {NoUser}]
  /\ token   \in [Tokens -> TokenRows \union {NoToken}]
  /\ session \in [Sessions -> SessionRows \union {NoSession}]
  /\ access  \in SUBSET Users

RowInv  == RowTypes /\ Owned /\ HoldersAreVerified
CallInv == call \in [Requests -> Calls] /\ CallsOK
AuthInv == RowInv /\ CallInv

\* Rows are never deleted, nor given to others, nor taken back.
UsersGrow ==
  \A u \in Users : Registered(u) => Registered(u)' /\ (user[u].verified => user'[u].verified)

TokensGrow == \A t \in Tokens : ~Fresh(t) =>
  ~Fresh(t)' /\ token'[t].user = token[t].user /\ (token[t].used => token'[t].used)

SessionsGrow == \A s \in Sessions : ~Unmade(s) =>
  ~Unmade(s)' /\ session'[s].user = session[s].user
              /\ (session[s].revoked => session'[s].revoked)

Grows == UsersGrow /\ TokensGrow /\ SessionsGrow

\* A password is replaced by a request to do so that ends what it found.
Replaced ==
  \A u \in Users : Registered(u) /\ user'[u].password # user[u].password =>
    \E r \in Requests :
      /\ call[r].op \in {"reset", "change"}
      /\ call[r].user = u /\ call[r].password = user'[u].password
      /\ \A s \in call[r].seen : session'[s].revoked

-----------------------------------------------------------------------------
\* A commit keeps a row a row, a mark that was set, and a password it did not change.
LEMMA FlushedUser ==
  ASSUME NEW row \in UserRows, NEW saw \in UserRows, NEW new \in UserRows
  PROVE  /\ Flush(row, saw, new) \in UserRows
         /\ (new.verified \/ new.verified = saw.verified) /\ row.verified => Flush(row, saw, new).verified
         /\ new.password = saw.password => Flush(row, saw, new).password = row.password
         /\ Flush(row, saw, new).password \in {row.password, new.password}
BY DEF Flush, UserRows

\* What each kind of request carries.
LEMMA CallShapes ==
  ASSUME NEW c \in Calls
  PROVE /\ c.op = "mail" => c.token \in Tokens
        /\ c.op = "verify" => c.user \in Users /\ c.token \in Tokens /\ c.saw \in UserRows
        /\ c.op \in {"resend", "forgot"} => c.user \in Users /\ c.seen \in SUBSET Tokens
        /\ c.op = "login" => c.user \in Users /\ c.password \in Passwords /\ c.saw \in UserRows
        /\ c.op = "refresh" => c.session \in Sessions
        /\ c.op \in {"reset", "change"} => c.user \in Users /\ c.password \in Passwords
                                           /\ c.saw \in UserRows /\ c.seen \in SUBSET Sessions
        /\ c.op = "reset" => c.token \in Tokens
BY DEF Calls, Idle

\* A request keeps what it relies on while rows only grow.
LEMMA CallStaysOK ==
  ASSUME NEW c \in Calls, CallOK(c), Grows
  PROVE  CallOK(c)'
<1>1. /\ c.op \in {"verify", "resend", "forgot", "login", "reset", "change"} => c.user \in Users
      /\ c.op \in {"mail", "verify", "reset"} => c.token \in Tokens
      /\ c.op = "refresh" => c.session \in Sessions
      /\ c.op \in {"reset", "change"} => c.seen \in SUBSET Sessions
  BY CallShapes
<1> QED  BY <1>1 DEF CallOK, Grows, UsersGrow, TokensGrow, SessionsGrow

\* A request that is not under way relies on nothing.
LEMMA IdleIsOK == Idle \in Calls /\ CallOK(Idle) /\ CallOK(Idle)'
BY DEF Idle, Calls, CallOK

\* A step that sets one request keeps what the others rely on.
LEMMA CallsKept ==
  ASSUME CallInv, Grows, NEW r \in Requests, NEW c \in Calls, CallOK(c)',
         call' = [call EXCEPT ![r] = c]
  PROVE  CallInv'
<1>1. call' \in [Requests -> Calls]
  BY DEF CallInv
<1>2. ASSUME NEW q \in Requests
      PROVE  CallOK(call[q])'
  <2>1. CASE q = r
    BY <2>1 DEF CallInv
  <2>2. CASE q # r
    <3>1. call'[q] = call[q] /\ call[q] \in Calls /\ CallOK(call[q])
      BY <2>2 DEF CallInv, CallsOK
    <3> QED  BY <3>1, CallStaysOK
  <2> QED  BY <2>1, <2>2
<1> QED  BY <1>1, <1>2 DEF CallInv, CallsOK

\* A request that reads and checks changes no row.
LEMMA AskKeeps ==
  ASSUME AuthInv, NEW r \in Requests, NEW c \in Calls, CallOK(c),
         Begin(r, c), UNCHANGED <<user, token, session, access>>
  PROVE  AuthInv' /\ Grows /\ Replaced
<1>1. Grows
  BY DEF Grows, UsersGrow, TokensGrow, SessionsGrow, Registered, Fresh, Unmade
<1>2. RowInv'
  BY DEF AuthInv, RowInv, RowTypes, Owned, HoldersAreVerified, Registered, Fresh, Unmade
<1>3. CallOK(c)'
  BY <1>1, CallStaysOK
<1>4. CallInv'
  BY <1>1, <1>3, CallsKept DEF AuthInv, Begin
<1> QED  BY <1>1, <1>2, <1>4 DEF AuthInv, Replaced

\* Asking for another mail, of either kind, changes no row.
LEMMA AskByUser ==
  ASSUME AuthInv, NEW r \in Requests, NEW u \in Users,
         AskToResend(r, u) \/ AskForReset(r, u)
  PROVE  AuthInv' /\ Grows /\ Replaced
<1>1. CASE AskToResend(r, u)
  <2> DEFINE c == [op |-> "resend", user |-> u, seen |-> UnusedTokens(u, "verify")]
  <2>1. c \in Calls /\ CallOK(c)
    BY <1>1 DEF AskToResend, Calls, CallOK, UnusedTokens
  <2> QED  BY <1>1, <2>1, AskKeeps DEF AskToResend
<1>2. CASE AskForReset(r, u)
  <2> DEFINE c == [op |-> "forgot", user |-> u, seen |-> UnusedTokens(u, "reset")]
  <2>1. c \in Calls /\ CallOK(c)
    BY <1>2 DEF AskForReset, Calls, CallOK, UnusedTokens
  <2> QED  BY <1>2, <2>1, AskKeeps DEF AskForReset
<1> QED  BY <1>1, <1>2

\* Asking to log in or to change the password changes no row.
LEMMA AskWithPassword ==
  ASSUME AuthInv, NEW r \in Requests, NEW u \in Users, NEW p \in Passwords,
         AskToLogin(r, u, p) \/ AskToChange(r, u, p)
  PROVE  AuthInv' /\ Grows /\ Replaced
<1>1. CASE AskToLogin(r, u, p)
  <2> DEFINE c == [op |-> "login", user |-> u, password |-> p, saw |-> user[u]]
  <2>1. user[u] \in UserRows
    BY <1>1 DEF AskToLogin, AuthInv, RowInv, RowTypes, Registered
  <2>2. c \in Calls /\ CallOK(c)
    BY <1>1, <2>1 DEF AskToLogin, Calls, CallOK
  <2> QED  BY <1>1, <2>2, AskKeeps DEF AskToLogin
<1>2. CASE AskToChange(r, u, p)
  <2> DEFINE c == [op |-> "change", user |-> u, password |-> p, saw |-> user[u], seen |-> LiveSessions(u)]
  <2>1. user[u] \in UserRows /\ Registered(u)
    BY <1>2 DEF AskToChange, SignedIn, AuthInv, RowInv, RowTypes, Owned, Registered
  <2>2. c \in Calls /\ CallOK(c)
    BY <2>1 DEF Calls, CallOK, LiveSessions, Unmade, NoSession
  <2> QED  BY <1>2, <2>2, AskKeeps DEF AskToChange
<1> QED  BY <1>1, <1>2

\* Presenting a verification token changes no row.
LEMMA AskToVerifyStep ==
  ASSUME AuthInv, NEW r \in Requests, NEW t \in Tokens, AskToVerify(r, t)
  PROVE  AuthInv' /\ Grows /\ Replaced
<1> DEFINE v == token[t].user
           c == [op |-> "verify", user |-> v, token |-> t, saw |-> user[v]]
<1>1. v \in Users /\ Registered(v) /\ user[v] \in UserRows /\ ~Fresh(t)
  BY DEF AskToVerify, Usable, AuthInv, RowInv, RowTypes, Owned, TokenRows, Registered, Fresh
<1>2. c \in Calls /\ CallOK(c)
  BY <1>1 DEF Calls, CallOK
<1> QED  BY <1>2, AskKeeps DEF AskToVerify

\* Presenting a reset token changes no row.
LEMMA AskToResetStep ==
  ASSUME AuthInv, NEW r \in Requests, NEW t \in Tokens, NEW p \in Passwords, AskToReset(r, t, p)
  PROVE  AuthInv' /\ Grows /\ Replaced
<1> DEFINE v == token[t].user
           c == [op |-> "reset", user |-> v, token |-> t, password |-> p, saw |-> user[v],
                 seen |-> LiveSessions(v)]
<1>1. v \in Users /\ Registered(v) /\ user[v] \in UserRows /\ ~Fresh(t)
  BY DEF AskToReset, Usable, AuthInv, RowInv, RowTypes, Owned, TokenRows, Registered, Fresh
<1>2. c \in Calls /\ CallOK(c)
  BY <1>1 DEF Calls, CallOK, LiveSessions, Unmade, NoSession
<1> QED  BY <1>2, AskKeeps DEF AskToReset

\* Presenting a refresh token changes no row.
LEMMA AskToRefreshStep ==
  ASSUME AuthInv, NEW r \in Requests, NEW s \in Sessions, AskToRefresh(r, s)
  PROVE  AuthInv' /\ Grows /\ Replaced
<1> DEFINE c == [op |-> "refresh", session |-> s]
<1>1. c \in Calls /\ CallOK(c)
  BY DEF AskToRefresh, Calls, CallOK
<1> QED  BY <1>1, AskKeeps DEF AskToRefresh

-----------------------------------------------------------------------------
\* While there is an id that was never used, CHOOSE finds one.
LEMMA FreshTokenIsFresh == TokensLeft => FreshToken \in Tokens /\ Fresh(FreshToken)
BY DEF TokensLeft, FreshToken

\* The same of sessions.
LEMMA FreshSessionIsUnmade == SessionsLeft => FreshSession \in Sessions /\ Unmade(FreshSession)
BY DEF SessionsLeft, FreshSession

\* What remains of a step that changes rows is to say which.
LEMMA CommitKeeps ==
  ASSUME AuthInv, RowInv', Grows, Replaced, NEW r \in Requests, NEW c \in Calls, CallOK(c)',
         call' = [call EXCEPT ![r] = c]
  PROVE  AuthInv' /\ Grows /\ Replaced
BY CallsKept DEF AuthInv

\* The columns of rows and the growth of tables, table by table.
LEMMA UserWritten ==
  ASSUME RowTypes, NEW u \in Users, Registered(u), NEW row \in UserRows,
         user' = [user EXCEPT ![u] = row], user[u].verified => row.verified
  PROVE  user' \in [Users -> UserRows \union {NoUser}] /\ UsersGrow
<1>1. row # NoUser
  BY DEF UserRows, NoUser
<1> QED  BY <1>1 DEF RowTypes, UsersGrow, Registered

\* A token that keeps its user and its mark can be written.
LEMMA TokenWritten ==
  ASSUME RowTypes, NEW t \in Tokens, NEW row \in TokenRows, token' = [token EXCEPT ![t] = row],
         ~Fresh(t) => row.user = token[t].user /\ (token[t].used => row.used)
  PROVE  token' \in [Tokens -> TokenRows \union {NoToken}] /\ TokensGrow
<1>1. row # NoToken
  BY DEF TokenRows, NoToken
<1> QED  BY <1>1 DEF RowTypes, TokensGrow, Fresh

\* A session that keeps its user and its end can be written.
LEMMA SessionWritten ==
  ASSUME RowTypes, NEW s \in Sessions, NEW row \in SessionRows, session' = [session EXCEPT ![s] = row],
         ~Unmade(s) => row.user = session[s].user /\ (session[s].revoked => row.revoked)
  PROVE  session' \in [Sessions -> SessionRows \union {NoSession}] /\ SessionsGrow
<1>1. row # NoSession
  BY DEF SessionRows, NoSession
<1> QED  BY <1>1 DEF RowTypes, SessionsGrow, Unmade

\* Tables that are left alone do not shrink.
LEMMA Kept ==
  /\ user' = user => UsersGrow
  /\ token' = token => TokensGrow
  /\ session' = session => SessionsGrow
BY DEF UsersGrow, TokensGrow, SessionsGrow, Registered, Fresh, Unmade

\* Old rows keep their owners; new ones need one that is registered, and
\* sessions and access tokens one that is verified.
LEMMA OwnersStay ==
  ASSUME RowInv, RowTypes', Grows,
         \A t \in Tokens : Fresh(t) /\ ~Fresh(t)' => Registered(token[t].user)',
         \A s \in Sessions : Unmade(s) /\ ~Unmade(s)' =>
           Registered(session[s].user)' /\ (user[session[s].user].verified)',
         \A u \in access' : u \notin access => Registered(u)' /\ user'[u].verified
  PROVE  RowInv'
<1>1. \A s \in Sessions : ~Unmade(s) => session[s].user \in Users
  BY DEF RowInv, RowTypes, SessionRows, Unmade
<1>2. \A t \in Tokens : ~Fresh(t) => token[t].user \in Users
  BY DEF RowInv, RowTypes, TokenRows, Fresh
<1>3. Owned'
  <2>1. ASSUME NEW t \in Tokens, ~Fresh(t)'
        PROVE  Registered(token[t].user)'
    BY <1>2, <2>1 DEF RowInv, Owned, Grows, TokensGrow, UsersGrow, Registered
  <2>2. ASSUME NEW s \in Sessions, ~Unmade(s)'
        PROVE  Registered(session[s].user)'
    BY <1>1, <2>2 DEF RowInv, Owned, Grows, SessionsGrow, UsersGrow, Registered
  <2>3. ASSUME NEW u \in access'
        PROVE  Registered(u)'
    BY DEF RowInv, RowTypes, Owned, Grows, UsersGrow
  <2> QED  BY <2>1, <2>2, <2>3 DEF Owned
<1>4. HoldersAreVerified'
  <2>1. ASSUME NEW s \in Sessions, ~Unmade(s)'
        PROVE  (user[session[s].user].verified)'
    BY <1>1, <2>1 DEF RowInv, Owned, HoldersAreVerified, Grows, SessionsGrow, UsersGrow
  <2>2. ASSUME NEW u \in access'
        PROVE  (user[u].verified)'
    BY DEF RowInv, RowTypes, Owned, HoldersAreVerified, Grows, UsersGrow
  <2> QED  BY <2>1, <2>2 DEF HoldersAreVerified
<1> QED  BY <1>3, <1>4 DEF RowInv

\* Registration adds a user and a token.
LEMMA RegisterStep ==
  ASSUME AuthInv, NEW r \in Requests, NEW u \in Users, NEW p \in Passwords, Register(r, u, p)
  PROVE  AuthInv' /\ Grows /\ Replaced
<1>1. PICK t \in Tokens : t = FreshToken /\ Fresh(t)
  BY FreshTokenIsFresh DEF Register
<1> DEFINE row == [password |-> p, verified |-> FALSE, active |-> TRUE, failed |-> 0, lock |-> "none"]
           new == NewToken("verify", u)
           c == [op |-> "mail", token |-> t]
<1>2. row \in UserRows /\ row # NoUser
  BY DEF UserRows, Locks, NoUser
<1>3. new \in TokenRows /\ new.user = u /\ new # NoToken
  BY DEF NewToken, TokenRows, NoToken
<1>4. /\ user' = [user EXCEPT ![u] = row] /\ user[u] = NoUser
      /\ token' = [token EXCEPT ![t] = new]
      /\ call' = [call EXCEPT ![r] = c]
      /\ session' = session /\ access' = access
  BY <1>1 DEF Register, ThenMail, Registered
<1> HIDE DEF row, new
<1>5. user' \in [Users -> UserRows \union {NoUser}] /\ UsersGrow
  BY <1>2, <1>4 DEF UsersGrow, Registered, AuthInv, RowInv, RowTypes
<1>6. token' \in [Tokens -> TokenRows \union {NoToken}] /\ TokensGrow
  BY <1>1, <1>3, <1>4, TokenWritten DEF AuthInv, RowInv
<1>7. RowTypes' /\ Grows
  BY <1>4, <1>5, <1>6, Kept DEF Grows, AuthInv, RowInv, RowTypes
<1>8. RowInv'
  BY <1>2, <1>3, <1>4, <1>7, OwnersStay DEF Registered, Fresh, Unmade, AuthInv, RowInv, RowTypes
<1>9. Replaced
  BY <1>4 DEF Replaced, Registered, AuthInv, RowInv, RowTypes
<1>10. c \in Calls /\ CallOK(c)'
  BY <1>3, <1>4 DEF Calls, CallOK, Fresh, AuthInv, RowInv, RowTypes
<1> QED  BY <1>4, <1>7, <1>8, <1>9, <1>10, CommitKeeps

\* A mail that arrives makes its token known.
LEMMA SendMailStep ==
  ASSUME AuthInv, NEW r \in Requests, SendMail(r)
  PROVE  AuthInv' /\ Grows /\ Replaced
<1>1. PICK t \in Tokens : t = call[r].token /\ ~Fresh(t)
  BY CallShapes DEF SendMail, AuthInv, CallInv, CallsOK, CallOK
<1>2. token[t] \in TokenRows
  BY <1>1 DEF AuthInv, RowInv, RowTypes, Fresh
<1>3. token' \in [Tokens -> TokenRows \union {NoToken}] /\ TokensGrow
  <2>1. CASE token' = token
    BY <2>1, Kept DEF AuthInv, RowInv, RowTypes
  <2>2. CASE token' = [token EXCEPT ![t].known = TRUE]
    <3> DEFINE row == [token[t] EXCEPT !.known = TRUE]
    <3>1. row \in TokenRows /\ row.user = token[t].user /\ row.used = token[t].used
      BY <1>2 DEF TokenRows
    <3>2. token' = [token EXCEPT ![t] = row]
      BY <2>2
    <3> QED  BY <3>1, <3>2, TokenWritten DEF AuthInv, RowInv
  <2> QED  BY <1>1, <2>1, <2>2 DEF SendMail
<1>4. RowTypes' /\ Grows
  BY <1>3, Kept DEF SendMail, Grows, AuthInv, RowInv, RowTypes
<1>5. RowInv'
  <2>1. \A x \in Tokens : Fresh(x) => Fresh(x)'
    BY <1>1 DEF SendMail, Fresh, AuthInv, RowInv, RowTypes
  <2> QED  BY <1>4, <2>1, OwnersStay DEF SendMail, Unmade, AuthInv
<1> QED  BY <1>4, <1>5, IdleIsOK, CommitKeeps DEF SendMail, Answer, Replaced

\* Verification marks the user and uses the token.
LEMMA VerifyStep ==
  ASSUME AuthInv, NEW r \in Requests, VerifyEmail(r)
  PROVE  AuthInv' /\ Grows /\ Replaced
<1>1. PICK c \in Calls : c = call[r] /\ CallOK(c) /\ c.op = "verify"
  BY DEF VerifyEmail, AuthInv, CallInv, CallsOK
<1>2. PICK u \in Users, t \in Tokens : /\ u = c.user /\ t = c.token /\ c.saw \in UserRows
                                       /\ user[u] \in UserRows /\ token[t] \in TokenRows
                                       /\ Registered(u) /\ ~Fresh(t)
  BY <1>1, CallShapes DEF CallOK, Registered, Fresh, AuthInv, RowInv, RowTypes
<1> DEFINE new == [c.saw EXCEPT !.verified = TRUE]
           row == Flush(user[u], c.saw, new)
           spent == [token[t] EXCEPT !.used = TRUE]
<1>3. new \in UserRows /\ new.verified /\ new.password = c.saw.password
  BY <1>2 DEF UserRows
<1>4. row \in UserRows /\ row.password = user[u].password /\ (user[u].verified => row.verified)
  <2> HIDE DEF new
  <2> QED  BY <1>2, <1>3, FlushedUser
<1>5. spent \in TokenRows /\ spent.user = token[t].user /\ spent.used
  BY <1>2 DEF TokenRows
<1>6. /\ user' = [user EXCEPT ![u] = row] /\ token' = [token EXCEPT ![t] = spent]
      /\ call' = [call EXCEPT ![r] = Idle] /\ session' = session /\ access' = access
  <2>1. user' = [user EXCEPT ![u] = row]
    BY <1>1, <1>2 DEF VerifyEmail
  <2>2. token' = [token EXCEPT ![t] = spent]
    BY <1>1, <1>2 DEF VerifyEmail
  <2> QED  BY <2>1, <2>2 DEF VerifyEmail, Answer
<1> HIDE DEF row, spent
<1>7. RowTypes' /\ Grows
  BY <1>2, <1>4, <1>5, <1>6, UserWritten, TokenWritten, Kept DEF Grows, AuthInv, RowInv, RowTypes
<1>8. RowInv'
  BY <1>2, <1>6, <1>7, OwnersStay DEF Fresh, Unmade, AuthInv, RowInv, RowTypes
<1>9. Replaced
  BY <1>4, <1>6 DEF Replaced, AuthInv, RowInv, RowTypes
<1> QED  BY <1>6, <1>7, <1>8, <1>9, IdleIsOK, CommitKeeps

\* Another mail uses up the tokens it found and adds one.
LEMMA ReplaceStep ==
  ASSUME AuthInv, NEW r \in Requests, NEW kind \in {"verify", "reset"},
         call[r].op \in {"resend", "forgot"}, ReplaceTokens(r, kind)
  PROVE  AuthInv' /\ Grows /\ Replaced
<1>1. PICK t \in Tokens : t = FreshToken /\ Fresh(t)
  BY FreshTokenIsFresh DEF ReplaceTokens
<1>2. PICK u \in Users : u = call[r].user /\ Registered(u)
  BY CallShapes DEF CallOK, AuthInv, CallInv, CallsOK
<1> DEFINE new == NewToken(kind, u)
           c == [op |-> "mail", token |-> t]
<1>3. new \in TokenRows /\ new.user = u /\ new # NoToken
  BY DEF NewToken, TokenRows, NoToken
<1>4. PICK old \in SUBSET UnusedTokens(u, kind) :
        token' = [x \in Tokens |-> IF x = t THEN new
                                   ELSE IF x \in old THEN [token[x] EXCEPT !.used = TRUE] ELSE token[x]]
  BY <1>1, <1>2 DEF ReplaceTokens, Reaches
<1>5. call' = [call EXCEPT ![r] = c] /\ user' = user /\ session' = session /\ access' = access
  BY <1>1 DEF ReplaceTokens, ThenMail
<1> HIDE DEF new
<1>6. ASSUME NEW x \in Tokens, x # t
      PROVE  /\ Fresh(x) <=> Fresh(x)'
             /\ token'[x] \in TokenRows \union {NoToken}
             /\ ~Fresh(x) => token'[x].user = token[x].user /\ (token[x].used => token'[x].used)
  <2>1. CASE x \notin old
    BY <1>4, <1>6, <2>1 DEF Fresh, AuthInv, RowInv, RowTypes
  <2>2. CASE x \in old
    <3>1. token[x] \in TokenRows
      BY <2>2 DEF UnusedTokens, NoToken, AuthInv, RowInv, RowTypes
    <3>2. [token[x] EXCEPT !.used = TRUE] \in TokenRows
          /\ [token[x] EXCEPT !.used = TRUE].user = token[x].user
          /\ [token[x] EXCEPT !.used = TRUE].used
      BY <3>1 DEF TokenRows
    <3>3. NoToken \notin TokenRows
      BY DEF TokenRows, NoToken
    <3> QED  BY <1>4, <1>6, <2>2, <3>1, <3>2, <3>3 DEF Fresh
  <2> QED  BY <2>1, <2>2
<1>7. token' \in [Tokens -> TokenRows \union {NoToken}] /\ TokensGrow
  BY <1>1, <1>3, <1>4, <1>6 DEF TokensGrow
<1>8. RowTypes' /\ Grows
  BY <1>5, <1>7, Kept DEF Grows, AuthInv, RowInv, RowTypes
<1>9. RowInv'
  BY <1>2, <1>3, <1>4, <1>5, <1>6, <1>8, OwnersStay DEF Registered, Unmade, AuthInv
<1>10. Replaced
  BY <1>5 DEF Replaced
<1>11. c \in Calls /\ CallOK(c)'
  BY <1>3, <1>4 DEF Calls, CallOK, Fresh
<1> QED  BY <1>5, <1>8, <1>9, <1>10, <1>11, CommitKeeps

\* A failed login writes the counter and the lock only.
LEMMA LoginFailsStep ==
  ASSUME AuthInv, NEW r \in Requests, LoginFails(r)
  PROVE  AuthInv' /\ Grows /\ Replaced
<1>1. PICK c \in Calls : c = call[r] /\ CallOK(c) /\ c.op = "login"
  BY DEF LoginFails, AuthInv, CallInv, CallsOK
<1>2. PICK u \in Users : u = c.user /\ c.saw \in UserRows /\ user[u] \in UserRows /\ Registered(u)
  BY <1>1, CallShapes DEF CallOK, Registered, AuthInv, RowInv, RowTypes
<1> DEFINE old == Unlocked(c.saw)
           n == old.failed + 1
           new == [old EXCEPT !.failed = n, !.lock = IF n >= MaxFailed THEN "running" ELSE @]
           row == Flush(user[u], c.saw, new)
<1>3. old \in UserRows /\ old.verified = c.saw.verified /\ old.password = c.saw.password
  BY <1>2 DEF Unlocked, UserRows, Locks
<1>4. new \in UserRows /\ new.verified = old.verified /\ new.password = old.password
  <2> DEFINE lock == IF n >= MaxFailed THEN "running" ELSE old.lock
  <2> HIDE DEF old
  <2>1. n \in Nat /\ lock \in Locks
    BY <1>3 DEF UserRows, Locks
  <2>2. new = [old EXCEPT !.failed = n, !.lock = lock]
    OBVIOUS
  <2> HIDE DEF n, lock, new
  <2> QED  BY <1>3, <2>1, <2>2 DEF UserRows
<1>5. row \in UserRows /\ row.password = user[u].password /\ (user[u].verified => row.verified)
  <2> HIDE DEF new, old
  <2> QED  BY <1>2, <1>3, <1>4, FlushedUser
<1>6. /\ user' = [user EXCEPT ![u] = row] /\ call' = [call EXCEPT ![r] = Idle]
      /\ token' = token /\ session' = session /\ access' = access
  BY <1>1, <1>2 DEF LoginFails, Answer
<1> HIDE DEF row
<1>7. RowTypes' /\ Grows
  BY <1>2, <1>5, <1>6, UserWritten, Kept DEF Grows, AuthInv, RowInv, RowTypes
<1>8. RowInv'
  BY <1>6, <1>7, OwnersStay DEF Fresh, Unmade, AuthInv
<1>9. Replaced
  BY <1>5, <1>6 DEF Replaced, AuthInv, RowInv, RowTypes
<1> QED  BY <1>6, <1>7, <1>8, <1>9, IdleIsOK, CommitKeeps

\* A new session is a session of its user.
LEMMA NewSessionTyped == \A u \in Users :
  NewSession(u) \in SessionRows /\ NewSession(u).user = u /\ NewSession(u) # NoSession
BY DEF NewSession, SessionRows, NoSession

\* A login adds a session of a user whose address is verified.
LEMMA LoginSucceedsStep ==
  ASSUME AuthInv, NEW r \in Requests, LoginSucceeds(r)
  PROVE  AuthInv' /\ Grows /\ Replaced
<1>1. PICK c \in Calls : c = call[r] /\ CallOK(c) /\ c.op = "login" /\ c.password = c.saw.password
  BY DEF LoginSucceeds, AuthInv, CallInv, CallsOK
<1>2. PICK u \in Users : /\ u = c.user /\ c.saw \in UserRows /\ user[u] \in UserRows
                         /\ Registered(u) /\ user[u].verified
  BY <1>1, CallShapes DEF CallOK, Registered, AuthInv, RowInv, RowTypes
<1>3. PICK s \in Sessions : s = FreshSession /\ Unmade(s)
  BY FreshSessionIsUnmade DEF LoginSucceeds
<1> DEFINE new == [c.saw EXCEPT !.failed = 0, !.lock = "none"]
           row == Flush(user[u], c.saw, new)
<1>4. new \in UserRows /\ new.verified = c.saw.verified /\ new.password = c.saw.password
  BY <1>2 DEF UserRows, Locks
<1>5. row \in UserRows /\ row.password = user[u].password /\ (user[u].verified => row.verified)
  <2> HIDE DEF new
  <2> QED  BY <1>2, <1>4, FlushedUser
<1>6. /\ user' = [user EXCEPT ![u] = row] /\ call' = [call EXCEPT ![r] = Idle]
      /\ session' = [session EXCEPT ![s] = NewSession(u)]
      /\ token' = token /\ access' = access \union {u}
  BY <1>1, <1>2, <1>3 DEF LoginSucceeds, Answer
<1> HIDE DEF row
<1>7. RowTypes' /\ Grows
  <2>1. session' \in [Sessions -> SessionRows \union {NoSession}] /\ SessionsGrow
    BY <1>3, <1>6, NewSessionTyped, SessionWritten DEF AuthInv, RowInv
  <2> QED  BY <2>1, <1>2, <1>5, <1>6, UserWritten, Kept DEF Grows, AuthInv, RowInv, RowTypes
<1>8. RowInv'
  <2>1. Registered(u)' /\ user'[u].verified
    BY <1>2, <1>7 DEF Grows, UsersGrow
  <2>2. \A x \in Sessions : Unmade(x) /\ ~Unmade(x)' => session'[x].user = u
    BY <1>6, NewSessionTyped DEF Unmade, AuthInv, RowInv, RowTypes
  <2> QED  BY <1>6, <1>7, <2>1, <2>2, OwnersStay DEF Fresh, AuthInv, Registered
<1>9. Replaced
  BY <1>5, <1>6 DEF Replaced, AuthInv, RowInv, RowTypes
<1> QED  BY <1>6, <1>7, <1>8, <1>9, IdleIsOK, CommitKeeps

\* A session is marked as revoked or expired and nothing else happens.
LEMMA SessionMarked ==
  ASSUME AuthInv, NEW s \in Sessions, ~Unmade(s), NEW row \in SessionRows, row.user = session[s].user,
         session[s].revoked => row.revoked, session' = [session EXCEPT ![s] = row],
         UNCHANGED <<user, token, access, call>>
  PROVE  AuthInv' /\ Grows /\ Replaced
<1>1. RowTypes' /\ Grows
  BY SessionWritten, Kept DEF Grows, AuthInv, RowInv, RowTypes
<1>2. RowInv'
  BY <1>1, OwnersStay DEF Fresh, Unmade, AuthInv, RowInv, RowTypes
<1>3. CallInv'
  BY <1>1, CallStaysOK DEF AuthInv, CallInv, CallsOK
<1> QED  BY <1>1, <1>2, <1>3 DEF AuthInv, Replaced

\* Ending sessions takes nothing back.
LEMMA RevokeStep ==
  ASSUME AuthInv, NEW s \in Sessions, Revoke(s)
  PROVE  AuthInv' /\ Grows /\ Replaced
<1> DEFINE row == [session[s] EXCEPT !.revoked = TRUE]
<1>1. row \in SessionRows /\ row.user = session[s].user /\ row.revoked
  BY DEF Revoke, Unmade, SessionRows, AuthInv, RowInv, RowTypes
<1>2. session' = [session EXCEPT ![s] = row]
  BY DEF Revoke
<1> HIDE DEF row
<1> QED  BY <1>1, <1>2, SessionMarked DEF Revoke

\* Nor does the end of their time.
LEMMA SessionExpiresStep ==
  ASSUME AuthInv, NEW s \in Sessions, SessionExpires(s)
  PROVE  AuthInv' /\ Grows /\ Replaced
<1>1. ~Unmade(s)
  BY DEF SessionExpires, Unmade, NoSession
<1> DEFINE row == [session[s] EXCEPT !.expired = TRUE]
<1>2. row \in SessionRows /\ row.user = session[s].user /\ (session[s].revoked => row.revoked)
  BY <1>1 DEF Unmade, SessionRows, AuthInv, RowInv, RowTypes
<1>3. session' = [session EXCEPT ![s] = row]
  BY DEF SessionExpires
<1> HIDE DEF row
<1> QED  BY <1>1, <1>2, <1>3, SessionMarked DEF SessionExpires

\* A refresh ends a session and adds one of the same user.
LEMMA RefreshStep ==
  ASSUME AuthInv, NEW r \in Requests, Refresh(r)
  PROVE  AuthInv' /\ Grows /\ Replaced
<1>1. PICK old \in Sessions : old = call[r].session /\ ~Unmade(old)
  BY CallShapes DEF Refresh, CallOK, AuthInv, CallInv, CallsOK
<1>2. PICK s \in Sessions : s = FreshSession /\ Unmade(s)
  BY FreshSessionIsUnmade DEF Refresh
<1>3. PICK u \in Users : u = session[old].user /\ Registered(u) /\ user[u].verified
  BY <1>1 DEF AuthInv, RowInv, RowTypes, Owned, HoldersAreVerified, Unmade, SessionRows
<1> DEFINE ended == [session[old] EXCEPT !.revoked = TRUE]
<1>4. ended \in SessionRows /\ ended # NoSession /\ ended.user = u /\ ended.revoked
  BY <1>1, <1>3 DEF Unmade, SessionRows, NoSession, AuthInv, RowInv, RowTypes
<1>5. session' = [session EXCEPT ![old] = ended, ![s] = NewSession(u)]
  BY <1>1, <1>2, <1>3 DEF Refresh
<1>6. /\ call' = [call EXCEPT ![r] = Idle]
      /\ user' = user /\ token' = token /\ access' = access \union {u}
  BY <1>1, <1>3 DEF Refresh, Answer
<1> HIDE DEF ended
<1>7. RowTypes' /\ Grows
  <2>1. session' \in [Sessions -> SessionRows \union {NoSession}] /\ SessionsGrow
    BY <1>1, <1>2, <1>3, <1>4, <1>5, NewSessionTyped DEF SessionsGrow, Unmade, AuthInv, RowInv, RowTypes
  <2> QED  BY <2>1, <1>3, <1>6, Kept DEF Grows, AuthInv, RowInv, RowTypes
<1>8. RowInv'
  <2>1. \A x \in Sessions : Unmade(x) /\ ~Unmade(x)' => session'[x].user = u
    BY <1>1, <1>2, <1>3, <1>5, NewSessionTyped DEF Unmade, AuthInv, RowInv, RowTypes
  <2> QED  BY <1>3, <1>6, <1>7, <2>1, OwnersStay DEF Fresh, AuthInv, Registered
<1> QED  BY <1>6, <1>7, <1>8, IdleIsOK, CommitKeeps DEF Replaced

\* Every session that the request found is revoked, by this commit or before.
LEMMA SetPasswordStep ==
  ASSUME AuthInv, NEW r \in Requests, call[r].op \in {"reset", "change"}, SetPassword(r),
         token' \in [Tokens -> TokenRows \union {NoToken}], TokensGrow,
         \A t \in Tokens : Fresh(t) => Fresh(t)'
  PROVE  AuthInv' /\ Grows /\ Replaced
<1>1. PICK c \in Calls : c = call[r] /\ CallOK(c) /\ c.op \in {"reset", "change"}
  BY DEF AuthInv, CallInv, CallsOK
<1>2. PICK u \in Users : /\ u = c.user /\ c.saw \in UserRows /\ user[u] \in UserRows
                         /\ Registered(u) /\ c.password \in Passwords /\ c.seen \in SUBSET Sessions
  BY <1>1, CallShapes DEF CallOK, Registered, AuthInv, RowInv, RowTypes
<1> DEFINE new == [c.saw EXCEPT !.password = c.password, !.failed = 0, !.lock = "none"]
           row == Flush(user[u], c.saw, new)
<1>3. new \in UserRows /\ new.verified = c.saw.verified /\ new.password = c.password
  BY <1>2 DEF UserRows, Locks
<1>4. /\ row \in UserRows /\ row.password \in {user[u].password, c.password}
      /\ user[u].verified => row.verified
  <2> HIDE DEF new
  <2> QED  BY <1>2, <1>3, FlushedUser
<1>5. user' = [user EXCEPT ![u] = row]
  BY <1>1, <1>2 DEF SetPassword
<1>6. call' = [call EXCEPT ![r] = Idle] /\ access' = access
  BY DEF SetPassword, Answer
<1> HIDE DEF row
<1>7. PICK ended \in SUBSET LiveSessions(u) :
        /\ c.seen \intersect LiveSessions(u) \subseteq ended
        /\ session' = [s \in Sessions |->
             IF s \in ended THEN [session[s] EXCEPT !.revoked = TRUE] ELSE session[s]]
  BY <1>1, <1>2 DEF SetPassword, Reaches
<1>8. ASSUME NEW s \in Sessions
      PROVE  /\ Unmade(s) <=> Unmade(s)'
             /\ session'[s] \in SessionRows \union {NoSession}
             /\ ~Unmade(s) => session'[s].user = session[s].user
             /\ session[s].revoked => session'[s].revoked
             /\ s \in ended => session'[s].revoked
  <2>1. CASE s \notin ended
    BY <1>7, <2>1 DEF Unmade, AuthInv, RowInv, RowTypes
  <2>2. CASE s \in ended
    <3>1. session[s] \in SessionRows
      BY <2>2 DEF LiveSessions, NoSession, AuthInv, RowInv, RowTypes
    <3>2. [session[s] EXCEPT !.revoked = TRUE] \in SessionRows
          /\ [session[s] EXCEPT !.revoked = TRUE].user = session[s].user
          /\ [session[s] EXCEPT !.revoked = TRUE].revoked
      BY <3>1 DEF SessionRows
    <3>3. NoSession \notin SessionRows
      BY DEF SessionRows, NoSession
    <3> QED  BY <1>7, <2>2, <3>1, <3>2, <3>3 DEF Unmade
  <2> QED  BY <2>1, <2>2
<1>9. session' \in [Sessions -> SessionRows \union {NoSession}] /\ SessionsGrow
  BY <1>7, <1>8 DEF SessionsGrow
<1>10. RowTypes' /\ Grows
  BY <1>2, <1>4, <1>5, <1>6, <1>9, UserWritten DEF Grows, AuthInv, RowInv, RowTypes
<1>11. RowInv'
  BY <1>6, <1>8, <1>10, OwnersStay DEF AuthInv
<1>12. \A s \in c.seen : session'[s].revoked
  BY <1>1, <1>2, <1>7, <1>8 DEF CallOK, LiveSessions
<1>13. Replaced
  BY <1>1, <1>2, <1>4, <1>5, <1>12 DEF Replaced, AuthInv, RowInv, RowTypes
<1> QED  BY <1>6, <1>10, <1>11, <1>13, IdleIsOK, CommitKeeps

\* A change of password replaces it and ends the sessions found.
LEMMA ChangeStep ==
  ASSUME AuthInv, NEW r \in Requests, ChangePassword(r)
  PROVE  AuthInv' /\ Grows /\ Replaced
BY SetPasswordStep, Kept DEF ChangePassword, Fresh, AuthInv, RowInv, RowTypes

\* A reset does too, and uses its token.
LEMMA ResetStep ==
  ASSUME AuthInv, NEW r \in Requests, ResetPassword(r)
  PROVE  AuthInv' /\ Grows /\ Replaced
<1>1. PICK t \in Tokens : t = call[r].token /\ ~Fresh(t)
  BY CallShapes DEF ResetPassword, AuthInv, CallInv, CallsOK, CallOK
<1> DEFINE row == [token[t] EXCEPT !.used = TRUE]
<1>2. row \in TokenRows /\ row.user = token[t].user /\ row.used
  BY <1>1 DEF TokenRows, Fresh, AuthInv, RowInv, RowTypes
<1>3. token' = [token EXCEPT ![t] = row]
  BY <1>1 DEF ResetPassword
<1> HIDE DEF row
<1>4. token' \in [Tokens -> TokenRows \union {NoToken}] /\ TokensGrow
  BY <1>1, <1>2, <1>3, TokenWritten DEF AuthInv, RowInv
<1>5. \A x \in Tokens : Fresh(x) => Fresh(x)'
  BY <1>1, <1>3 DEF Fresh, AuthInv, RowInv, RowTypes
<1> QED  BY <1>4, <1>5, SetPasswordStep DEF ResetPassword

\* Time, and the operator's switch.
LEMMA UserMarked ==
  ASSUME AuthInv, NEW u \in Users, Registered(u), NEW row \in UserRows,
         row.password = user[u].password, user[u].verified => row.verified,
         user' = [user EXCEPT ![u] = row], UNCHANGED <<token, session, access, call>>
  PROVE  AuthInv' /\ Grows /\ Replaced
<1>1. RowTypes' /\ Grows
  BY UserWritten, Kept DEF Grows, AuthInv, RowInv, RowTypes
<1>2. RowInv'
  BY <1>1, OwnersStay DEF Fresh, Unmade, AuthInv
<1>3. CallInv'
  BY <1>1, CallStaysOK DEF AuthInv, CallInv, CallsOK
<1> QED  BY <1>1, <1>2, <1>3 DEF AuthInv, RowInv, RowTypes, Replaced

\* Time, and the switch of an account, take nothing back.
LEMMA PassStep ==
  ASSUME AuthInv, AuthPasses
  PROVE  AuthInv' /\ Grows /\ Replaced
<1>1. ASSUME NEW s \in Sessions, Logout(s) \/ RevokeSession(s) \/ SessionExpires(s)
      PROVE  AuthInv' /\ Grows /\ Replaced
  BY <1>1, RevokeStep, SessionExpiresStep DEF Logout, RevokeSession
<1>2. ASSUME NEW u \in Users, SwitchUser(u)
      PROVE  AuthInv' /\ Grows /\ Replaced
  <2> DEFINE row == [user[u] EXCEPT !.active = ~@]
  <2>1. row \in UserRows /\ row.password = user[u].password /\ (user[u].verified => row.verified)
    BY <1>2 DEF SwitchUser, Registered, UserRows, AuthInv, RowInv, RowTypes
  <2>2. user' = [user EXCEPT ![u] = row]
    BY <1>2 DEF SwitchUser
  <2> HIDE DEF row
  <2> QED  BY <1>2, <2>1, <2>2, UserMarked DEF SwitchUser
<1>3. ASSUME NEW u \in Users, LockRunsOut(u)
      PROVE  AuthInv' /\ Grows /\ Replaced
  <2> DEFINE row == [user[u] EXCEPT !.lock = "over"]
  <2>1. row \in UserRows /\ row.password = user[u].password /\ (user[u].verified => row.verified)
    BY <1>3 DEF LockRunsOut, Registered, UserRows, Locks, AuthInv, RowInv, RowTypes
  <2>2. user' = [user EXCEPT ![u] = row]
    BY <1>3 DEF LockRunsOut
  <2> HIDE DEF row
  <2> QED  BY <1>3, <2>1, <2>2, UserMarked DEF LockRunsOut
<1>4. ASSUME NEW u \in Users, AccessExpires(u)
      PROVE  AuthInv' /\ Grows /\ Replaced
  <2>1. RowTypes' /\ Grows
    BY <1>4, Kept DEF AccessExpires, Grows, AuthInv, RowInv, RowTypes
  <2>2. RowInv'
    BY <1>4, <2>1, OwnersStay DEF AccessExpires, Fresh, Unmade, AuthInv
  <2>3. CallInv'
    BY <1>4, <2>1, CallStaysOK DEF AccessExpires, AuthInv, CallInv, CallsOK
  <2> QED  BY <1>4, <2>1, <2>2, <2>3 DEF AccessExpires, AuthInv, Replaced
<1>5. ASSUME NEW t \in Tokens, TokenExpires(t)
      PROVE  AuthInv' /\ Grows /\ Replaced
  <2>1. ~Fresh(t)
    BY <1>5 DEF TokenExpires, Fresh, NoToken
  <2> DEFINE row == [token[t] EXCEPT !.expired = TRUE]
  <2>2. row \in TokenRows /\ row.user = token[t].user /\ (token[t].used => row.used)
    BY <2>1 DEF TokenRows, Fresh, AuthInv, RowInv, RowTypes
  <2>3. token' = [token EXCEPT ![t] = row]
    BY <1>5 DEF TokenExpires
  <2> HIDE DEF row
  <2>4. RowTypes' /\ Grows
    BY <1>5, <2>1, <2>2, <2>3, TokenWritten, Kept DEF TokenExpires, Grows, AuthInv, RowInv, RowTypes
  <2>5. RowInv'
    BY <1>5, <2>1, <2>3, <2>4, OwnersStay DEF TokenExpires, Fresh, Unmade, AuthInv, RowInv, RowTypes
  <2>6. CallInv'
    BY <1>5, <2>4, CallStaysOK DEF TokenExpires, AuthInv, CallInv, CallsOK
  <2> QED  BY <1>5, <2>4, <2>5, <2>6 DEF TokenExpires, AuthInv, Replaced
<1> QED  BY <1>1, <1>2, <1>3, <1>4, <1>5 DEF AuthPasses

\* A request that stops leaves every row alone.
LEMMA AbandonStep ==
  ASSUME AuthInv, NEW r \in Requests, Abandon(r)
  PROVE  AuthInv' /\ Grows /\ Replaced
<1>1. RowTypes' /\ Grows
  BY Kept DEF Abandon, Grows, AuthInv, RowInv, RowTypes
<1>2. RowInv'
  BY <1>1, OwnersStay DEF Abandon, Fresh, Unmade, AuthInv
<1> QED  BY <1>1, <1>2, IdleIsOK, CommitKeeps DEF Abandon, Answer, Replaced

-----------------------------------------------------------------------------
AuthNext == AuthAsks \/ AuthCommits \/ AuthPasses

\* The invariant holds of empty tables.
LEMMA AuthStart == AuthInit => AuthInv
<1> SUFFICES ASSUME AuthInit PROVE AuthInv
  OBVIOUS
<1>1. RowInv
  BY DEF AuthInit, RowInv, RowTypes, Owned, HoldersAreVerified, Fresh, Unmade
<1>2. CallInv
  BY IdleIsOK DEF AuthInit, CallInv, CallsOK
<1> QED  BY <1>1, <1>2 DEF AuthInv

\* Every step of the Auth service keeps the invariant and takes nothing back.
LEMMA AuthStep ==
  ASSUME AuthInv, AuthNext
  PROVE  AuthInv' /\ Grows /\ Replaced
<1>1. CASE AuthAsks
  BY <1>1, RegisterStep, AskByUser, AskWithPassword, AskToVerifyStep, AskToResetStep, AskToRefreshStep
     DEF AuthAsks
<1>2. CASE AuthCommits
  BY <1>2, SendMailStep, VerifyStep, ReplaceStep, LoginFailsStep, LoginSucceedsStep, RefreshStep,
     ResetStep, ChangeStep, AbandonStep DEF AuthCommits, ResendVerification, ForgotPassword
<1>3. CASE AuthPasses
  BY <1>3, PassStep
<1> QED  BY <1>1, <1>2, <1>3 DEF AuthNext

-----------------------------------------------------------------------------
(***************************************************************************)
(* The User service, over the Auth service.                                *)
(***************************************************************************)

\* The type invariant, but for what requests have read.
TableTypes ==
  /\ profile \in [Users -> ProfileRows \union {NoRow}]
  /\ store   \in [Users -> StoreRows \union {NoRow}]
  /\ address \in [Addresses -> AddressRows \union {NoRow}]
  /\ setting \in [Users -> UserSettings]
  /\ privacy \in [Users -> SUBSET PrivacyTypes]
  /\ used    \in [Users -> [address : [Keys -> Addresses \union {None}],
                            privacy : [Keys -> PrivacyTypes \union {None}]]]

\* What a request relies on, and keeps to, between its read and its commit.
EditOK(e) ==
  /\ e.op = "profile" => e.new.status \in {e.saw.status, "active", "deactivated"}
  /\ e.op = "address" => e.new.user = e.saw.user /\ e.new.key = e.saw.key
  /\ e.op \in {"address", "new address"} => \A a \in e.cleared : Exists(address[a])
  /\ e.op = "new address" => e.new.version = 1
  /\ e.op = "settings" => Exists(profile[e.user])

EditInv == edit \in [ProfileRequests -> Edits] /\ \A r \in ProfileRequests : EditOK(edit[r])

\* What a row says of a user, another row or a privacy request bears out.
ProfilesKnown == \A u \in Users :
  /\ Exists(profile[u]) => Registered(u) /\ user[u].verified
  /\ Exists(store[u])   => Exists(profile[u]) /\ u \in Sellers
  /\ Exists(profile[u]) /\ profile[u].status = "deletion_pending" => "deletion" \in privacy[u]
  /\ ~Exists(profile[u]) => \A s \in Settings : setting[u][s] = NoRow

\* The key an address was made under still names it.
KeysName == \A a \in Addresses :
  Exists(address[a]) => used[address[a].user].address[address[a].key] = a

ProfilesInv == TableTypes /\ ProfilesKnown /\ OneDefault(address) /\ KeysName /\ EditInv

\* The step of VersionsNameContents.
Versioned ==
  /\ \A u \in Users :
       /\ Changed(profile[u], profile'[u]) /\ Changed(store[u], store'[u])
       /\ \A s \in Settings : Changed(setting[u][s], setting'[u][s])
  /\ \A a \in Addresses : Changed(address[a], address'[a])

-----------------------------------------------------------------------------
\* A profile found under the version that was read moves to the next one.
LEMMA StoredProfile ==
  ASSUME NEW row \in ProfileRows \union {NoRow}, NEW saw \in ProfileRows, NEW new \in ProfileRows,
         SameVersion(row, saw)
  PROVE  /\ row \in ProfileRows /\ Store(row, saw, new) \in ProfileRows
         /\ Store(row, saw, new).version = row.version + 1
         /\ Store(row, saw, new).status \in {row.status, new.status}
         /\ new.status = saw.status => Store(row, saw, new).status = row.status
BY DEF SameVersion, Store, Flush, ProfileRows, NoRow, Versions

\* So does a seller profile.
LEMMA StoredStore ==
  ASSUME NEW row \in StoreRows \union {NoRow}, NEW saw \in StoreRows, NEW new \in StoreRows,
         SameVersion(row, saw)
  PROVE  /\ row \in StoreRows /\ Store(row, saw, new) \in StoreRows
         /\ Store(row, saw, new).version = row.version + 1
BY DEF SameVersion, Store, Flush, StoreRows, NoRow, Versions

\* So does an address, which keeps its user and its key.
LEMMA StoredAddress ==
  ASSUME NEW row \in AddressRows \union {NoRow}, NEW saw \in AddressRows, NEW new \in AddressRows,
         SameVersion(row, saw), new.user = saw.user, new.key = saw.key
  PROVE  /\ row \in AddressRows /\ Store(row, saw, new) \in AddressRows
         /\ Store(row, saw, new).version = row.version + 1
         /\ Store(row, saw, new).user = row.user /\ Store(row, saw, new).key = row.key
BY DEF SameVersion, Store, Flush, AddressRows, NoRow, Versions

\* So does a setting, whether it was there or is made.
LEMMA SetSetting ==
  ASSUME NEW row \in SettingRows \union {NoRow}, NEW saw \in SettingRows \union {NoRow},
         NEW value \in BOOLEAN, SameVersion(row, saw)
  PROVE  /\ Set(row, saw, value) \in SettingRows
         /\ Set(row, saw, value).version = row.version + 1
<1>1. CASE Exists(saw)
  <2> DEFINE new == [saw EXCEPT !.value = value]
  <2>1. saw \in SettingRows /\ row \in SettingRows
    BY <1>1 DEF SameVersion, SettingRows, NoRow, Versions, Exists
  <2>2. new \in SettingRows
    BY <2>1 DEF SettingRows
  <2>3. Store(row, saw, new) \in SettingRows /\ Store(row, saw, new).version = row.version + 1
    <3> HIDE DEF new
    <3> QED  BY <2>1, <2>2 DEF SameVersion, Store, Flush, SettingRows, Versions
  <2> QED  BY <1>1, <2>3 DEF Set
<1>2. CASE ~Exists(saw)
  BY <1>2 DEF SameVersion, Set, SettingRows, NoRow, Versions, Exists
<1> QED  BY <1>1, <1>2

\* A row exists, and the absence of one does not.
LEMMA ExistsIsRow ==
  /\ \A row \in ProfileRows : Exists(row)
  /\ \A row \in StoreRows : Exists(row)
  /\ \A row \in AddressRows : Exists(row)
  /\ \A row \in SettingRows : Exists(row)
  /\ ~Exists(NoRow)
BY DEF Exists, ProfileRows, StoreRows, AddressRows, SettingRows, NoRow, Versions

\* What each kind of request carries.
LEMMA EditShapes ==
  ASSUME NEW e \in Edits
  PROVE /\ e.op = "profile" => e.user \in Users /\ e.saw \in ProfileRows /\ e.new \in ProfileRows
        /\ e.op = "store" => e.user \in Users /\ e.saw \in StoreRows /\ e.new \in StoreRows
        /\ e.op = "address" => /\ e.address \in Addresses /\ e.saw \in AddressRows
                               /\ e.new \in AddressRows /\ e.cleared \in SUBSET Addresses
        /\ e.op = "new address" => e.new \in AddressRows /\ e.cleared \in SUBSET Addresses
        /\ e.op = "settings" => /\ e.user \in Users /\ e.values \in SettingValues
                                /\ e.saw \in UserSettings
        /\ e.op = "privacy" => /\ e.user \in Users /\ e.type \in PrivacyTypes /\ e.key \in Keys
                               /\ e.saw \in ProfileRows
<1> DEFINE
      P == [op : {"profile"}, user : Users, saw : ProfileRows, new : ProfileRows]
      S == [op : {"store"}, user : Users, saw : StoreRows, new : StoreRows]
      A == [op : {"address"}, address : Addresses, saw : AddressRows, new : AddressRows,
            cleared : SUBSET Addresses]
      N == [op : {"new address"}, new : AddressRows, cleared : SUBSET Addresses]
      T == [op : {"settings"}, user : Users, saw : UserSettings, values : SettingValues]
      V == [op : {"privacy"}, user : Users, type : PrivacyTypes, key : Keys, saw : ProfileRows]
<1>1. e = Idle \/ e \in P \/ e \in S \/ e \in A \/ e \in N \/ e \in T \/ e \in V
  BY DEF Edits
<1>2. CASE e = Idle
  BY <1>2 DEF Idle
<1>3. CASE e \in P
  BY <1>3
<1>4. CASE e \in S
  BY <1>4
<1>5. CASE e \in A
  BY <1>5
<1>6. CASE e \in N
  BY <1>6
<1>7. CASE e \in T
  BY <1>7
<1>8. CASE e \in V
  BY <1>8
<1> HIDE DEF P, S, A, N, T, V
<1> QED  BY <1>1, <1>2, <1>3, <1>4, <1>5, <1>6, <1>7, <1>8

\* A request sets settings, to values they have.
LEMMA SettingsChosen ==
  ASSUME NEW values \in SettingValues
  PROVE  DOMAIN values \subseteq Settings /\ \A s \in DOMAIN values : values[s] \in BOOLEAN
BY DEF SettingValues

\* Tables that profiles depend on only grow; the rest is carried over.
Extends ==
  /\ \A u \in Users :
       /\ Exists(profile[u]) => Exists(profile'[u])
       /\ privacy[u] \subseteq privacy'[u]
  /\ \A a \in Addresses : Exists(address[a]) => Exists(address'[a])

\* A request keeps what it relies on while tables only grow.
LEMMA EditStaysOK ==
  ASSUME NEW e \in Edits, EditOK(e), Extends
  PROVE  EditOK(e)'
BY EditShapes DEF EditOK, Extends

\* A request that is not under way relies on nothing.
LEMMA IdleEdit == Idle \in Edits /\ EditOK(Idle) /\ EditOK(Idle)'
BY DEF Idle, Edits, EditOK

\* A step that sets one request keeps what the others rely on.
LEMMA EditsKept ==
  ASSUME EditInv, Extends, NEW r \in ProfileRequests, NEW e \in Edits, EditOK(e)',
         edit' = [edit EXCEPT ![r] = e]
  PROVE  EditInv'
<1>1. edit' \in [ProfileRequests -> Edits]
  BY DEF EditInv
<1>2. ASSUME NEW q \in ProfileRequests
      PROVE  EditOK(edit[q])'
  <2>1. CASE q = r
    BY <2>1 DEF EditInv
  <2>2. CASE q # r
    <3>1. edit'[q] = edit[q] /\ edit[q] \in Edits /\ EditOK(edit[q])
      BY <2>2 DEF EditInv
    <3> QED  BY <3>1, EditStaysOK
  <2> QED  BY <2>1, <2>2
<1> QED  BY <1>1, <1>2 DEF EditInv

\* A request that reads and checks changes no row.
LEMMA BeginKeeps ==
  ASSUME ProfilesInv, NEW r \in ProfileRequests, NEW e \in Edits, EditOK(e), Begins(r, e),
         UNCHANGED <<profile, store, address, setting, privacy, used>>, UNCHANGED authVars
  PROVE  ProfilesInv' /\ Versioned
<1>1. Extends
  BY DEF Extends, Exists
<1>2. EditOK(e)'
  BY <1>1, EditStaysOK
<1>3. EditInv'
  BY <1>1, <1>2, EditsKept DEF ProfilesInv, Begins
<1>4. TableTypes' /\ ProfilesKnown' /\ OneDefault(address)' /\ KeysName'
  BY DEF ProfilesInv, TableTypes, ProfilesKnown, OneDefault, KeysName, Exists, Registered, authVars
<1> QED  BY <1>3, <1>4 DEF ProfilesInv, Versioned, Changed

\* A request to change a profile keeps or replaces its status as a buyer may.
LEMMA ChangeAsked ==
  ASSUME ProfilesInv, UNCHANGED authVars, NEW r \in ProfileRequests, NEW u \in Users, Exists(profile[u]),
         NEW new \in ProfileRows, new.status \in {profile[u].status, "active", "deactivated"},
         Change(r, u, new)
  PROVE  ProfilesInv' /\ Versioned
<1> DEFINE e == [op |-> "profile", user |-> u, saw |-> profile[u], new |-> new]
<1>1. profile[u] \in ProfileRows
  BY ExistsIsRow DEF ProfilesInv, TableTypes
<1>2. e \in Edits /\ EditOK(e)
  BY <1>1 DEF Edits, EditOK
<1> QED  BY <1>2, BeginKeeps DEF Change

\* Asking to change a profile changes no row.
LEMMA ProfileAskSteps ==
  ASSUME ProfilesInv, UNCHANGED authVars, NEW r \in ProfileRequests, NEW u \in Users, NEW b \in BOOLEAN,
         AskToUpdateProfile(r, u, b) \/ AskToDeactivate(r, u) \/ AskToReactivate(r, u)
  PROVE  ProfilesInv' /\ Versioned
<1>1. Exists(profile[u]) /\ profile[u] \in ProfileRows
  BY ExistsIsRow DEF AskToUpdateProfile, AskToDeactivate, AskToReactivate, Member, ProfilesInv, TableTypes
<1>2. CASE AskToUpdateProfile(r, u, b)
  <2> DEFINE new == [profile[u] EXCEPT !.complete = b]
  <2>1. new \in ProfileRows /\ new.status = profile[u].status
    BY <1>1 DEF ProfileRows
  <2> HIDE DEF new
  <2> QED  BY <1>1, <1>2, <2>1, ChangeAsked DEF AskToUpdateProfile, new
<1>3. CASE AskToDeactivate(r, u)
  <2> DEFINE new == [profile[u] EXCEPT !.status = "deactivated"]
  <2>1. new \in ProfileRows /\ new.status = "deactivated"
    BY <1>1 DEF ProfileRows, Statuses
  <2> QED  BY <1>1, <1>3, <2>1, ChangeAsked DEF AskToDeactivate
<1>4. CASE AskToReactivate(r, u)
  <2> DEFINE new == [profile[u] EXCEPT !.status = "active"]
  <2>1. new \in ProfileRows /\ new.status = "active"
    BY <1>1 DEF ProfileRows, Statuses
  <2> QED  BY <1>1, <1>4, <2>1, ChangeAsked DEF AskToReactivate
<1> QED  BY <1>2, <1>3, <1>4

\* Asking to change a seller profile changes no row.
LEMMA StoreAskStep ==
  ASSUME ProfilesInv, UNCHANGED authVars, NEW r \in ProfileRequests, NEW u \in Users, NEW slug \in Slugs,
         AskToUpdateSeller(r, u, slug)
  PROVE  ProfilesInv' /\ Versioned
<1> DEFINE new == [store[u] EXCEPT !.slug = slug]
           e == [op |-> "store", user |-> u, saw |-> store[u], new |-> new]
<1>1. store[u] \in StoreRows /\ new \in StoreRows
  BY ExistsIsRow DEF AskToUpdateSeller, StoreRows, ProfilesInv, TableTypes
<1>2. e \in Edits /\ EditOK(e)
  <2> HIDE DEF new
  <2> QED  BY <1>1 DEF Edits, EditOK
<1> QED  BY <1>2, BeginKeeps DEF AskToUpdateSeller

\* Default addresses are addresses that were made.
LEMMA DefaultsExist == \A u \in Users, type \in Types :
  /\ DefaultsOf(u, type) \in SUBSET Addresses
  /\ \A a \in DefaultsOf(u, type) : Exists(address[a])
BY DEF DefaultsOf, Active

\* Asking for a new address changes no row.
LEMMA NewAddressAskStep ==
  ASSUME ProfilesInv, UNCHANGED authVars, NEW r \in ProfileRequests, NEW u \in Users, NEW k \in Keys,
         NEW type \in Types, NEW b \in BOOLEAN, AskToCreateAddress(r, u, k, type, b)
  PROVE  ProfilesInv' /\ Versioned
<1> DEFINE old == IF b THEN DefaultsOf(u, type) ELSE {}
           row == [version |-> 1, user |-> u, type |-> type, default |-> b, deleted |-> FALSE, key |-> k]
           e == [op |-> "new address", cleared |-> old, new |-> row]
<1>1. old \in SUBSET Addresses /\ \A a \in old : Exists(address[a])
  BY DefaultsExist
<1>2. row \in AddressRows /\ row.version = 1
  BY DEF AddressRows, Versions
<1>3. e \in Edits /\ EditOK(e)
  <2> HIDE DEF old, row
  <2> QED  BY <1>1, <1>2 DEF Edits, EditOK
<1> QED  BY <1>3, BeginKeeps DEF AskToCreateAddress

\* An address is changed in place: its user and its key stay.
LEMMA AddressAsked ==
  ASSUME ProfilesInv, UNCHANGED authVars, NEW r \in ProfileRequests, NEW a \in Addresses,
         NEW new \in AddressRows, new.user = address[a].user, new.key = address[a].key,
         NEW old \in SUBSET Addresses, \A x \in old : Exists(address[x]), address[a] \in AddressRows,
         Begins(r, [op |-> "address", address |-> a, saw |-> address[a], cleared |-> old, new |-> new]),
         UNCHANGED <<profile, store, address, setting, privacy, used>>
  PROVE  ProfilesInv' /\ Versioned
<1> DEFINE e == [op |-> "address", address |-> a, saw |-> address[a], cleared |-> old, new |-> new]
<1>1. e \in Edits /\ EditOK(e)
  BY DEF Edits, EditOK
<1> QED  BY <1>1, BeginKeeps

\* Asking to change or to delete an address changes no row.
LEMMA AddressAskSteps ==
  ASSUME ProfilesInv, UNCHANGED authVars, NEW r \in ProfileRequests, NEW a \in Addresses,
         NEW type \in Types, NEW b \in BOOLEAN, NEW named \in BOOLEAN,
         AskToUpdateAddress(r, a, type, b, named) \/ AskToDeleteAddress(r, a)
  PROVE  ProfilesInv' /\ Versioned
<1>1. address[a] \in AddressRows /\ address[a].user \in Users
  BY ExistsIsRow DEF AskToUpdateAddress, AskToDeleteAddress, Active, AddressRows, ProfilesInv, TableTypes
<1>2. CASE AskToUpdateAddress(r, a, type, b, named)
  <2> DEFINE old == IF named /\ b THEN DefaultsOf(address[a].user, type) \ {a} ELSE {}
             new == [address[a] EXCEPT !.type = type, !.default = b]
  <2>1. old \in SUBSET Addresses /\ \A x \in old : Exists(address[x])
    BY <1>1, DefaultsExist
  <2>2. new \in AddressRows /\ new.user = address[a].user /\ new.key = address[a].key
    BY <1>1 DEF AddressRows
  <2>3. Begins(r, [op |-> "address", address |-> a, saw |-> address[a], cleared |-> old, new |-> new])
    BY <1>2 DEF AskToUpdateAddress
  <2> HIDE DEF old, new
  <2> QED  BY <1>1, <1>2, <2>1, <2>2, <2>3, AddressAsked DEF AskToUpdateAddress
<1>3. CASE AskToDeleteAddress(r, a)
  <2> DEFINE new == [address[a] EXCEPT !.deleted = TRUE, !.default = FALSE]
  <2>1. new \in AddressRows /\ new.user = address[a].user /\ new.key = address[a].key
    BY <1>1 DEF AddressRows
  <2>2. Begins(r, [op |-> "address", address |-> a, saw |-> address[a], cleared |-> {}, new |-> new])
    BY <1>3 DEF AskToDeleteAddress
  <2> HIDE DEF new
  <2> QED  BY <1>1, <1>3, <2>1, <2>2, AddressAsked DEF AskToDeleteAddress
<1> QED  BY <1>2, <1>3

\* Asking to set any settings changes no row.
LEMMA SettingsAskStep ==
  ASSUME ProfilesInv, UNCHANGED authVars, NEW r \in ProfileRequests, NEW u \in Users,
         NEW values \in SettingValues, AskToSet(r, u, values)
  PROVE  ProfilesInv' /\ Versioned
<1> DEFINE e == [op |-> "settings", user |-> u, saw |-> setting[u], values |-> values]
<1>1. setting[u] \in UserSettings
  BY DEF ProfilesInv, TableTypes
<1>2. e \in Edits /\ EditOK(e)
  BY <1>1 DEF Edits, EditOK, AskToSet, Member
<1> QED  BY <1>2, BeginKeeps DEF AskToSet

\* The two kinds of settings are such settings.
LEMMA SettingAskSteps ==
  ASSUME ProfilesInv, UNCHANGED authVars, SettingAsks
  PROVE  ProfilesInv' /\ Versioned
<1>1. ASSUME NEW r \in ProfileRequests, NEW u \in Users, NEW b \in BOOLEAN,
             AskToUpdatePreferences(r, u, b)
      PROVE  ProfilesInv' /\ Versioned
  <2> DEFINE values == [s \in {"preferences"} |-> b]
  <2>1. {"preferences"} \in SUBSET Settings
    BY DEF Settings
  <2>2. values \in [{"preferences"} -> BOOLEAN]
    OBVIOUS
  <2> HIDE DEF values
  <2>3. values \in SettingValues
    BY <2>1, <2>2 DEF SettingValues
  <2> QED  BY <1>1, <2>3, SettingsAskStep DEF AskToUpdatePreferences, values
<1>2. ASSUME NEW r \in ProfileRequests, NEW u \in Users, AskToUpsertConsents(r, u)
      PROVE  ProfilesInv' /\ Versioned
  <2>1. PICK chosen \in SUBSET Consents : \E values \in [chosen -> BOOLEAN] : AskToSet(r, u, values)
    BY <1>2 DEF AskToUpsertConsents
  <2>2. PICK values \in [chosen -> BOOLEAN] : AskToSet(r, u, values)
    BY <2>1
  <2>3. values \in SettingValues
    BY DEF SettingValues, Settings
  <2> QED  BY <2>2, <2>3, SettingsAskStep
<1> QED  BY <1>1, <1>2 DEF SettingAsks

\* Asking for a privacy request changes no row.
LEMMA PrivacyAskStep ==
  ASSUME ProfilesInv, UNCHANGED authVars, NEW r \in ProfileRequests, NEW u \in Users,
         NEW type \in PrivacyTypes, NEW k \in Keys, AskForPrivacy(r, u, type, k)
  PROVE  ProfilesInv' /\ Versioned
<1> DEFINE e == [op |-> "privacy", user |-> u, type |-> type, key |-> k, saw |-> profile[u]]
<1>1. profile[u] \in ProfileRows
  BY ExistsIsRow DEF AskForPrivacy, Member, ProfilesInv, TableTypes
<1>2. e \in Edits /\ EditOK(e)
  BY <1>1 DEF Edits, EditOK
<1> QED  BY <1>2, BeginKeeps DEF AskForPrivacy

-----------------------------------------------------------------------------
\* A commit ends its request; what remains is to look at the tables.
LEMMA DoneKeeps ==
  ASSUME ProfilesInv, NEW r \in ProfileRequests, Done(r) \/ edit' = edit,
         TableTypes', ProfilesKnown', OneDefault(address)', KeysName', Extends
  PROVE  ProfilesInv'
<1>1. CASE Done(r)
  BY <1>1, IdleEdit, EditsKept DEF Done, ProfilesInv
<1>2. CASE edit' = edit
  BY <1>2, EditStaysOK DEF ProfilesInv, EditInv
<1> QED  BY <1>1, <1>2

\* A profile is made for a holder of an access token, who is verified.
LEMMA CreateProfileStep ==
  ASSUME AuthInv, ProfilesInv, UNCHANGED authVars, NEW u \in Users, NEW b \in BOOLEAN, CreateProfile(u, b)
  PROVE  ProfilesInv' /\ Versioned
<1> DEFINE row == [version |-> 1, complete |-> b, status |-> "active"]
           pref == [version |-> 1, value |-> FALSE]
<1>1. row \in ProfileRows /\ row.version = 1 /\ row.status = "active"
  BY DEF ProfileRows, Versions, Statuses
<1>2. pref \in SettingRows /\ pref.version = 1
  BY DEF SettingRows, Versions
<1>3. /\ profile[u] = NoRow /\ NoRow.version = 0
      /\ \A s \in Settings : setting[u][s] = NoRow
  BY ExistsIsRow DEF CreateProfile, ProfilesInv, TableTypes, ProfilesKnown, NoRow
<1>4. /\ profile' = [profile EXCEPT ![u] = row]
      /\ setting' = [setting EXCEPT ![u]["preferences"] = pref]
      /\ UNCHANGED <<store, address, privacy, used, edit>>
  BY DEF CreateProfile
<1>5. Registered(u) /\ user[u].verified
  BY DEF CreateProfile, AuthInv, RowInv, Owned, HoldersAreVerified
<1> HIDE DEF row, pref
<1>6. /\ setting' \in [Users -> UserSettings]
      /\ \A v \in Users, s \in Settings :
           setting'[v][s] = IF v = u /\ s = "preferences" THEN pref ELSE setting[v][s]
  BY <1>2, <1>4 DEF ProfilesInv, TableTypes, UserSettings
<1>7. TableTypes'
  BY <1>1, <1>4, <1>6 DEF ProfilesInv, TableTypes
<1>8. Exists(row)
  BY <1>1 DEF Exists
<1>9. ProfilesKnown'
  BY <1>1, <1>4, <1>5, <1>6, <1>8 DEF ProfilesInv, TableTypes, ProfilesKnown, Registered, authVars, Exists
<1>10. OneDefault(address)' /\ KeysName' /\ Extends
  BY <1>4, <1>8 DEF ProfilesInv, TableTypes, OneDefault, KeysName, Extends, Exists
<1>11. Versioned
  BY <1>1, <1>2, <1>3, <1>4, <1>6 DEF Versioned, Changed, ProfilesInv, TableTypes
<1>12. EditInv'
  BY <1>4, <1>10, EditStaysOK DEF ProfilesInv, EditInv
<1> QED  BY <1>7, <1>9, <1>10, <1>11, <1>12 DEF ProfilesInv

\* A profile is changed from the version that was read.
LEMMA UpdateProfileStep ==
  ASSUME ProfilesInv, UNCHANGED authVars, NEW r \in ProfileRequests, UpdateProfile(r)
  PROVE  ProfilesInv' /\ Versioned
<1>1. PICK e \in Edits : e = edit[r] /\ EditOK(e) /\ e.op = "profile"
  BY DEF UpdateProfile, ProfilesInv, EditInv
<1>2. PICK u \in Users : u = e.user /\ e.saw \in ProfileRows /\ e.new \in ProfileRows
  BY <1>1, EditShapes
<1> DEFINE row == Store(profile[u], e.saw, e.new)
<1>3. /\ profile[u] \in ProfileRows /\ row \in ProfileRows /\ row.version = profile[u].version + 1
      /\ row.status \in {profile[u].status, "active", "deactivated"}
  <2>1. SameVersion(profile[u], e.saw) /\ profile[u] \in ProfileRows \union {NoRow}
    BY <1>1, <1>2 DEF UpdateProfile, ProfilesInv, TableTypes
  <2>2. /\ profile[u] \in ProfileRows /\ row \in ProfileRows /\ row.version = profile[u].version + 1
        /\ row.status \in {profile[u].status, e.new.status}
        /\ e.new.status = e.saw.status => row.status = profile[u].status
    BY <1>2, <2>1, StoredProfile
  <2> QED  BY <1>1, <2>2 DEF EditOK
<1>4. /\ profile' = [profile EXCEPT ![u] = row] /\ Done(r)
      /\ UNCHANGED <<store, address, setting, privacy, used>>
  BY <1>1, <1>2 DEF UpdateProfile
<1> HIDE DEF row
<1>5. TableTypes'
  BY <1>3, <1>4 DEF ProfilesInv, TableTypes
<1>6. ProfilesKnown'
  BY <1>3, <1>4, ExistsIsRow DEF ProfilesInv, TableTypes, ProfilesKnown, Registered, authVars
<1>7. OneDefault(address)' /\ KeysName' /\ Extends
  BY <1>3, <1>4, ExistsIsRow DEF ProfilesInv, TableTypes, OneDefault, KeysName, Extends, Exists
<1>8. Versioned
  BY <1>3, <1>4 DEF Versioned, Changed, ProfilesInv, TableTypes
<1> QED  BY <1>4, <1>5, <1>6, <1>7, <1>8, DoneKeeps

\* A seller profile is made beside a profile.
LEMMA CreateSellerStep ==
  ASSUME ProfilesInv, UNCHANGED authVars, NEW u \in Users, NEW slug \in Slugs, CreateSeller(u, slug)
  PROVE  ProfilesInv' /\ Versioned
<1> DEFINE row == [version |-> 1, slug |-> slug]
<1>1. row \in StoreRows /\ row.version = 1
  BY DEF StoreRows, Versions
<1>2. store[u] = NoRow /\ NoRow.version = 0
  BY ExistsIsRow DEF CreateSeller, ProfilesInv, TableTypes, NoRow
<1>3. /\ store' = [store EXCEPT ![u] = row]
      /\ UNCHANGED <<profile, address, setting, privacy, used, edit>>
  BY DEF CreateSeller
<1> HIDE DEF row
<1>4. TableTypes'
  BY <1>1, <1>3 DEF ProfilesInv, TableTypes
<1>5. ProfilesKnown'
  BY <1>3 DEF CreateSeller, Member, ProfilesInv, TableTypes, ProfilesKnown, Registered, authVars
<1>6. OneDefault(address)' /\ KeysName' /\ Extends
  BY <1>3 DEF ProfilesInv, OneDefault, KeysName, Extends, Exists
<1>7. Versioned
  BY <1>1, <1>2, <1>3 DEF Versioned, Changed, ProfilesInv, TableTypes
<1>8. EditInv'
  BY <1>3, <1>6, EditStaysOK DEF ProfilesInv, EditInv
<1> QED  BY <1>4, <1>5, <1>6, <1>7, <1>8 DEF ProfilesInv

\* A seller profile is changed from the version that was read.
LEMMA UpdateSellerStep ==
  ASSUME ProfilesInv, UNCHANGED authVars, NEW r \in ProfileRequests, UpdateSeller(r)
  PROVE  ProfilesInv' /\ Versioned
<1>1. PICK e \in Edits : e = edit[r] /\ e.op = "store"
  BY DEF UpdateSeller, ProfilesInv, EditInv
<1>2. PICK u \in Users : u = e.user /\ e.saw \in StoreRows /\ e.new \in StoreRows
  BY <1>1, EditShapes
<1> DEFINE row == Store(store[u], e.saw, e.new)
<1>3. store[u] \in StoreRows /\ row \in StoreRows /\ row.version = store[u].version + 1
  <2>1. SameVersion(store[u], e.saw) /\ store[u] \in StoreRows \union {NoRow}
    BY <1>1, <1>2 DEF UpdateSeller, ProfilesInv, TableTypes
  <2> QED  BY <1>2, <2>1, StoredStore
<1>4. /\ store' = [store EXCEPT ![u] = row] /\ Done(r)
      /\ UNCHANGED <<profile, address, setting, privacy, used>>
  BY <1>1, <1>2 DEF UpdateSeller
<1> HIDE DEF row
<1>5. TableTypes'
  BY <1>3, <1>4 DEF ProfilesInv, TableTypes
<1>6. ProfilesKnown'
  BY <1>3, <1>4, ExistsIsRow DEF ProfilesInv, TableTypes, ProfilesKnown, Registered, authVars
<1>7. OneDefault(address)' /\ KeysName' /\ Extends
  BY <1>4 DEF ProfilesInv, OneDefault, KeysName, Extends, Exists
<1>8. Versioned
  BY <1>3, <1>4 DEF Versioned, Changed, ProfilesInv, TableTypes
<1> QED  BY <1>4, <1>5, <1>6, <1>7, <1>8, DoneKeeps

\* Rows of addresses after one was written and others lost their mark as
\* default: those that were there keep their user and their key, and what
\* changes has its next version.
Rewritten(rows, a, row) ==
  /\ rows \in [Addresses -> AddressRows \union {NoRow}] /\ rows[a] = row
  /\ \A x \in Addresses : Changed(address[x], rows[x])
  /\ \A x \in Addresses : Exists(address[x]) =>
       Exists(rows[x]) /\ rows[x].user = address[x].user /\ rows[x].key = address[x].key
  /\ \A x \in Addresses : x # a => (Exists(rows[x]) => Exists(address[x]))

\* One address written and defaults cleared: rows move on, and keys still name them.
LEMMA Written ==
  ASSUME TableTypes, NEW a \in Addresses, NEW row \in AddressRows, row.version = address[a].version + 1,
         Exists(address[a]) => row.user = address[a].user /\ row.key = address[a].key,
         NEW cleared \in SUBSET Addresses, \A x \in cleared : Exists(address[x])
  PROVE  Rewritten(Write(address, cleared, a, row), a, row)
<1> DEFINE rows == Write(address, cleared, a, row)
           lost(x) == NextVersion([address[x] EXCEPT !.default = FALSE])
<1>1. rows[a] = row
  BY DEF Write
<1>2. ASSUME NEW x \in cleared
      PROVE  /\ lost(x) \in AddressRows /\ lost(x).version = address[x].version + 1
             /\ lost(x).user = address[x].user /\ lost(x).key = address[x].key
  <2>1. address[x] \in AddressRows
    BY ExistsIsRow DEF TableTypes
  <2> DEFINE plain == [address[x] EXCEPT !.default = FALSE]
  <2>2. /\ plain \in AddressRows /\ plain.version = address[x].version
        /\ plain.user = address[x].user /\ plain.key = address[x].key
    BY <2>1 DEF AddressRows
  <2> HIDE DEF plain
  <2>3. /\ NextVersion(plain) \in AddressRows /\ NextVersion(plain).version = plain.version + 1
        /\ NextVersion(plain).user = plain.user /\ NextVersion(plain).key = plain.key
    BY <2>2 DEF NextVersion, AddressRows, Versions
  <2> QED  BY <2>2, <2>3 DEF plain
<1>3. ASSUME NEW x \in Addresses, x # a
      PROVE  rows[x] = IF x \in cleared THEN lost(x) ELSE address[x]
  BY <1>3 DEF Write
<1>4. rows = [x \in Addresses |-> rows[x]]
  BY DEF Write
<1> HIDE DEF rows, lost
<1>5. \A x \in Addresses : rows[x] \in AddressRows \union {NoRow}
  BY <1>1, <1>2, <1>3 DEF TableTypes
<1>6. rows \in [Addresses -> AddressRows \union {NoRow}]
  BY <1>4, <1>5
<1>7. \A x \in Addresses : Changed(address[x], rows[x])
  BY <1>1, <1>2, <1>3 DEF Changed
<1>8. \A x \in Addresses : Exists(address[x]) =>
        Exists(rows[x]) /\ rows[x].user = address[x].user /\ rows[x].key = address[x].key
  BY <1>1, <1>2, <1>3, ExistsIsRow
<1>9. \A x \in Addresses : x # a => (Exists(rows[x]) => Exists(address[x]))
  BY <1>3
<1> QED  BY <1>1, <1>6, <1>7, <1>8, <1>9 DEF rows, Rewritten

\* A new address is the one its key names.
LEMMA CreateAddressStep ==
  ASSUME ProfilesInv, UNCHANGED authVars, NEW r \in ProfileRequests, CreateAddress(r)
  PROVE  ProfilesInv' /\ Versioned
<1>1. PICK e \in Edits : e = edit[r] /\ EditOK(e) /\ e.op = "new address"
  BY DEF CreateAddress, ProfilesInv, EditInv
<1>2. /\ e.new \in AddressRows /\ e.new.version = 1 /\ e.new.user \in Users /\ e.new.key \in Keys
      /\ e.cleared \in SUBSET Addresses /\ \A x \in e.cleared : Exists(address[x])
  BY <1>1, EditShapes DEF EditOK, AddressRows
<1>3. PICK u \in Users, k \in Keys : u = e.new.user /\ k = e.new.key
  BY <1>2
<1>4. PICK a \in Addresses : a = (CHOOSE x \in Addresses : ~Exists(address[x])) /\ ~Exists(address[a])
  BY DEF CreateAddress
<1>5. address[a] = NoRow /\ NoRow.version = 0
  BY <1>4, ExistsIsRow DEF ProfilesInv, TableTypes, NoRow
<1>6. /\ address' = Write(address, e.cleared, a, e.new) /\ OneDefault(address')
      /\ used' = [used EXCEPT ![u].address[k] = a] /\ used[u].address[k] = None
      /\ Done(r) /\ UNCHANGED <<profile, store, setting, privacy>>
  BY <1>1, <1>3, <1>4 DEF CreateAddress, KeyFree
<1>7. Rewritten(address', a, e.new)
  BY <1>2, <1>4, <1>5, <1>6, Written DEF ProfilesInv
<1>8. /\ used' \in [Users -> [address : [Keys -> Addresses \union {None}],
                             privacy : [Keys -> PrivacyTypes \union {None}]]]
      /\ \A v \in Users, j \in Keys :
           used'[v].address[j] = IF v = u /\ j = k THEN a ELSE used[v].address[j]
  <2>1. PICK keys \in [address : [Keys -> Addresses \union {None}],
                       privacy : [Keys -> PrivacyTypes \union {None}]] : keys = used[u]
    BY DEF ProfilesInv, TableTypes
  <2>2. PICK more : more = [keys EXCEPT !.address[k] = a]
    OBVIOUS
  <2>3. /\ more \in [address : [Keys -> Addresses \union {None}],
                     privacy : [Keys -> PrivacyTypes \union {None}]]
        /\ \A j \in Keys : more.address[j] = IF j = k THEN a ELSE keys.address[j]
    BY <2>2
  <2>4. used' = [used EXCEPT ![u] = more]
    BY <1>6, <2>1, <2>2
  <2> QED  BY <2>1, <2>3, <2>4 DEF ProfilesInv, TableTypes
<1>9. TableTypes'
  BY <1>6, <1>7, <1>8 DEF ProfilesInv, TableTypes, Rewritten
<1>10. ProfilesKnown'
  BY <1>6 DEF ProfilesInv, ProfilesKnown, Registered, authVars, Exists
<1>11. KeysName'
  <2> SUFFICES ASSUME NEW x \in Addresses, Exists(address'[x])
               PROVE  used'[address'[x].user].address[address'[x].key] = x
    BY DEF KeysName, Exists
  <2>1. CASE x = a
    BY <1>3, <1>7, <1>8, <2>1 DEF Rewritten
  <2>2. CASE x # a
    <3>1. Exists(address[x]) /\ address[x] \in AddressRows
      BY <1>7, <2>2, ExistsIsRow DEF Rewritten, ProfilesInv, TableTypes
    <3>2. /\ address[x].user \in Users /\ address[x].key \in Keys
          /\ used[address[x].user].address[address[x].key] = x
      BY <3>1 DEF AddressRows, ProfilesInv, KeysName
    <3>3. x # None
      BY NoRowAssumption
    <3> QED  BY <1>6, <1>7, <1>8, <3>1, <3>2, <3>3 DEF Rewritten
  <2> QED  BY <2>1, <2>2
<1>12. Extends /\ Versioned
  BY <1>6, <1>7 DEF Rewritten, Extends, Versioned, Changed, Exists
<1> QED  BY <1>6, <1>9, <1>10, <1>11, <1>12, DoneKeeps DEF OneDefault, Exists

\* An address is changed, or marked deleted, in place.
LEMMA UpdateAddressStep ==
  ASSUME ProfilesInv, UNCHANGED authVars, NEW r \in ProfileRequests, UpdateAddress(r)
  PROVE  ProfilesInv' /\ Versioned
<1>1. PICK e \in Edits : e = edit[r] /\ EditOK(e) /\ e.op = "address"
  BY DEF UpdateAddress, ProfilesInv, EditInv
<1>2. /\ e.saw \in AddressRows /\ e.new \in AddressRows
      /\ e.new.user = e.saw.user /\ e.new.key = e.saw.key
      /\ e.cleared \in SUBSET Addresses /\ \A x \in e.cleared : Exists(address[x])
  BY <1>1, EditShapes DEF EditOK
<1>3. PICK a \in Addresses : a = e.address
  BY <1>1, EditShapes
<1>4. SameVersion(address[a], e.saw) /\ address[a] \in AddressRows \union {NoRow}
  BY <1>1, <1>3 DEF UpdateAddress, ProfilesInv, TableTypes
<1>5. PICK row \in AddressRows : /\ row = Store(address[a], e.saw, e.new)
                                 /\ row.version = address[a].version + 1 /\ address[a] \in AddressRows
                                 /\ row.user = address[a].user /\ row.key = address[a].key
  BY <1>2, <1>4, StoredAddress
<1>6. /\ address' = Write(address, e.cleared, a, row) /\ OneDefault(address')
      /\ Done(r) /\ UNCHANGED <<profile, store, setting, privacy, used>>
  BY <1>1, <1>3, <1>5 DEF UpdateAddress
<1>7. Rewritten(address', a, row)
  BY <1>2, <1>5, <1>6, Written DEF ProfilesInv
<1>8. \A x \in Addresses : Exists(address'[x]) =>
        Exists(address[x]) /\ address'[x].user = address[x].user /\ address'[x].key = address[x].key
  BY <1>5, <1>7, ExistsIsRow DEF Rewritten
<1>9. TableTypes' /\ ProfilesKnown'
  BY <1>6, <1>7 DEF ProfilesInv, TableTypes, ProfilesKnown, Registered, authVars, Exists, Rewritten
<1>10. KeysName'
  BY <1>6, <1>8 DEF ProfilesInv, KeysName, Exists
<1>11. Extends /\ Versioned
  BY <1>6, <1>7 DEF Rewritten, Extends, Versioned, Changed, Exists
<1> QED  BY <1>6, <1>9, <1>10, <1>11, DoneKeeps DEF OneDefault, Exists

\* Each setting is changed from the version that was read.
LEMMA UpdateSettingsStep ==
  ASSUME ProfilesInv, UNCHANGED authVars, NEW r \in ProfileRequests, UpdateSettings(r)
  PROVE  ProfilesInv' /\ Versioned
<1>1. PICK e \in Edits : e = edit[r] /\ EditOK(e) /\ e.op = "settings"
  BY DEF UpdateSettings, ProfilesInv, EditInv
<1>2. PICK u \in Users : /\ u = e.user /\ e.saw \in UserSettings /\ e.values \in SettingValues
                         /\ Exists(profile[u])
  BY <1>1, EditShapes DEF EditOK
<1>3. DOMAIN e.values \subseteq Settings /\ \A s \in DOMAIN e.values : e.values[s] \in BOOLEAN
  BY <1>2, SettingsChosen
<1>4. /\ \A s \in DOMAIN e.values : SameVersion(setting[u][s], e.saw[s])
      /\ setting' = [setting EXCEPT ![u] = [s \in Settings |->
           IF s \in DOMAIN e.values THEN Set(setting[u][s], e.saw[s], e.values[s]) ELSE setting[u][s]]]
      /\ Done(r) /\ UNCHANGED <<profile, store, address, privacy, used>>
  BY <1>1, <1>2 DEF UpdateSettings
<1>5. ASSUME NEW s \in Settings
      PROVE  setting'[u][s] \in SettingRows \union {NoRow} /\ Changed(setting[u][s], setting'[u][s])
  <2>1. setting[u][s] \in SettingRows \union {NoRow} /\ e.saw[s] \in SettingRows \union {NoRow}
    BY <1>2 DEF ProfilesInv, TableTypes, UserSettings
  <2>2. CASE s \in DOMAIN e.values
    <3>1. setting'[u][s] = Set(setting[u][s], e.saw[s], e.values[s])
      BY <1>4, <2>2 DEF ProfilesInv, TableTypes
    <3> QED  BY <1>3, <1>4, <2>1, <2>2, <3>1, SetSetting DEF Changed
  <2>3. CASE s \notin DOMAIN e.values
    BY <1>4, <2>1, <2>3 DEF ProfilesInv, TableTypes, Changed
  <2> QED  BY <2>2, <2>3
<1>6. setting' \in [Users -> UserSettings]
  <2>1. setting'[u] = [s \in Settings |-> setting'[u][s]]
    BY <1>4 DEF ProfilesInv, TableTypes
  <2>2. setting'[u] \in UserSettings
    BY <1>5, <2>1 DEF UserSettings
  <2> QED  BY <1>4, <2>2 DEF ProfilesInv, TableTypes
<1>7. \A v \in Users : v # u => setting'[v] = setting[v]
  BY <1>4 DEF ProfilesInv, TableTypes
<1>8. TableTypes'
  BY <1>4, <1>6 DEF ProfilesInv, TableTypes
<1>9. ProfilesKnown'
  BY <1>2, <1>4, <1>7 DEF ProfilesInv, ProfilesKnown, Registered, authVars, Exists
<1>10. OneDefault(address)' /\ KeysName' /\ Extends
  BY <1>4 DEF ProfilesInv, OneDefault, KeysName, Extends, Exists
<1>11. Versioned
  BY <1>4, <1>5, <1>7 DEF Versioned, Changed
<1> QED  BY <1>4, <1>8, <1>9, <1>10, <1>11, DoneKeeps

\* A profile waits for deletion together with the request that says so.
LEMMA PrivacyStep ==
  ASSUME ProfilesInv, UNCHANGED authVars, NEW r \in ProfileRequests, CreatePrivacyRequest(r)
  PROVE  ProfilesInv' /\ Versioned
<1>1. PICK e \in Edits : e = edit[r] /\ e.op = "privacy"
  BY DEF CreatePrivacyRequest, ProfilesInv, EditInv
<1>2. PICK u \in Users, k \in Keys : /\ u = e.user /\ k = e.key
                                     /\ e.type \in PrivacyTypes /\ e.saw \in ProfileRows
  BY <1>1, EditShapes
<1>3. /\ privacy' = [privacy EXCEPT ![u] = @ \union {e.type}]
      /\ used' = [used EXCEPT ![u].privacy[k] = e.type]
      /\ Done(r) /\ UNCHANGED <<store, address, setting>>
  BY <1>1, <1>2 DEF CreatePrivacyRequest
<1>4. \/ profile' = profile
      \/ e.type = "deletion" /\ \E row \in ProfileRows :
           /\ profile[u] \in ProfileRows /\ row.version = profile[u].version + 1
           /\ profile' = [profile EXCEPT ![u] = row]
  <2>1. CASE e.type # "deletion"
    BY <1>1, <2>1 DEF CreatePrivacyRequest
  <2>2. CASE e.type = "deletion"
    <3> DEFINE new == [e.saw EXCEPT !.status = "deletion_pending"]
               row == Store(profile[u], e.saw, new)
    <3>1. new \in ProfileRows
      BY <1>2 DEF ProfileRows, Statuses
    <3>2. /\ SameVersion(profile[u], e.saw) /\ profile[u] \in ProfileRows \union {NoRow}
          /\ profile' = [profile EXCEPT ![u] = row]
      BY <1>1, <1>2, <2>2 DEF CreatePrivacyRequest, ProfilesInv, TableTypes
    <3> HIDE DEF new
    <3>3. profile[u] \in ProfileRows /\ row \in ProfileRows /\ row.version = profile[u].version + 1
      BY <1>2, <3>1, <3>2, StoredProfile
    <3> HIDE DEF row
    <3> QED  BY <2>2, <3>2, <3>3
  <2> QED  BY <2>1, <2>2
<1>5. used' \in [Users -> [address : [Keys -> Addresses \union {None}],
                           privacy : [Keys -> PrivacyTypes \union {None}]]]
      /\ \A v \in Users : used'[v].address = used[v].address
  <2>1. PICK kind : kind = e.type
    OBVIOUS
  <2>2. PICK keys \in [address : [Keys -> Addresses \union {None}],
                       privacy : [Keys -> PrivacyTypes \union {None}]] : keys = used[u]
    BY <1>2 DEF ProfilesInv, TableTypes
  <2>3. PICK more : more = [keys EXCEPT !.privacy[k] = kind]
    OBVIOUS
  <2>4. /\ more \in [address : [Keys -> Addresses \union {None}],
                     privacy : [Keys -> PrivacyTypes \union {None}]]
        /\ more.address = keys.address
    BY <1>2, <2>1, <2>3
  <2>5. used' = [used EXCEPT ![u] = more]
    BY <1>3, <2>1, <2>2, <2>3
  <2> QED  BY <1>2, <2>2, <2>4, <2>5 DEF ProfilesInv, TableTypes
<1>6. TableTypes'
  <2>1. profile' \in [Users -> ProfileRows \union {NoRow}]
    BY <1>4 DEF ProfilesInv, TableTypes
  <2>2. privacy' \in [Users -> SUBSET PrivacyTypes]
    BY <1>2, <1>3 DEF ProfilesInv, TableTypes
  <2>3. /\ store' \in [Users -> StoreRows \union {NoRow}]
        /\ address' \in [Addresses -> AddressRows \union {NoRow}]
        /\ setting' \in [Users -> UserSettings]
    BY <1>3 DEF ProfilesInv, TableTypes
  <2> QED  BY <1>5, <2>1, <2>2, <2>3 DEF TableTypes
<1>7. ProfilesKnown'
  BY <1>3, <1>4, ExistsIsRow DEF ProfilesInv, TableTypes, ProfilesKnown, Registered, authVars
<1>8. OneDefault(address)'
  BY <1>3 DEF ProfilesInv, OneDefault, Exists
<1>9. KeysName'
  <2>1. \A a \in Addresses : Exists(address[a]) => address[a].user \in Users
    BY ExistsIsRow DEF ProfilesInv, TableTypes, AddressRows
  <2> QED  BY <1>3, <1>5, <2>1 DEF ProfilesInv, KeysName, Exists
<1>10. Extends
  BY <1>3, <1>4, ExistsIsRow DEF ProfilesInv, TableTypes, Extends, Exists
<1>11. Versioned
  BY <1>3, <1>4 DEF Versioned, Changed, ProfilesInv, TableTypes
<1> QED  BY <1>3, <1>6, <1>7, <1>8, <1>9, <1>10, <1>11, DoneKeeps

\* A request that stops leaves every row alone.
LEMMA AbandonEditStep ==
  ASSUME ProfilesInv, UNCHANGED authVars, NEW r \in ProfileRequests, AbandonEdit(r)
  PROVE  ProfilesInv' /\ Versioned
BY IdleEdit, BeginKeeps, DoneKeeps DEF AbandonEdit, ProfilesInv, TableTypes, ProfilesKnown, OneDefault,
   KeysName, Extends, Versioned, Changed, Exists, Registered, authVars

-----------------------------------------------------------------------------
\* No request changes a row when it reads; a row that is made in one step is new.
LEMMA ProfileAsksStep ==
  ASSUME AuthInv, ProfilesInv, UNCHANGED authVars, ProfileAsks
  PROVE  ProfilesInv' /\ Versioned
<1>1. CASE RowAsks
  <2>1. CASE \E u \in Users, b \in BOOLEAN : CreateProfile(u, b)
    BY <2>1, CreateProfileStep
  <2>2. CASE \E u \in Users, slug \in Slugs : CreateSeller(u, slug)
    BY <2>2, CreateSellerStep
  <2>3. CASE \E r \in ProfileRequests, u \in Users, b \in BOOLEAN : AskToUpdateProfile(r, u, b)
    BY <2>3, ProfileAskSteps
  <2>4. CASE \E r \in ProfileRequests, u \in Users, slug \in Slugs : AskToUpdateSeller(r, u, slug)
    BY <2>4, StoreAskStep
  <2> QED  BY <1>1, <2>1, <2>2, <2>3, <2>4 DEF RowAsks
<1>2. CASE AddressAsks
  <2>1. CASE \E r \in ProfileRequests, u \in Users, k \in Keys, type \in Types, b \in BOOLEAN :
               AskToCreateAddress(r, u, k, type, b)
    BY <2>1, NewAddressAskStep
  <2>2. CASE \E r \in ProfileRequests, a \in Addresses, type \in Types, b, named \in BOOLEAN :
               AskToUpdateAddress(r, a, type, b, named)
    BY <2>2, AddressAskSteps
  <2>3. ASSUME NEW r \in ProfileRequests, NEW a \in Addresses, AskToDeleteAddress(r, a)
        PROVE  ProfilesInv' /\ Versioned
    <3>1. "shipping" \in Types /\ TRUE \in BOOLEAN
      BY DEF Types
    <3> QED  BY <2>3, <3>1, AddressAskSteps
  <2> QED  BY <1>2, <2>1, <2>2, <2>3 DEF AddressAsks
<1>3. CASE SettingAsks
  BY <1>3, SettingAskSteps
<1>4. CASE PrivacyAsks
  <2>1. ASSUME NEW r \in ProfileRequests, NEW u \in Users, AskToDeactivate(r, u) \/ AskToReactivate(r, u)
        PROVE  ProfilesInv' /\ Versioned
    <3>1. TRUE \in BOOLEAN
      OBVIOUS
    <3> QED  BY <2>1, <3>1, ProfileAskSteps
  <2>2. CASE \E r \in ProfileRequests, u \in Users, type \in PrivacyTypes, k \in Keys :
               AskForPrivacy(r, u, type, k)
    BY <2>2, PrivacyAskStep
  <2> QED  BY <1>4, <2>1, <2>2 DEF PrivacyAsks
<1> QED  BY <1>1, <1>2, <1>3, <1>4 DEF ProfileAsks

\* Every commit keeps the invariant and moves versions on.
LEMMA ProfileCommitsStep ==
  ASSUME ProfilesInv, UNCHANGED authVars, ProfileCommits
  PROVE  ProfilesInv' /\ Versioned
BY UpdateProfileStep, UpdateSellerStep, UpdateAddressStep, UpdateSettingsStep, CreateAddressStep,
   PrivacyStep, AbandonEditStep DEF ProfileCommits

\* The Auth service leaves the User service's tables alone, and takes back
\* nothing that they rely on.
LEMMA AuthKeepsProfiles ==
  ASSUME ProfilesInv, UNCHANGED profileVars, Grows
  PROVE  ProfilesInv' /\ Versioned
<1> USE DEF profileVars
<1>1. TableTypes' /\ OneDefault(address)' /\ KeysName'
  BY DEF ProfilesInv, TableTypes, OneDefault, KeysName, Exists
<1>2. ProfilesKnown'
  BY DEF ProfilesInv, ProfilesKnown, Exists, Grows, UsersGrow
<1>3. EditInv'
  BY DEF ProfilesInv, EditInv, EditOK, Exists
<1>4. Versioned
  BY DEF Versioned, Changed
<1> QED  BY <1>1, <1>2, <1>3, <1>4 DEF ProfilesInv

\* The User service leaves the tables of the Auth service alone.
LEMMA ProfilesKeepAuth ==
  ASSUME AuthInv, UNCHANGED authVars
  PROVE  AuthInv' /\ Grows /\ Replaced
<1> USE DEF authVars, Registered, Fresh, Unmade
<1>1. RowInv'
  BY DEF AuthInv, RowInv, RowTypes, Owned, HoldersAreVerified
<1>2. CallInv'
  BY DEF AuthInv, CallInv, CallsOK, CallOK
<1>3. Grows /\ Replaced
  BY DEF Grows, UsersGrow, TokensGrow, SessionsGrow, Replaced
<1> QED  BY <1>1, <1>2, <1>3 DEF AuthInv

-----------------------------------------------------------------------------
\* The inductive invariant of the two services together.
IInv == AuthInv /\ ProfilesInv

\* The invariant holds of empty tables.
LEMMA Start == Init => IInv
<1> SUFFICES ASSUME Init PROVE IInv
  OBVIOUS
<1> USE DEF Init, ProfilesInit
<1>1. AuthInv
  BY AuthStart
<1>2. TableTypes
  <2>1. [s \in Settings |-> NoRow] \in UserSettings
    BY DEF UserSettings
  <2> QED  BY <2>1 DEF TableTypes
<1>3. ProfilesKnown /\ OneDefault(address) /\ KeysName
  BY ExistsIsRow DEF ProfilesKnown, OneDefault, KeysName
<1>4. EditInv
  BY IdleEdit DEF EditInv
<1> QED  BY <1>1, <1>2, <1>3, <1>4 DEF IInv, ProfilesInv

\* The invariant is inductive, and every step has the three properties of steps.
LEMMA Step ==
  ASSUME IInv, [Next]_<<authVars, profileVars>>
  PROVE  IInv' /\ Grows /\ Replaced /\ Versioned
<1>1. ASSUME AuthNext, UNCHANGED profileVars
      PROVE  IInv' /\ Grows /\ Replaced /\ Versioned
  BY <1>1, AuthStep, AuthKeepsProfiles DEF IInv
<1>2. ASSUME ProfileAsks \/ ProfileCommits, UNCHANGED authVars
      PROVE  IInv' /\ Grows /\ Replaced /\ Versioned
  BY <1>2, ProfileAsksStep, ProfileCommitsStep, ProfilesKeepAuth DEF IInv
<1>3. ASSUME UNCHANGED authVars, UNCHANGED profileVars
      PROVE  IInv' /\ Grows /\ Replaced /\ Versioned
  BY <1>3, ProfilesKeepAuth, AuthKeepsProfiles DEF IInv
<1> QED  BY <1>1, <1>2, <1>3 DEF Next, AuthNext

\* What the index says of rows, in terms of the addresses of a user.
LEMMA OneDefaultAddress ==
  ASSUME OneDefault(address), NEW u \in Users, NEW type \in Types
  PROVE  Cardinality(DefaultsOf(u, type)) <= 1
<1>1. \A a, b \in DefaultsOf(u, type) : a = b
  BY DEF OneDefault, DefaultsOf, Active
<1>2. CASE DefaultsOf(u, type) = {}
  BY <1>2, FS_EmptySet
<1>3. CASE DefaultsOf(u, type) # {}
  <2>1. PICK a : DefaultsOf(u, type) = {a}
    BY <1>1, <1>3
  <2>2. Cardinality({a}) = 1
    BY FS_Singleton
  <2> QED  BY <2>1, <2>2
<1> QED  BY <1>2, <1>3

\* The invariant says that the services agree.
LEMMA Agrees == IInv => AccountsAgree
<1> SUFFICES ASSUME IInv PROVE AccountsAgree
  OBVIOUS
<1>1. AuthTypeOK /\ ProfilesTypeOK /\ HoldersAreVerified
  BY DEF IInv, AuthInv, RowInv, RowTypes, CallInv, AuthTypeOK, ProfilesInv, TableTypes, EditInv,
     ProfilesTypeOK
<1>2. OneDefault(address) /\ KeysName /\ ProfilesKnown
  BY DEF IInv, ProfilesInv
<1> QED  BY <1>1, <1>2, OneDefaultAddress DEF KeysName, ProfilesKnown, AccountsAgree

-----------------------------------------------------------------------------
\* So it holds in every reachable state.
LEMMA Invariance == Spec => []IInv
<1>1. IInv /\ [Next]_<<authVars, profileVars>> => IInv'
  BY Step
<1> QED  BY Start, <1>1, PTL DEF Spec

\* Whatever requests race, the two services agree: whoever has a session, an
\* access token or a profile has verified the address, a seller profile stands on
\* a profile, a profile that waits for deletion has its request
\* (account.py request_deletion), a user has one default address of a type at
\* most, and a key stands for the address it made.
THEOREM AccountsStayTrue == Spec => []AccountsAgree
BY Invariance, Agrees, PTL

\* No commit of the Auth service takes back what another one did, although none
\* of its handlers locks what it reads (auth-service app/routes.py): a verified
\* address, a used token, a revoked session, a replaced password.
THEOREM CommitsStand == Spec => NothingTakenBack
<1>1. IInv /\ [Next]_<<authVars, profileVars>> =>
        [/\ \A u \in Users : Registered(u) =>
              /\ user[u].verified => user'[u].verified
              /\ user'[u].password # user[u].password =>
                   \E r \in Requests :
                     /\ call[r].op \in {"reset", "change"}
                     /\ call[r].user = u /\ call[r].password = user'[u].password
                     /\ \A s \in call[r].seen : session'[s].revoked
         /\ \A t \in Tokens : ~Fresh(t) /\ token[t].used => token'[t].used
         /\ \A s \in Sessions : ~Unmade(s) /\ session[s].revoked => session'[s].revoked]_authVars
  BY Step DEF Grows, UsersGrow, TokensGrow, SessionsGrow, Replaced
<1> QED  BY Invariance, <1>1, PTL DEF Spec, NothingTakenBack

\* A version of a row of the User service stands for one content: each change
\* moves it to the next version, so an update that did not see the row as it is
\* never goes through (version_id_col of the models, and clear_default's UPDATE).
THEOREM VersionsAreExact == Spec => VersionsNameContents
<1>1. IInv /\ [Next]_<<authVars, profileVars>> =>
        [/\ \A u \in Users :
              /\ Changed(profile[u], profile'[u]) /\ Changed(store[u], store'[u])
              /\ \A s \in Settings : Changed(setting[u][s], setting'[u][s])
         /\ \A a \in Addresses : Changed(address[a], address'[a])]_profileVars
  BY Step DEF Versioned
<1> QED  BY Invariance, <1>1, PTL DEF Spec, VersionsNameContents

=============================================================================
