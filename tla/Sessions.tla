------------------------------ MODULE Sessions ------------------------------
(***************************************************************************)
(* Logins and sessions of the API: OAuth callback, refresh with rotation,  *)
(* logout, on the tables users, user_oauth_identities and                  *)
(* user_refresh_tokens.                                                    *)
(*                                                                         *)
(* Code: apps/api/internal/service/user, .../transport/rest/auth, .../auth,*)
(* packages/sqlc/gen/users.sql.go, cmd/api/main.go (shutdown).             *)
(*                                                                         *)
(* Requests of several tabs and browsers run side by side; one action is   *)
(* one statement.  A token stands for its row and for the cookie value     *)
(* that hashes to it.  Providers, the OAuth state cookie and the stateless *)
(* access token that accompanies every session are left out.               *)
(***************************************************************************)
EXTENDS Naturals, FiniteSets

CONSTANTS
  Account,   \* provider identities (provider, provider_user_id)
  Browser,   \* cookie jars
  Owner,     \* browser -> the account its user logs in with
  Request,   \* requests in flight at a time (bound)
  UserId, TokenId, \* ids that can be handed out (bounds)
  MaxFaults, \* failed statements, lost answers, shutdowns (bound)
  None

ASSUME ConstantsAssumption ==
  /\ Owner \in [Browser -> Account] /\ MaxFaults \in Nat
  /\ None \notin UserId \cup TokenId

VARIABLES
  users,     \* rows of users
  identity,  \* account -> user it is bound to
  tokens,    \* rows of user_refresh_tokens
  jar,       \* browser -> cookie gogg_refresh
  req,       \* requests in flight
  raced,     \* tokens two refreshes found valid, and accounts two logins found
             \* unknown, at the same time (history)
  faults

vars == <<users, identity, tokens, jar, req, raced, faults>>

Active(r) == req[r] # None
At(r, kinds, pc) == Active(r) /\ req[r].kind \in kinds /\ req[r].pc = pc /\ ~req[r].canceled
Goto(r, pc) == req' = [req EXCEPT ![r].pc = pc]
Answer(r, answer) == req' = [req EXCEPT ![r].pc = "answer", ![r].answer = answer]
Fault == faults < MaxFaults /\ faults' = faults + 1

Valid(t) == tokens[t] # None /\ ~tokens[t].revoked /\ ~tokens[t].expired
AccountOf(r) == Owner[req[r].browser]

Init ==
  /\ users = {} /\ identity = [a \in Account |-> None]
  /\ tokens = [t \in TokenId |-> None]
  /\ jar = [b \in Browser |-> None]
  /\ req = [r \in Request |-> None]
  /\ raced = {} /\ faults = 0

-----------------------------------------------------------------------------
(* Handlers *)

\* A request leaves the browser with the cookie the jar has at that time.  The
\* callback goes on after the exchange with the provider.  Without a cookie a
\* refresh or a logout changes nothing.
Send(r, b, kind) ==
  /\ ~Active(r)
  /\ kind # "login" => jar[b] # None
  /\ req' = [req EXCEPT ![r] = [kind |-> kind, browser |-> b, token |-> jar[b], user |-> None,
                                pc |-> IF kind = "login" THEN "find" ELSE "get",
                                answer |-> None, new |-> None, canceled |-> FALSE]]
  /\ UNCHANGED <<users, identity, tokens, jar, raced, faults>>

\* Two logins of an account that is not known yet.
RivalLogin(r) ==
  \E s \in Request \ {r} : /\ Active(s) /\ req[s].kind = "login" /\ AccountOf(s) = AccountOf(r)
                           /\ req[s].pc \in {"create", "link"}

FoundByEmail(r) == None     \* mutant: the provider's e-mail changes
Found(r) == identity[AccountOf(r)]

\* GetUserByOAuthIdentity.  The upsert of labels for a known identity does not
\* change the binding, and its error is ignored.
FindUser(r) ==
  /\ At(r, {"login"}, "find")
  /\ LET user == Found(r)
     IN  /\ req' = [req EXCEPT ![r].pc = IF user = None THEN "create" ELSE "issue", ![r].user = user]
         /\ raced' = IF user = None /\ RivalLogin(r) THEN raced \cup {AccountOf(r)} ELSE raced
  /\ UNCHANGED <<users, identity, tokens, jar, faults>>

CreateUser(r, u) ==
  /\ At(r, {"login"}, "create")
  /\ u \notin users
  /\ users' = users \cup {u}
  /\ req' = [req EXCEPT ![r].pc = "link", ![r].user = u]
  /\ UNCHANGED <<identity, tokens, jar, raced, faults>>

Rebinds(r) == [identity EXCEPT ![AccountOf(r)] = req[r].user]         \* mutant

\* ON CONFLICT keeps user_id.
Bound(r) == [identity EXCEPT ![AccountOf(r)] = IF @ = None THEN req[r].user ELSE @]

LinkIdentity(r) ==
  /\ At(r, {"login"}, "link")
  /\ identity' = Bound(r)
  /\ Goto(r, "issue")
  /\ UNCHANGED <<users, tokens, jar, raced, faults>>

KnownToken(t) == tokens[t] # None /\ ~tokens[t].expired               \* mutant
Accepts(t) == Valid(t)

RivalRefresh(r) ==
  \E s \in Request \ {r} : Active(s) /\ req[s].kind = "refresh" /\ req[s].token = req[r].token
                             /\ req[s].pc = "revoke"

\* GetRefreshTokenByHash and the checks of RefreshSession.
CheckToken(r) ==
  LET t == req[r].token
  IN  /\ At(r, {"refresh"}, "get")
      /\ IF Accepts(t)
           THEN /\ req' = [req EXCEPT ![r].pc = "revoke", ![r].user = tokens[t].user]
                /\ raced' = IF RivalRefresh(r) THEN raced \cup {t} ELSE raced
           ELSE Answer(r, "unauthorized") /\ UNCHANGED raced
      /\ UNCHANGED <<users, identity, tokens, jar, faults>>

\* Without a cookie, or with one that is unknown, logout only clears it.
FindToken(r) ==
  /\ At(r, {"logout"}, "get")
  /\ IF req[r].token # None /\ tokens[req[r].token] # None THEN Goto(r, "revoke")
     ELSE Answer(r, "cleared")
  /\ UNCHANGED <<users, identity, tokens, jar, raced, faults>>

RevokeAllOfUser(r) ==                                                \* mutant
  [t \in TokenId |-> IF tokens[t] # None /\ tokens[t].user = tokens[req[r].token].user
                       THEN [tokens[t] EXCEPT !.revoked = TRUE] ELSE tokens[t]]

Revoked(r) == [tokens EXCEPT ![req[r].token].revoked = TRUE]

RevokeRefreshToken(r) ==
  /\ At(r, {"refresh", "logout"}, "revoke")
  /\ tokens' = Revoked(r)
  /\ IF req[r].kind = "refresh" THEN Goto(r, "issue") ELSE Answer(r, "cleared")
  /\ UNCHANGED <<users, identity, jar, raced, faults>>

NewRow(r) ==
  [user |-> req[r].user, account |-> AccountOf(r), revoked |-> FALSE, expired |-> FALSE,
   parent |-> IF req[r].kind = "refresh" THEN req[r].token ELSE None]

\* TouchUserLastLogin (of a login; no effect here, and its error ends the login
\* as that of the insert does) and issueSession.
CreateRefreshToken(r, t) ==
  /\ At(r, {"login", "refresh"}, "issue")
  /\ tokens[t] = None
  /\ tokens' = [tokens EXCEPT ![t] = NewRow(r)]
  /\ req' = [req EXCEPT ![r].pc = "answer", ![r].answer = "session", ![r].new = t]
  /\ UNCHANGED <<users, identity, jar, raced, faults>>

-----------------------------------------------------------------------------
(* Failures *)

\* What the handlers make of an error.  Every error of the lookup counts as "not
\* found"; an error in logout is logged and the cookie is cleared all the same.
AfterError(r) ==
  CASE req[r].pc = "find" -> req' = [req EXCEPT ![r].pc = "create"]
    [] req[r].kind = "refresh" /\ req[r].pc = "get" -> Answer(r, "unauthorized")
    [] req[r].kind = "logout" -> Answer(r, "cleared")
    [] OTHER -> Answer(r, "error")

\* The statement may have taken effect although its answer is an error.
Effect(r) ==
  \/ UNCHANGED <<users, identity, tokens>>
  \/ req[r].pc = "link" /\ identity' = Bound(r) /\ UNCHANGED <<users, tokens>>
  \/ req[r].pc = "revoke" /\ tokens' = Revoked(r) /\ UNCHANGED <<users, identity>>
  \/ \E t \in TokenId : /\ req[r].pc = "issue" /\ tokens[t] = None
                        /\ tokens' = [tokens EXCEPT ![t] = NewRow(r)]
                        /\ UNCHANGED <<users, identity>>

\* A statement fails, or the context of the request is done.
Fail(r) ==
  /\ Active(r) /\ req[r].pc # "answer"
  /\ IF req[r].canceled THEN UNCHANGED faults ELSE Fault
  /\ AfterError(r) /\ Effect(r)
  /\ UNCHANGED <<jar, raced>>

\* On a signal the server drains, but the context every request is derived from
\* is done at once (BaseContext of main.go): what is in flight fails.
Shutdown ==
  /\ Fault
  /\ \E r \in Request : Active(r)
  /\ req' = [r \in Request |-> IF Active(r) /\ req[r].pc # "answer"
                                 THEN [req[r] EXCEPT !.canceled = TRUE] ELSE req[r]]
  /\ UNCHANGED <<users, identity, tokens, jar, raced>>

\* The answer reaches the browser, which applies Set-Cookie.
Deliver(r) ==
  /\ Active(r) /\ req[r].pc = "answer"
  /\ jar' = [jar EXCEPT ![req[r].browser] = CASE req[r].answer = "session" -> req[r].new
                                              [] req[r].answer = "cleared" -> None
                                              [] OTHER -> @]
  /\ req' = [req EXCEPT ![r] = None]
  /\ UNCHANGED <<users, identity, tokens, raced, faults>>

Lose(r) ==
  /\ Active(r) /\ req[r].pc = "answer"
  /\ Fault
  /\ req' = [req EXCEPT ![r] = None]
  /\ UNCHANGED <<users, identity, tokens, jar, raced>>

\* Row and cookie have the same expiry.
Expire(t) ==
  /\ Valid(t)
  /\ tokens' = [tokens EXCEPT ![t].expired = TRUE]
  /\ jar' = [b \in Browser |-> IF jar[b] = t THEN None ELSE jar[b]]
  /\ UNCHANGED <<users, identity, req, raced, faults>>

-----------------------------------------------------------------------------
Handle(r) ==
  \/ FindUser(r) \/ LinkIdentity(r)
  \/ \E u \in UserId : CreateUser(r, u)
  \/ CheckToken(r) \/ FindToken(r) \/ RevokeRefreshToken(r)
  \/ \E t \in TokenId : CreateRefreshToken(r, t)

Next ==
  \/ \E r \in Request, b \in Browser, kind \in {"login", "refresh", "logout"} : Send(r, b, kind)
  \/ \E r \in Request : Handle(r) \/ Fail(r) \/ Deliver(r) \/ Lose(r)
  \/ \E t \in TokenId : Expire(t)
  \/ Shutdown

Spec == Init /\ [][Next]_vars

-----------------------------------------------------------------------------
(* Properties *)

Row == [user : UserId, account : Account, revoked : BOOLEAN, expired : BOOLEAN,
        parent : TokenId \cup {None}]

Call == [kind : {"login", "refresh", "logout"}, browser : Browser,
         token : TokenId \cup {None}, user : UserId \cup {None},
         pc : {"find", "create", "link", "get", "revoke", "issue", "answer"},
         answer : {"session", "cleared", "unauthorized", "error", None},
         new : TokenId \cup {None}, canceled : BOOLEAN]

ASSUME NoneIsNothing ==
  None \notin Row /\ None \notin Call /\ None \notin {"session", "cleared"}

\* Every variable has its type, and user ids are those of rows.
TypeOK ==
  /\ users \subseteq UserId /\ identity \in [Account -> users \cup {None}]
  /\ tokens \in [TokenId -> Row \cup {None}]
  /\ \A t \in TokenId : tokens[t] # None => tokens[t].user \in users
  /\ jar \in [Browser -> TokenId \cup {None}]
  /\ req \in [Request -> Call \cup {None}]
  /\ \A r \in Request : Active(r) => req[r].user \in users \cup {None}
  /\ faults \in Nat

Children(t) == {u \in TokenId : tokens[u] # None /\ tokens[u].parent = t}

\* A refresh token gives one session ("one-shot", service.go:117-120), in spite
\* of lost answers, failed revocations and logouts, unless two refreshes had both
\* found it valid before either revoked it.
OneShot == \A t \in TokenId : Cardinality(Children(t)) > 1 => t \in raced

\* As long as nothing fails, no tab and no browser is logged out by another: the
\* token in a jar is not revoked, or a request of this browser that carries it is
\* still under way (and its answer will replace the cookie).
JarIsUsable ==
  faults = 0 => \A b \in Browser : jar[b] # None =>
    \/ ~tokens[jar[b]].revoked
    \/ \E r \in Request : Active(r) /\ req[r].browser = b /\ req[r].token = jar[b]

\* All sessions of an account are those of one user, over any number of logins,
\* unless two first logins overlapped or a call failed (service.go:158-207).
OneUserPerAccount ==
  faults = 0 => \A t, u \in TokenId :
    tokens[t] # None /\ tokens[u] # None /\ tokens[t].account = tokens[u].account =>
      tokens[t].user = tokens[u].user \/ tokens[t].account \in raced

\* An account never changes hands, and users without one only come from logins
\* that overlapped or failed: whatever happens, the next login finds the user the
\* first one bound (users.sql.go:215-227).
BindingIsKept ==
  [][\A a \in Account : identity[a] # None => identity'[a] = identity[a]]_vars
=============================================================================
