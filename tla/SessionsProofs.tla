--------------------------- MODULE SessionsProofs ---------------------------
(***************************************************************************)
(* What Sessions promises, for any number of accounts, browsers, requests, *)
(* users and tokens and any number of failures.                            *)
(*                                                                         *)
(* The invariants: Cookies (who can hold a token, and that an answer not   *)
(* yet delivered is the only place of a new one), Spent (a token that has  *)
(* a child is revoked, and until then at most one refresh can give it      *)
(* one), Undisturbed (who replaces a cookie whose token is revoked) and    *)
(* Bindings (the tokens of an account and the logins on their way to it    *)
(* agree with the identity row).                                           *)
(***************************************************************************)
EXTENDS Sessions, FiniteSetTheorems, TLAPS

-----------------------------------------------------------------------------
(* The steps of a request *)

\* Request r goes on to pc with these values; the others stay as they are.
Becomes(r, pc, user, answer, new) ==
  /\ req' \in [Request -> Call \cup {None}] /\ req'[r] # None
  /\ req'[r].kind = req[r].kind /\ req'[r].browser = req[r].browser
  /\ req'[r].token = req[r].token /\ req'[r].canceled = req[r].canceled
  /\ req'[r].pc = pc /\ req'[r].user = user /\ req'[r].answer = answer /\ req'[r].new = new
  /\ \A s \in Request \ {r} : req'[s] = req[s]

LEMMA CallFacts ==
  ASSUME TypeOK, NEW r \in Request, Active(r)
  PROVE  req[r] \in Call /\ req[r].browser \in Browser /\ AccountOf(r) \in Account
BY ConstantsAssumption DEF TypeOK, Active, Call, AccountOf, ConstantsAssumption

LEMMA BecomesFrom ==
  ASSUME TypeOK, NEW r \in Request, Active(r),
         NEW c \in Call, req' = [req EXCEPT ![r] = c],
         c.kind = req[r].kind, c.browser = req[r].browser, c.token = req[r].token,
         c.canceled = req[r].canceled
  PROVE  Becomes(r, c.pc, c.user, c.answer, c.new)
<1>1. req \in [Request -> Call \cup {None}]
  BY DEF TypeOK
<1>2. /\ req' \in [Request -> Call \cup {None}] /\ req'[r] = c
      /\ \A s \in Request \ {r} : req'[s] = req[s]
  BY <1>1
<1>3. c # None
  BY NoneIsNothing
<1> QED
  BY <1>2, <1>3 DEF Becomes

LEMMA GotoBecomes ==
  ASSUME TypeOK, NEW r \in Request, Active(r),
         NEW pc \in {"find", "create", "link", "get", "revoke", "issue", "answer"}, Goto(r, pc)
  PROVE  Becomes(r, pc, req[r].user, req[r].answer, req[r].new)
<1> DEFINE c == [req[r] EXCEPT !.pc = pc]
<1>1. req[r] \in Call
  BY CallFacts
<1>2. /\ c \in Call /\ c.kind = req[r].kind /\ c.browser = req[r].browser
      /\ c.token = req[r].token /\ c.canceled = req[r].canceled /\ c.pc = pc
      /\ c.user = req[r].user /\ c.answer = req[r].answer /\ c.new = req[r].new
      /\ req[r].user \in UserId \cup {None} /\ req[r].new \in TokenId \cup {None}
      /\ req[r].answer \in {"session", "cleared", "unauthorized", "error", None}
  BY <1>1 DEF Call
<1>3. req' = [req EXCEPT ![r] = c]
  BY DEF Goto
<1> HIDE DEF c
<1>4. Becomes(r, c.pc, c.user, c.answer, c.new)
  BY <1>2, <1>3, BecomesFrom
<1> QED
  BY <1>2, <1>4

LEMMA AnswerBecomes ==
  ASSUME TypeOK, NEW r \in Request, Active(r),
         NEW answer \in {"session", "cleared", "unauthorized", "error"}, Answer(r, answer)
  PROVE  Becomes(r, "answer", req[r].user, answer, req[r].new)
<1> DEFINE c == [req[r] EXCEPT !.pc = "answer", !.answer = answer]
<1>1. req[r] \in Call
  BY CallFacts
<1>2. /\ c \in Call /\ c.kind = req[r].kind /\ c.browser = req[r].browser
      /\ c.token = req[r].token /\ c.canceled = req[r].canceled /\ c.pc = "answer"
      /\ c.user = req[r].user /\ c.answer = answer /\ c.new = req[r].new
      /\ req[r].user \in UserId \cup {None} /\ req[r].new \in TokenId \cup {None}
  BY <1>1 DEF Call
<1>3. req' = [req EXCEPT ![r] = c]
  BY <1>1 DEF Answer, TypeOK
<1> HIDE DEF c
<1>4. Becomes(r, c.pc, c.user, c.answer, c.new)
  BY <1>2, <1>3, BecomesFrom
<1> QED
  BY <1>2, <1>4

LEMMA UserBecomes ==
  ASSUME TypeOK, NEW r \in Request, Active(r), NEW user \in UserId \cup {None},
         NEW pc \in {"find", "create", "link", "get", "revoke", "issue", "answer"},
         req' = [req EXCEPT ![r].pc = pc, ![r].user = user]
  PROVE  Becomes(r, pc, user, req[r].answer, req[r].new)
<1> DEFINE c == [req[r] EXCEPT !.pc = pc, !.user = user]
<1>1. req[r] \in Call
  BY CallFacts
<1>2. /\ c \in Call /\ c.kind = req[r].kind /\ c.browser = req[r].browser
      /\ c.token = req[r].token /\ c.canceled = req[r].canceled /\ c.pc = pc
      /\ c.user = user /\ c.answer = req[r].answer /\ c.new = req[r].new
      /\ req[r].new \in TokenId \cup {None}
      /\ req[r].answer \in {"session", "cleared", "unauthorized", "error", None}
  BY <1>1 DEF Call
<1>3. req' = [req EXCEPT ![r] = c]
  BY <1>1 DEF TypeOK
<1> HIDE DEF c
<1>4. Becomes(r, c.pc, c.user, c.answer, c.new)
  BY <1>2, <1>3, BecomesFrom
<1> QED
  BY <1>2, <1>4

LEMMA SessionBecomes ==
  ASSUME TypeOK, NEW r \in Request, Active(r), NEW t \in TokenId,
         req' = [req EXCEPT ![r].pc = "answer", ![r].answer = "session", ![r].new = t]
  PROVE  Becomes(r, "answer", req[r].user, "session", t)
<1> DEFINE c == [req[r] EXCEPT !.pc = "answer", !.answer = "session", !.new = t]
<1>1. req[r] \in Call
  BY CallFacts
<1>2. /\ c \in Call /\ c.kind = req[r].kind /\ c.browser = req[r].browser
      /\ c.token = req[r].token /\ c.canceled = req[r].canceled /\ c.pc = "answer"
      /\ c.user = req[r].user /\ c.answer = "session" /\ c.new = t
      /\ req[r].user \in UserId \cup {None}
  BY <1>1 DEF Call
<1>3. req' = [req EXCEPT ![r] = c]
  BY <1>1 DEF TypeOK
<1> HIDE DEF c
<1>4. Becomes(r, c.pc, c.user, c.answer, c.new)
  BY <1>2, <1>3, BecomesFrom
<1> QED
  BY <1>2, <1>4

-----------------------------------------------------------------------------
(* The rows of user_refresh_tokens *)

\* A row keeps its user, account and parent, and a revoked one stays revoked.
RowsLast ==
  /\ tokens' \in [TokenId -> Row \cup {None}]
  /\ \A t \in TokenId : tokens[t] # None =>
       /\ tokens'[t] # None
       /\ tokens'[t].user = tokens[t].user /\ tokens'[t].account = tokens[t].account
       /\ tokens'[t].parent = tokens[t].parent
       /\ tokens[t].revoked => tokens'[t].revoked

\* t is revoked, and nothing else happens to the rows.
Revokes(t) ==
  /\ RowsLast /\ tokens[t] # None /\ tokens'[t].revoked
  /\ \A u \in TokenId \ {t} : tokens'[u] = tokens[u]

\* t is inserted for request r, and nothing else happens to the rows.
Inserts(r, t) ==
  /\ RowsLast /\ tokens[t] = None /\ tokens'[t] # None
  /\ tokens'[t].user = req[r].user /\ tokens'[t].account = AccountOf(r)
  /\ ~tokens'[t].revoked
  /\ tokens'[t].parent = IF req[r].kind = "refresh" THEN req[r].token ELSE None
  /\ \A u \in TokenId \ {t} : tokens'[u] = tokens[u]

LEMMA UnchangedRowsLast ==
  ASSUME TypeOK, tokens' = tokens
  PROVE  RowsLast
BY DEF TypeOK, RowsLast

LEMMA RevokedRows ==
  ASSUME TypeOK, NEW r \in Request, Active(r), req[r].token \in TokenId,
         tokens[req[r].token] # None, tokens' = Revoked(r)
  PROVE  Revokes(req[r].token)
<1> DEFINE t == req[r].token
           row == [tokens[t] EXCEPT !.revoked = TRUE]
<1>1. tokens[t] \in Row
  BY DEF TypeOK
<1>2. /\ row \in Row /\ row.user = tokens[t].user /\ row.account = tokens[t].account
      /\ row.parent = tokens[t].parent /\ row.revoked
  BY <1>1 DEF Row
<1>3. tokens' = [tokens EXCEPT ![t] = row]
  BY DEF Revoked
<1> HIDE DEF row
<1>4. /\ tokens' \in [TokenId -> Row \cup {None}] /\ tokens'[t] = row
      /\ \A u \in TokenId \ {t} : tokens'[u] = tokens[u]
  BY <1>2, <1>3 DEF TypeOK
<1>5. RowsLast
  BY <1>2, <1>4, NoneIsNothing DEF RowsLast, NoneIsNothing
<1> QED
  BY <1>2, <1>4, <1>5 DEF Revokes

LEMMA InsertedRow ==
  ASSUME TypeOK, NEW r \in Request, Active(r), NEW t \in TokenId, tokens[t] = None,
         req[r].user # None, tokens' = [tokens EXCEPT ![t] = NewRow(r)]
  PROVE  Inserts(r, t)
<1>1. req[r] \in Call /\ AccountOf(r) \in Account
  BY CallFacts
<1> DEFINE row == NewRow(r)
<1>2. /\ row \in Row /\ row.user = req[r].user /\ row.account = AccountOf(r) /\ ~row.revoked
      /\ row.parent = IF req[r].kind = "refresh" THEN req[r].token ELSE None
  BY <1>1 DEF NewRow, Row, Call
<1>3. tokens' = [tokens EXCEPT ![t] = row]
  OBVIOUS
<1> HIDE DEF row
<1>4. /\ tokens' \in [TokenId -> Row \cup {None}] /\ tokens'[t] = row
      /\ \A u \in TokenId \ {t} : tokens'[u] = tokens[u]
  BY <1>2, <1>3 DEF TypeOK
<1>5. RowsLast
  BY <1>4 DEF RowsLast
<1> QED
  BY <1>2, <1>4, <1>5, NoneIsNothing DEF Inserts, NoneIsNothing

-----------------------------------------------------------------------------
(* The inductive invariant *)

Held(t, a) == tokens[t] # None /\ tokens[t].account = a

Asks(r, kinds, pcs) == Active(r) /\ req[r].kind \in kinds /\ req[r].pc \in pcs
Answers(r) == Active(r) /\ req[r].answer = "session"

\* What a request of this kind knows at this point.
Shaped(r) ==
  /\ req[r].pc \in {"find", "create", "link"} => req[r].kind = "login"
  /\ req[r].pc \in {"get", "revoke"} => req[r].kind # "login"
  /\ req[r].pc = "issue" => req[r].kind # "logout"
  /\ req[r].pc \in {"link", "issue"} => req[r].user # None
  /\ req[r].kind # "login" => req[r].token # None
  /\ req[r].kind = "refresh" /\ req[r].pc = "revoke" => req[r].user # None
  /\ req[r].token # None => Held(req[r].token, AccountOf(r))
  /\ req[r].answer = "session" =>
       /\ req[r].pc = "answer" /\ req[r].new # None /\ req[r].kind # "logout"
       /\ Held(req[r].new, AccountOf(r)) /\ ~tokens[req[r].new].revoked

\* Tokens stay with the browsers of their account, a token is in the jar of one
\* browser, only the requests of that browser carry it, and a new one is known
\* to nobody but the answer that brings it.
Cookies ==
  /\ \A r \in Request : Active(r) => Shaped(r)
  /\ \A b \in Browser : jar[b] # None => Held(jar[b], Owner[b])
  /\ \A b, c \in Browser : jar[b] # None /\ jar[b] = jar[c] => b = c
  /\ \A r \in Request, b \in Browser :
       Active(r) /\ jar[b] # None /\ req[r].token = jar[b] => req[r].browser = b
  /\ \A r \in Request : Answers(r) =>
       /\ \A b \in Browser : jar[b] # req[r].new
       /\ \A s \in Request : Active(s) => req[s].token # req[r].new
       /\ \A s \in Request \ {r} : Answers(s) => req[s].new # req[r].new

Spends(r, t) == Asks(r, {"refresh"}, {"revoke", "issue"}) /\ req[r].token = t

\* A token with a child is revoked, and one that is not raced has at most one
\* child and at most one refresh that may still give it its first.
Spent ==
  /\ \A t \in TokenId : Children(t) # {} => tokens[t] # None /\ tokens[t].revoked
  /\ \A r \in Request : Asks(r, {"refresh"}, {"issue"}) => tokens[req[r].token].revoked
  /\ \A t \in TokenId \ raced :
       /\ \A u, v \in Children(t) : u = v
       /\ \A r \in Request : Spends(r, t) =>
            Children(t) = {} /\ \A s \in Request \ {r} : ~Spends(s, t)

\* The answer of r will replace the cookie that browser b still has.
Replaces(r, b) ==
  /\ Active(r) /\ req[r].browser = b /\ req[r].token = jar[b]
  /\ \/ req[r].kind = "refresh" /\ req[r].pc = "issue"
     \/ req[r].pc = "answer" /\ req[r].answer \in {"session", "cleared"}

Undisturbed ==
  faults = 0 =>
    /\ \A r \in Request : Active(r) => ~req[r].canceled
    /\ \A b \in Browser : jar[b] # None /\ tokens[jar[b]].revoked =>
         \E r \in Request : Replaces(r, b)

Joins(r, a) == Asks(r, {"login"}, {"create", "link"}) /\ AccountOf(r) = a

\* Without faults, and unless two first logins overlapped, the tokens of an
\* account and the requests about to get one are of the user it is bound to.
Bindings ==
  faults = 0 => \A a \in Account \ raced :
    /\ \A t \in TokenId : Held(t, a) => identity[a] # None /\ tokens[t].user = identity[a]
    /\ \A r \in Request : Joins(r, a) =>
         identity[a] = None /\ \A s \in Request \ {r} : ~Joins(s, a)
    /\ \A r \in Request :
         Asks(r, {"login", "refresh"}, {"revoke", "issue"}) /\ AccountOf(r) = a =>
           identity[a] # None /\ req[r].user = identity[a]

IInv == TypeOK /\ Cookies /\ Spent /\ Undisturbed /\ Bindings

-----------------------------------------------------------------------------
(* What a step of one request has to show for each part *)

LEMMA TypeStep ==
  ASSUME TypeOK, NEW r \in Request, Active(r), NEW pc, NEW user, NEW answer, NEW new,
         Becomes(r, pc, user, answer, new), user \in users' \cup {None},
         users \subseteq users', users' \subseteq UserId,
         identity' \in [Account -> users' \cup {None}],
         RowsLast, \A t \in TokenId : tokens[t] = None /\ tokens'[t] # None => tokens'[t].user \in users',
         jar' = jar, faults' \in Nat
  PROVE  TypeOK'
<1>1. \A s \in Request : req'[s] # None => req'[s].user \in users' \cup {None}
  BY DEF TypeOK, Becomes, Active
<1>2. \A t \in TokenId : tokens'[t] # None => tokens'[t].user \in users'
  BY DEF TypeOK, RowsLast
<1>3. req' \in [Request -> Call \cup {None}] /\ tokens' \in [TokenId -> Row \cup {None}]
  BY DEF Becomes, RowsLast
<1> QED
  BY <1>1, <1>2, <1>3 DEF TypeOK, Active

LEMMA CookiesStep ==
  ASSUME TypeOK, Cookies, NEW r \in Request, Active(r), NEW pc, NEW user, NEW answer, NEW new,
         Becomes(r, pc, user, answer, new), RowsLast, jar' = jar, Shaped(r)',
         \A s \in Request \ {r} : Answers(s) => ~tokens'[req[s].new].revoked,
         answer = "session" => new \in TokenId /\ tokens[new] = None
  PROVE  Cookies'
<1>1. ASSUME NEW s \in Request \ {r}
      PROVE  /\ req'[s] = req[s] /\ Active(s)' = Active(s) /\ Answers(s)' = Answers(s)
             /\ Active(s) => req[s] \in Call
  BY CallFacts DEF Becomes, Active, Answers
<1>2. /\ Active(r)' /\ req'[r].browser = req[r].browser /\ req'[r].token = req[r].token
      /\ req'[r].new = new
      /\ Answers(r)' => answer = "session"
  BY DEF Becomes, Active, Answers
<1>3. ASSUME NEW s \in Request \ {r}, Active(s)
      PROVE  Shaped(s)'
  <2>1. Shaped(s) /\ req'[s] = req[s] /\ req[s] \in Call
    BY <1>1, <1>3 DEF Cookies
  <2>2. req[s].token # None => Held(req[s].token, AccountOf(s))'
    BY <2>1 DEF Shaped, Held, RowsLast, AccountOf, Call
  <2>3. req[s].answer = "session" =>
          Held(req[s].new, AccountOf(s))' /\ ~tokens'[req[s].new].revoked
    BY <2>1, <1>3 DEF Shaped, Held, RowsLast, AccountOf, Call, Answers
  <2> QED
    BY <2>1, <2>2, <2>3 DEF Shaped
<1>4. \A s \in Request : Active(s)' => Shaped(s)'
  BY <1>1, <1>3
<1>5. ASSUME NEW b \in Browser, jar[b] # None
      PROVE  tokens'[jar[b]] # None /\ tokens'[jar[b]].account = Owner[b]
  <2>1. jar[b] \in TokenId /\ Held(jar[b], Owner[b])
    BY <1>5 DEF TypeOK, Cookies
  <2> QED
    BY <2>1 DEF Held, RowsLast
<1>6. \A s \in Request, b \in Browser :
        Active(s)' /\ jar'[b] # None /\ req'[s].token = jar'[b] => req'[s].browser = b
  BY <1>1, <1>2 DEF Cookies
<1>7. ASSUME answer = "session"
      PROVE  /\ \A b \in Browser : jar[b] # new
             /\ \A s \in Request : Active(s) => req[s].token # new
             /\ \A s \in Request : Answers(s) => req[s].new # new
  <2>1. new \in TokenId /\ new # None /\ ~\E a \in Account : Held(new, a)
    BY <1>7, ConstantsAssumption DEF Held, ConstantsAssumption
  <2>2. \A b \in Browser : jar[b] # new
    BY <2>1, ConstantsAssumption DEF Cookies, ConstantsAssumption
  <2>3. \A s \in Request : Active(s) => req[s].token # new
    BY <2>1, CallFacts DEF Cookies, Shaped
  <2>4. \A s \in Request : Answers(s) => req[s].new # new
    BY <2>1, CallFacts DEF Cookies, Shaped, Answers
  <2> QED
    BY <2>2, <2>3, <2>4
<1>8. ASSUME NEW s \in Request, Answers(s)'
      PROVE  /\ \A b \in Browser : jar'[b] # req'[s].new
             /\ \A q \in Request : Active(q)' => req'[q].token # req'[s].new
             /\ \A q \in Request \ {s} : Answers(q)' => req'[q].new # req'[s].new
  <2>1. CASE s = r
    <3>1. answer = "session" /\ req'[s].new = new
      BY <2>1, <1>8, <1>2
    <3>2. \A q \in Request : Active(q)' => req'[q].token # new
      BY <3>1, <1>1, <1>2, <1>7
    <3>3. \A q \in Request \ {s} : Answers(q)' => req'[q].new # new
      BY <3>1, <2>1, <1>1, <1>7
    <3> QED
      BY <3>1, <3>2, <3>3, <1>7
  <2>2. CASE s # r
    <3>1. Answers(s) /\ req'[s] = req[s]
      BY <2>2, <1>8, <1>1
    <3>2. \A b \in Browser : jar'[b] # req'[s].new
      BY <3>1 DEF Cookies
    <3>3. \A q \in Request : Active(q)' => req'[q].token # req'[s].new
      BY <3>1, <1>1, <1>2 DEF Cookies
    <3>4. ASSUME NEW q \in Request \ {s}, Answers(q)'
          PROVE  req'[q].new # req'[s].new
      <4>1. CASE q = r
        BY <4>1, <3>4, <3>1, <1>2, <1>7
      <4>2. CASE q # r
        BY <4>2, <3>4, <3>1, <1>1 DEF Cookies
      <4> QED
        BY <4>1, <4>2
    <3> QED
      BY <3>2, <3>3, <3>4
  <2> QED
    BY <2>1, <2>2
<1>9. \A b, c \in Browser : jar'[b] # None /\ jar'[b] = jar'[c] => b = c
  BY DEF Cookies
<1> QED
  BY <1>4, <1>5, <1>6, <1>8, <1>9 DEF Cookies, Held

LEMMA SpentStep ==
  ASSUME TypeOK, Spent, NEW r \in Request, Active(r), NEW pc, NEW user, NEW answer, NEW new,
         Becomes(r, pc, user, answer, new), RowsLast, raced \subseteq raced',
         \A t \in TokenId : tokens[t] = None => tokens'[t] = None,
         Asks(r, {"refresh"}, {"issue"})' => tokens'[req[r].token].revoked,
         Cookies,
         \A t \in TokenId : Spends(r, t)' => Spends(r, t)
  PROVE  Spent'
<1>1. \A t \in TokenId : Children(t)' = Children(t)
  BY DEF Children, RowsLast
<1>2. \A s \in Request \ {r} : \A t \in TokenId : Spends(s, t)' = Spends(s, t)
  BY DEF Spends, Asks, Active, Becomes
<1>3. \A s \in Request : \A t \in TokenId : Spends(s, t)' => Spends(s, t)
  BY <1>2
<1>4. \A t \in TokenId : Children(t)' # {} => tokens'[t] # None /\ tokens'[t].revoked
  BY <1>1 DEF Spent, RowsLast
<1>5. ASSUME NEW s \in Request, Asks(s, {"refresh"}, {"issue"})'
      PROVE  tokens'[req'[s].token].revoked
  <2>1. CASE s = r
    BY <2>1, <1>5 DEF Becomes
  <2>2. CASE s # r
    <3>1. req'[s] = req[s] /\ Asks(s, {"refresh"}, {"issue"})
      BY <2>2, <1>5 DEF Asks, Active, Becomes
    <3>2. req[s].token \in TokenId /\ tokens[req[s].token] # None
      BY <3>1, CallFacts DEF Asks, Cookies, Shaped, Held, Call
    <3> QED
      BY <3>1, <3>2 DEF Spent, RowsLast
  <2> QED
    BY <2>1, <2>2
<1>6. ASSUME NEW t \in TokenId \ raced'
      PROVE  /\ \A u, v \in Children(t)' : u = v
             /\ \A s \in Request : Spends(s, t)' =>
                  Children(t)' = {} /\ \A q \in Request \ {s} : ~Spends(q, t)'
  BY <1>1, <1>3 DEF Spent
<1> QED
  BY <1>4, <1>5, <1>6 DEF Spent

LEMMA UndisturbedStep ==
  ASSUME TypeOK, Undisturbed, NEW r \in Request, Active(r),
         NEW pc, NEW user, NEW answer, NEW new, Becomes(r, pc, user, answer, new),
         jar' = jar, faults' = faults,
         \A b \in Browser : Replaces(r, b) => Replaces(r, b)',
         \A b \in Browser : jar[b] # None /\ tokens'[jar[b]].revoked =>
           tokens[jar[b]].revoked \/ Replaces(r, b)'
  PROVE  Undisturbed'
<1> SUFFICES ASSUME faults = 0
             PROVE  /\ \A s \in Request : Active(s)' => ~req'[s].canceled
                    /\ \A b \in Browser : jar'[b] # None /\ tokens'[jar'[b]].revoked =>
                         \E s \in Request : Replaces(s, b)'
  BY DEF Undisturbed
<1>1. \A s \in Request : Active(s)' => ~req'[s].canceled
  BY DEF Undisturbed, Becomes, Active
<1>2. \A s \in Request \ {r} : \A b \in Browser : Replaces(s, b) => Replaces(s, b)'
  BY DEF Replaces, Active, Becomes
<1>3. ASSUME NEW b \in Browser, jar[b] # None, tokens'[jar[b]].revoked
      PROVE  \E s \in Request : Replaces(s, b)'
  <2>1. CASE tokens[jar[b]].revoked
    <3>1. PICK s \in Request : Replaces(s, b)
      BY <2>1, <1>3 DEF Undisturbed
    <3> QED
      BY <3>1, <1>2
  <2>2. CASE ~tokens[jar[b]].revoked
    BY <2>2, <1>3
  <2> QED
    BY <2>1, <2>2
<1> QED
  BY <1>1, <1>3

LEMMA BindingsStep ==
  ASSUME TypeOK, Bindings, NEW r \in Request, Active(r),
         NEW pc, NEW user, NEW answer, NEW new, Becomes(r, pc, user, answer, new),
         RowsLast, identity' = identity, raced \subseteq raced', faults' = faults,
         \A t \in TokenId : tokens[t] = None /\ tokens'[t] # None =>
           /\ Asks(r, {"login", "refresh"}, {"issue"})
           /\ tokens'[t].account = AccountOf(r) /\ tokens'[t].user = req[r].user,
         \A a \in Account : Joins(r, a)' => Joins(r, a),
         faults = 0 /\ Asks(r, {"login", "refresh"}, {"revoke", "issue"})' /\ AccountOf(r) \notin raced =>
           identity[AccountOf(r)] # None /\ req'[r].user = identity[AccountOf(r)]
  PROVE  Bindings'
<1> SUFFICES ASSUME faults = 0, NEW a \in Account \ raced'
             PROVE  /\ \A t \in TokenId : Held(t, a)' =>
                         identity'[a] # None /\ tokens'[t].user = identity'[a]
                    /\ \A s \in Request : Joins(s, a)' =>
                         identity'[a] = None /\ \A q \in Request \ {s} : ~Joins(q, a)'
                    /\ \A s \in Request :
                         Asks(s, {"login", "refresh"}, {"revoke", "issue"})' /\ AccountOf(s)' = a =>
                           identity'[a] # None /\ req'[s].user = identity'[a]
  BY DEF Bindings
<1>1. a \in Account \ raced /\ AccountOf(r)' = AccountOf(r)
  BY DEF Becomes, AccountOf
<1>2. ASSUME NEW t \in TokenId, Held(t, a)'
      PROVE  identity'[a] # None /\ tokens'[t].user = identity'[a]
  <2>1. CASE tokens[t] # None
    BY <2>1, <1>1, <1>2 DEF Bindings, Held, RowsLast
  <2>2. CASE tokens[t] = None
    <3>1. Asks(r, {"login", "refresh"}, {"revoke", "issue"}) /\ AccountOf(r) = a
      BY <2>2, <1>2 DEF Held, Asks
    <3>2. tokens'[t].user = req[r].user
      BY <2>2, <1>2 DEF Held
    <3> QED
      BY <1>1, <3>1, <3>2 DEF Bindings
  <2> QED
    BY <2>1, <2>2
<1>3. \A s \in Request : Joins(s, a)' => Joins(s, a)
  BY DEF Joins, Asks, Active, Becomes, AccountOf
<1>4. ASSUME NEW s \in Request, Asks(s, {"login", "refresh"}, {"revoke", "issue"})', AccountOf(s)' = a
      PROVE  identity'[a] # None /\ req'[s].user = identity'[a]
  <2>1. CASE s = r
    BY <2>1, <1>1, <1>4
  <2>2. CASE s # r
    <3>1. /\ req'[s] = req[s] /\ AccountOf(s) = a
          /\ Asks(s, {"login", "refresh"}, {"revoke", "issue"})
      BY <2>2, <1>4 DEF Asks, Active, Becomes, AccountOf
    <3> QED
      BY <1>1, <3>1 DEF Bindings
  <2> QED
    BY <2>1, <2>2
<1> QED
  BY <1>1, <1>2, <1>3, <1>4 DEF Bindings

-----------------------------------------------------------------------------
(* Every step keeps the invariant *)

LEMMA AskingFacts ==
  ASSUME IInv, NEW r \in Request, Active(r), req[r].pc # "answer"
  PROVE  /\ Shaped(r) /\ req[r] \in Call /\ AccountOf(r) \in Account /\ req[r].answer # "session"
         /\ req[r].user \in users \cup {None} /\ users \subseteq UserId
         /\ \A b \in Browser : Replaces(r, b) => req[r].kind = "refresh" /\ req[r].pc = "issue"
BY CallFacts DEF IInv, Cookies, Shaped, TypeOK, Replaces

LEMMA FindUserKeeps ==
  ASSUME IInv, NEW r \in Request, FindUser(r)
  PROVE  IInv'
<1> DEFINE pc == IF Found(r) = None THEN "create" ELSE "issue"
<1>1. /\ TypeOK /\ Cookies /\ Spent /\ Undisturbed /\ Bindings
      /\ Active(r) /\ req[r].kind = "login" /\ req[r].pc = "find"
  BY DEF IInv, FindUser, At
<1>2. /\ Shaped(r) /\ req[r] \in Call /\ AccountOf(r) \in Account /\ req[r].answer # "session"
      /\ users \subseteq UserId /\ \A b \in Browser : ~Replaces(r, b)
  BY <1>1, AskingFacts
<1>3. Found(r) \in users \cup {None} /\ Found(r) \in UserId \cup {None}
  BY <1>1, <1>2 DEF TypeOK, Found
<1>4. Becomes(r, pc, Found(r), req[r].answer, req[r].new)
  <2>1. req' = [req EXCEPT ![r].pc = pc, ![r].user = Found(r)]
    BY DEF FindUser
  <2>2. pc \in {"find", "create", "link", "get", "revoke", "issue", "answer"}
    OBVIOUS
  <2> HIDE DEF pc
  <2> QED
    BY <1>1, <1>3, <2>1, <2>2, UserBecomes
<1>5. /\ UNCHANGED <<users, identity, tokens, jar, faults>> /\ RowsLast /\ raced \subseteq raced'
  BY <1>1, UnchangedRowsLast DEF FindUser
<1>6. TypeOK'
  BY <1>1, <1>3, <1>4, <1>5, TypeStep DEF TypeOK
<1>7. Shaped(r)'
  BY <1>1, <1>2, <1>4, <1>5 DEF Shaped, Becomes, Held, AccountOf
<1>8. Cookies'
  <2>1. \A s \in Request \ {r} : Answers(s) => ~tokens'[req[s].new].revoked
    BY <1>1, <1>5 DEF Cookies, Shaped, Answers
  <2> QED
    BY <1>1, <1>2, <1>4, <1>5, <1>7, <2>1, CookiesStep
<1>9. Spent'
  <2>1. /\ ~Asks(r, {"refresh"}, {"issue"})' /\ \A t \in TokenId : ~Spends(r, t)'
    BY <1>1, <1>4 DEF Asks, Spends, Becomes
  <2> QED
    BY <1>1, <1>4, <1>5, <2>1, SpentStep
<1>10. Undisturbed'
  BY <1>1, <1>2, <1>4, <1>5, UndisturbedStep
<1>11. ASSUME faults = 0, NEW a \in Account \ raced'
       PROVE  /\ \A t \in TokenId : Held(t, a)' =>
                   identity'[a] # None /\ tokens'[t].user = identity'[a]
              /\ \A s \in Request : Joins(s, a)' =>
                   identity'[a] = None /\ \A q \in Request \ {s} : ~Joins(q, a)'
              /\ \A s \in Request :
                   Asks(s, {"login", "refresh"}, {"revoke", "issue"})' /\ AccountOf(s)' = a =>
                     identity'[a] # None /\ req'[s].user = identity'[a]
  <2>1. /\ \A t \in TokenId : Held(t, a) => identity[a] # None /\ tokens[t].user = identity[a]
        /\ \A s \in Request : Joins(s, a) =>
             identity[a] = None /\ \A q \in Request \ {s} : ~Joins(q, a)
        /\ \A s \in Request : Asks(s, {"login", "refresh"}, {"revoke", "issue"}) /\ AccountOf(s) = a =>
             identity[a] # None /\ req[s].user = identity[a]
    BY <1>1, <1>5, <1>11 DEF Bindings
  <2>2. \A t \in TokenId : Held(t, a)' => identity'[a] # None /\ tokens'[t].user = identity'[a]
    BY <1>5, <2>1 DEF Held
  <2>3. AccountOf(r)' = AccountOf(r) /\ \A s \in Request \ {r} : Joins(s, a)' = Joins(s, a)
    BY <1>4 DEF Joins, Asks, Active, Becomes, AccountOf
  <2>4. Joins(r, a)' => identity[a] = None /\ \A q \in Request \ {r} : ~Joins(q, a)
    <3> SUFFICES ASSUME Joins(r, a)'
                 PROVE  identity[a] = None /\ \A q \in Request \ {r} : ~Joins(q, a)
      OBVIOUS
    <3>1. AccountOf(r) = a /\ Found(r) = None
      BY <2>3, <1>4 DEF Joins, Asks, Becomes
    <3>2. ~RivalLogin(r)
      BY <3>1, <1>11 DEF FindUser
    <3> QED
      BY <3>1, <3>2 DEF Found, RivalLogin, Joins, Asks
  <2>5. ASSUME NEW s \in Request, Joins(s, a)'
        PROVE  identity'[a] = None /\ \A q \in Request \ {s} : ~Joins(q, a)'
    <3>1. CASE s = r
      BY <3>1, <2>3, <2>4, <2>5, <1>5
    <3>2. CASE s # r
      BY <3>2, <2>1, <2>3, <2>4, <2>5, <1>5
    <3> QED
      BY <3>1, <3>2
  <2>6. ASSUME NEW s \in Request, Asks(s, {"login", "refresh"}, {"revoke", "issue"})', AccountOf(s)' = a
        PROVE  identity'[a] # None /\ req'[s].user = identity'[a]
    <3>1. CASE s = r
      <4>1. AccountOf(r) = a /\ Found(r) # None /\ req'[r].user = Found(r)
        BY <3>1, <2>6, <2>3, <1>4 DEF Asks, Becomes
      <4> QED
        BY <4>1, <3>1, <1>5 DEF Found
    <3>2. CASE s # r
      <4>1. /\ Asks(s, {"login", "refresh"}, {"revoke", "issue"}) /\ AccountOf(s) = a
            /\ req'[s] = req[s]
        BY <3>2, <2>6, <1>4 DEF Asks, Active, Becomes, AccountOf
      <4> QED
        BY <4>1, <2>1, <1>5
    <3> QED
      BY <3>1, <3>2
  <2> QED
    BY <2>2, <2>5, <2>6
<1>12. Bindings'
  BY <1>5, <1>11 DEF Bindings
<1> QED
  BY <1>6, <1>8, <1>9, <1>10, <1>12 DEF IInv

LEMMA CreateUserKeeps ==
  ASSUME IInv, NEW r \in Request, NEW u \in UserId, CreateUser(r, u)
  PROVE  IInv'
<1>1. /\ TypeOK /\ Cookies /\ Spent /\ Undisturbed /\ Bindings
      /\ Active(r) /\ req[r].kind = "login" /\ req[r].pc = "create"
  BY DEF IInv, CreateUser, At
<1>2. /\ Shaped(r) /\ req[r] \in Call /\ AccountOf(r) \in Account /\ req[r].answer # "session"
      /\ users \subseteq UserId /\ \A b \in Browser : ~Replaces(r, b)
  BY <1>1, AskingFacts
<1>3. Becomes(r, "link", u, req[r].answer, req[r].new)
  BY <1>1, UserBecomes DEF CreateUser
<1>4. /\ users' = users \cup {u}
      /\ UNCHANGED <<identity, tokens, jar, raced, faults>> /\ RowsLast
  BY <1>1, UnchangedRowsLast DEF CreateUser
<1>5. TypeOK'
  BY <1>1, <1>2, <1>3, <1>4, TypeStep DEF TypeOK
<1>6. Shaped(r)'
  BY <1>1, <1>2, <1>3, <1>4, ConstantsAssumption
     DEF Shaped, Becomes, Held, AccountOf, ConstantsAssumption
<1>7. Cookies'
  <2>1. \A s \in Request \ {r} : Answers(s) => ~tokens'[req[s].new].revoked
    BY <1>1, <1>4 DEF Cookies, Shaped, Answers
  <2> QED
    BY <1>1, <1>2, <1>3, <1>4, <1>6, <2>1, CookiesStep
<1>8. Spent'
  <2>1. /\ ~Asks(r, {"refresh"}, {"issue"})' /\ \A t \in TokenId : ~Spends(r, t)'
    BY <1>1, <1>3 DEF Asks, Spends, Becomes
  <2> QED
    BY <1>1, <1>3, <1>4, <2>1, SpentStep
<1>9. Undisturbed'
  BY <1>1, <1>2, <1>3, <1>4, UndisturbedStep
<1>10. Bindings'
  <2>1. /\ \A a \in Account : Joins(r, a)' => Joins(r, a)
        /\ ~Asks(r, {"login", "refresh"}, {"revoke", "issue"})'
    BY <1>1, <1>3 DEF Joins, Asks, Becomes, AccountOf
  <2> QED
    BY <1>1, <1>3, <1>4, <2>1, BindingsStep
<1> QED
  BY <1>5, <1>7, <1>8, <1>9, <1>10 DEF IInv

LEMMA LinkIdentityKeeps ==
  ASSUME IInv, NEW r \in Request, LinkIdentity(r)
  PROVE  IInv'
<1>1. /\ TypeOK /\ Cookies /\ Spent /\ Undisturbed /\ Bindings
      /\ Active(r) /\ req[r].kind = "login" /\ req[r].pc = "link"
  BY DEF IInv, LinkIdentity, At
<1>2. /\ Shaped(r) /\ req[r] \in Call /\ AccountOf(r) \in Account /\ req[r].answer # "session"
      /\ users \subseteq UserId /\ \A b \in Browser : ~Replaces(r, b)
      /\ req[r].user \in users
  BY <1>1, AskingFacts DEF Shaped
<1>3. Becomes(r, "issue", req[r].user, req[r].answer, req[r].new)
  BY <1>1, GotoBecomes DEF LinkIdentity
<1>4. /\ UNCHANGED <<users, tokens, jar, raced, faults>> /\ RowsLast /\ identity' = Bound(r)
  BY <1>1, UnchangedRowsLast DEF LinkIdentity
<1>5. identity' \in [Account -> users \cup {None}]
  BY <1>1, <1>2, <1>4 DEF TypeOK, Bound
<1>6. TypeOK'
  BY <1>1, <1>2, <1>3, <1>4, <1>5, TypeStep DEF TypeOK
<1>7. Shaped(r)'
  BY <1>1, <1>2, <1>3, <1>4 DEF Shaped, Becomes, Held, AccountOf
<1>8. Cookies'
  <2>1. \A s \in Request \ {r} : Answers(s) => ~tokens'[req[s].new].revoked
    BY <1>1, <1>4 DEF Cookies, Shaped, Answers
  <2> QED
    BY <1>1, <1>2, <1>3, <1>4, <1>7, <2>1, CookiesStep
<1>9. Spent'
  <2>1. /\ ~Asks(r, {"refresh"}, {"issue"})' /\ \A t \in TokenId : ~Spends(r, t)'
    BY <1>1, <1>3 DEF Asks, Spends, Becomes
  <2> QED
    BY <1>1, <1>3, <1>4, <2>1, SpentStep
<1>10. Undisturbed'
  BY <1>1, <1>2, <1>3, <1>4, UndisturbedStep
<1>11. ASSUME faults = 0, NEW a \in Account \ raced'
       PROVE  /\ \A t \in TokenId : Held(t, a)' =>
                   identity'[a] # None /\ tokens'[t].user = identity'[a]
              /\ \A s \in Request : Joins(s, a)' =>
                   identity'[a] = None /\ \A q \in Request \ {s} : ~Joins(q, a)'
              /\ \A s \in Request :
                   Asks(s, {"login", "refresh"}, {"revoke", "issue"})' /\ AccountOf(s)' = a =>
                     identity'[a] # None /\ req'[s].user = identity'[a]
  <2>1. /\ \A t \in TokenId : Held(t, a) => identity[a] # None /\ tokens[t].user = identity[a]
        /\ \A s \in Request : Joins(s, a) =>
             identity[a] = None /\ \A q \in Request \ {s} : ~Joins(q, a)
        /\ \A s \in Request : Asks(s, {"login", "refresh"}, {"revoke", "issue"}) /\ AccountOf(s) = a =>
             identity[a] # None /\ req[s].user = identity[a]
    BY <1>1, <1>4, <1>11 DEF Bindings
  <2>2. AccountOf(r)' = AccountOf(r) /\ \A s \in Request \ {r} : Joins(s, a)' = Joins(s, a)
    BY <1>3 DEF Joins, Asks, Active, Becomes, AccountOf
  <2>3. ~Joins(r, a)'
    BY <1>3 DEF Joins, Asks, Becomes
  <2>4. ASSUME NEW s \in Request \ {r}, Asks(s, {"login", "refresh"}, {"revoke", "issue"})',
               AccountOf(s)' = a
        PROVE  /\ Asks(s, {"login", "refresh"}, {"revoke", "issue"}) /\ AccountOf(s) = a
               /\ req'[s] = req[s]
    BY <2>4, <1>3 DEF Asks, Active, Becomes, AccountOf
  <2>5. CASE a = AccountOf(r)
    <3>1. Joins(r, a)
      BY <1>1, <2>5 DEF Joins, Asks
    <3>2. identity[a] = None /\ \A q \in Request \ {r} : ~Joins(q, a)
      BY <3>1, <2>1
    <3>3. identity'[a] = req[r].user /\ identity'[a] # None /\ req'[r].user = req[r].user
      BY <3>2, <2>5, <1>1, <1>2, <1>3, <1>4, ConstantsAssumption
         DEF TypeOK, Bound, ConstantsAssumption, Becomes
    <3>4. \A t \in TokenId : ~Held(t, a)'
      BY <3>2, <2>1, <1>4 DEF Held
    <3>5. \A s \in Request : ~Joins(s, a)'
      BY <3>2, <2>2, <2>3
    <3> QED
      BY <3>2, <3>3, <3>4, <3>5, <2>1, <2>4
  <2>6. CASE a # AccountOf(r)
    <3>1. identity'[a] = identity[a]
      BY <2>6, <1>1, <1>4 DEF TypeOK, Bound
    <3>2. \A t \in TokenId : Held(t, a)' => identity'[a] # None /\ tokens'[t].user = identity'[a]
      BY <3>1, <2>1, <1>4 DEF Held
    <3>3. \A s \in Request : Joins(s, a)' =>
            identity'[a] = None /\ \A q \in Request \ {s} : ~Joins(q, a)'
      BY <3>1, <2>1, <2>2, <2>3
    <3> QED
      BY <3>1, <3>2, <3>3, <2>1, <2>2, <2>4, <2>6
  <2> QED
    BY <2>5, <2>6
<1>12. Bindings'
  BY <1>4, <1>11 DEF Bindings
<1> QED
  BY <1>6, <1>8, <1>9, <1>10, <1>12 DEF IInv

LEMMA CheckTokenKeeps ==
  ASSUME IInv, NEW r \in Request, CheckToken(r)
  PROVE  IInv'
<1> DEFINE t == req[r].token
<1>1. /\ TypeOK /\ Cookies /\ Spent /\ Undisturbed /\ Bindings
      /\ Active(r) /\ req[r].kind = "refresh" /\ req[r].pc = "get"
  BY DEF IInv, CheckToken, At
<1>2. /\ Shaped(r) /\ req[r] \in Call /\ AccountOf(r) \in Account /\ req[r].answer # "session"
      /\ req[r].user \in users \cup {None}
      /\ users \subseteq UserId /\ \A b \in Browser : ~Replaces(r, b)
      /\ t \in TokenId /\ Held(t, AccountOf(r))
  BY <1>1, AskingFacts DEF Shaped, Call
<1>3. tokens[t].user \in users
  BY <1>1, <1>2 DEF TypeOK, Held
<1>4. /\ UNCHANGED <<users, identity, tokens, jar, faults>> /\ RowsLast /\ raced \subseteq raced'
  BY <1>1, UnchangedRowsLast DEF CheckToken
<1>5. \A s \in Request \ {r} : Answers(s) => ~tokens'[req[s].new].revoked
  BY <1>1, <1>4 DEF Cookies, Shaped, Answers
<1>6. CASE Accepts(t)
  <2>1. Becomes(r, "revoke", tokens[t].user, req[r].answer, req[r].new)
    <3>1. req' = [req EXCEPT ![r].pc = "revoke", ![r].user = tokens[t].user]
      BY <1>6 DEF CheckToken
    <3>2. tokens[t].user \in UserId \cup {None}
      BY <1>2, <1>3
    <3> QED
      BY <1>1, <3>1, <3>2, UserBecomes
  <2>2. TypeOK'
    BY <1>1, <1>2, <1>3, <1>4, <2>1, TypeStep DEF TypeOK
  <2>3. Shaped(r)'
    BY <1>1, <1>2, <1>3, <1>4, <2>1, ConstantsAssumption
       DEF Shaped, Becomes, Held, AccountOf, ConstantsAssumption
  <2>4. Cookies'
    BY <1>1, <1>2, <1>4, <1>5, <2>1, <2>3, CookiesStep
  <2>5. /\ ~tokens[t].revoked
        /\ raced' = IF RivalRefresh(r) THEN raced \cup {t} ELSE raced
    BY <1>6 DEF CheckToken, Accepts, Valid
  <2>6. Children(t) = {} /\ \A s \in Request : ~(Asks(s, {"refresh"}, {"issue"}) /\ req[s].token = t)
    BY <1>1, <1>2, <2>5 DEF Spent
  <2>7. /\ \A x \in TokenId : Children(x)' = Children(x)
        /\ \A s \in Request \ {r} : \A x \in TokenId : Spends(s, x)' = Spends(s, x)
        /\ \A x \in TokenId : Spends(r, x)' => x = t
        /\ ~Asks(r, {"refresh"}, {"issue"})'
    BY <1>4, <2>1 DEF Children, Spends, Asks, Active, Becomes
  <2>8. t \notin raced' => \A s \in Request \ {r} : ~Spends(s, t)
    <3> SUFFICES ASSUME t \notin raced', NEW s \in Request \ {r}, Spends(s, t)
                 PROVE  FALSE
      OBVIOUS
    <3>1. ~RivalRefresh(r)
      BY <2>5
    <3>2. req[s].pc = "revoke"
      BY <2>6 DEF Spends, Asks
    <3> QED
      BY <3>1, <3>2 DEF RivalRefresh, Spends, Asks
  <2>9. \A x \in TokenId : Children(x)' # {} => tokens'[x] # None /\ tokens'[x].revoked
    BY <1>1, <1>4, <2>7 DEF Spent
  <2>10. ASSUME NEW s \in Request, Asks(s, {"refresh"}, {"issue"})'
         PROVE  tokens'[req'[s].token].revoked
    <3>1. s # r
      BY <2>7, <2>10
    <3>2. req'[s] = req[s] /\ Asks(s, {"refresh"}, {"issue"})
      BY <3>1, <2>10, <2>1 DEF Asks, Active, Becomes
    <3> QED
      BY <3>2, <1>1, <1>4 DEF Spent
  <2>11. ASSUME NEW x \in TokenId \ raced'
         PROVE  /\ \A u, v \in Children(x)' : u = v
                /\ \A s \in Request : Spends(s, x)' =>
                     Children(x)' = {} /\ \A q \in Request \ {s} : ~Spends(q, x)'
    <3>1. /\ \A u, v \in Children(x)' : u = v
          /\ \A s \in Request : Spends(s, x) =>
               Children(x) = {} /\ \A q \in Request \ {s} : ~Spends(q, x)
      BY <1>1, <1>4, <2>7 DEF Spent
    <3>2. CASE x = t
      BY <3>1, <3>2, <2>6, <2>7, <2>8
    <3>3. CASE x # t
      BY <3>1, <3>3, <2>7
    <3> QED
      BY <3>2, <3>3
  <2>12. Spent'
    BY <2>9, <2>10, <2>11 DEF Spent
  <2>13. Undisturbed'
    BY <1>1, <1>2, <1>4, <2>1, UndisturbedStep
  <2>14. Bindings'
    <3>1. \A a \in Account : ~Joins(r, a)'
      BY <2>1 DEF Joins, Asks, Becomes
    <3>2. ASSUME faults = 0, AccountOf(r) \notin raced
          PROVE  identity[AccountOf(r)] # None /\ req'[r].user = identity[AccountOf(r)]
      BY <3>2, <1>1, <1>2, <2>1 DEF Bindings, Becomes
    <3> QED
      BY <1>1, <1>4, <2>1, <3>1, <3>2, BindingsStep
  <2> QED
    BY <2>2, <2>4, <2>12, <2>13, <2>14 DEF IInv
<1>7. CASE ~Accepts(t)
  <2>1. Answer(r, "unauthorized") /\ raced' = raced
    BY <1>7 DEF CheckToken
  <2>2. Becomes(r, "answer", req[r].user, "unauthorized", req[r].new)
    BY <1>1, <2>1, AnswerBecomes
  <2>3. TypeOK'
    BY <1>1, <1>2, <1>4, <2>2, TypeStep DEF TypeOK
  <2>4. Shaped(r)'
    BY <1>1, <1>2, <1>4, <2>2 DEF Shaped, Becomes, Held, AccountOf
  <2>5. Cookies'
    BY <1>1, <1>2, <1>4, <1>5, <2>2, <2>4, CookiesStep
  <2>6. Spent'
    <3>1. /\ ~Asks(r, {"refresh"}, {"issue"})' /\ \A x \in TokenId : ~Spends(r, x)'
      BY <2>2 DEF Asks, Spends, Becomes
    <3> QED
      BY <1>1, <1>4, <2>2, <3>1, SpentStep
  <2>7. Undisturbed'
    BY <1>1, <1>2, <1>4, <2>2, UndisturbedStep
  <2>8. Bindings'
    <3>1. /\ \A a \in Account : ~Joins(r, a)'
          /\ ~Asks(r, {"login", "refresh"}, {"revoke", "issue"})'
      BY <2>2 DEF Joins, Asks, Becomes
    <3> QED
      BY <1>1, <1>4, <2>2, <3>1, BindingsStep
  <2> QED
    BY <2>3, <2>5, <2>6, <2>7, <2>8 DEF IInv
<1> QED
  BY <1>6, <1>7

LEMMA FindTokenKeeps ==
  ASSUME IInv, NEW r \in Request, FindToken(r)
  PROVE  IInv'
<1>1. /\ TypeOK /\ Cookies /\ Spent /\ Undisturbed /\ Bindings
      /\ Active(r) /\ req[r].kind = "logout" /\ req[r].pc = "get"
  BY DEF IInv, FindToken, At
<1>2. /\ Shaped(r) /\ req[r] \in Call /\ AccountOf(r) \in Account /\ req[r].answer # "session"
      /\ req[r].user \in users \cup {None}
      /\ users \subseteq UserId /\ \A b \in Browser : ~Replaces(r, b)
  BY <1>1, AskingFacts
<1>3. /\ UNCHANGED <<users, identity, tokens, jar, raced, faults>> /\ RowsLast
  BY <1>1, UnchangedRowsLast DEF FindToken
<1>4. PICK pc \in {"revoke", "answer"}, answer \in {req[r].answer, "cleared"} :
        Becomes(r, pc, req[r].user, answer, req[r].new)
  <2>1. CASE req[r].token # None /\ tokens[req[r].token] # None
    <3>1. Becomes(r, "revoke", req[r].user, req[r].answer, req[r].new)
      BY <1>1, <2>1, GotoBecomes DEF FindToken
    <3> QED
      BY <3>1
  <2>2. CASE ~(req[r].token # None /\ tokens[req[r].token] # None)
    <3>1. Becomes(r, "answer", req[r].user, "cleared", req[r].new)
      BY <1>1, <2>2, AnswerBecomes DEF FindToken
    <3> QED
      BY <3>1
  <2> QED
    BY <2>1, <2>2
<1>5. TypeOK'
  BY <1>1, <1>2, <1>3, <1>4, TypeStep DEF TypeOK
<1>6. Shaped(r)'
  BY <1>1, <1>2, <1>3, <1>4 DEF Shaped, Becomes, Held, AccountOf
<1>7. Cookies'
  <2>1. /\ \A s \in Request \ {r} : Answers(s) => ~tokens'[req[s].new].revoked
        /\ answer # "session"
    BY <1>1, <1>2, <1>3, <1>4 DEF Cookies, Shaped, Answers
  <2> QED
    BY <1>1, <1>2, <1>3, <1>4, <1>6, <2>1, CookiesStep
<1>8. Spent'
  <2>1. /\ ~Asks(r, {"refresh"}, {"issue"})' /\ \A x \in TokenId : ~Spends(r, x)'
    BY <1>1, <1>4 DEF Asks, Spends, Becomes
  <2> QED
    BY <1>1, <1>3, <1>4, <2>1, SpentStep
<1>9. Undisturbed'
  BY <1>1, <1>2, <1>3, <1>4, UndisturbedStep
<1>10. Bindings'
  <2>1. /\ \A a \in Account : ~Joins(r, a)'
        /\ ~Asks(r, {"login", "refresh"}, {"revoke", "issue"})'
    BY <1>1, <1>4 DEF Joins, Asks, Becomes
  <2> QED
    BY <1>1, <1>3, <1>4, <2>1, BindingsStep
<1> QED
  BY <1>5, <1>7, <1>8, <1>9, <1>10 DEF IInv

LEMMA RevokeRefreshTokenKeeps ==
  ASSUME IInv, NEW r \in Request, RevokeRefreshToken(r)
  PROVE  IInv'
<1> DEFINE t == req[r].token
<1>1. /\ TypeOK /\ Cookies /\ Spent /\ Undisturbed /\ Bindings
      /\ Active(r) /\ req[r].kind \in {"refresh", "logout"} /\ req[r].pc = "revoke"
  BY DEF IInv, RevokeRefreshToken, At
<1>2. /\ Shaped(r) /\ req[r] \in Call /\ AccountOf(r) \in Account /\ req[r].answer # "session"
      /\ req[r].user \in users \cup {None}
      /\ users \subseteq UserId /\ \A b \in Browser : ~Replaces(r, b)
      /\ t \in TokenId /\ Held(t, AccountOf(r))
  BY <1>1, AskingFacts DEF Shaped, Call
<1>3. Revokes(t) /\ RowsLast
  BY <1>1, <1>2, RevokedRows DEF RevokeRefreshToken, Held, Revokes
<1>4. /\ UNCHANGED <<users, identity, jar, raced, faults>>
      /\ \A x \in TokenId : tokens[x] = None => tokens'[x] = None
  BY <1>3 DEF RevokeRefreshToken, Revokes
<1>5. PICK pc \in {"issue", "answer"}, answer \in {req[r].answer, "cleared"} :
        /\ Becomes(r, pc, req[r].user, answer, req[r].new)
        /\ pc = "issue" <=> req[r].kind = "refresh"
        /\ pc = "answer" <=> req[r].kind = "logout"
        /\ pc = "answer" => answer = "cleared"
  <2>1. CASE req[r].kind = "refresh"
    <3>1. Becomes(r, "issue", req[r].user, req[r].answer, req[r].new)
      BY <1>1, <2>1, GotoBecomes DEF RevokeRefreshToken
    <3> QED
      BY <2>1, <3>1
  <2>2. CASE req[r].kind = "logout"
    <3>1. Becomes(r, "answer", req[r].user, "cleared", req[r].new)
      BY <1>1, <2>2, AnswerBecomes DEF RevokeRefreshToken
    <3> QED
      BY <2>2, <3>1
  <2> QED
    BY <1>1, <2>1, <2>2
<1>6. TypeOK'
  BY <1>1, <1>2, <1>3, <1>4, <1>5, TypeStep DEF TypeOK
<1>7. Shaped(r)'
  BY <1>1, <1>2, <1>3, <1>4, <1>5 DEF Shaped, Becomes, Held, AccountOf, RowsLast
<1>8. Cookies'
  <2>1. \A s \in Request \ {r} : Answers(s) => ~tokens'[req[s].new].revoked
    <3> SUFFICES ASSUME NEW s \in Request \ {r}, Answers(s)
                 PROVE  ~tokens'[req[s].new].revoked
      OBVIOUS
    <3>1. /\ req[s].new # t /\ ~tokens[req[s].new].revoked /\ req[s].new # None
          /\ req[s] \in Call
      BY <1>1, CallFacts DEF Cookies, Shaped, Answers
    <3>2. req[s].new \in TokenId \ {t}
      BY <3>1 DEF Call
    <3> QED
      BY <1>3, <3>1, <3>2 DEF Revokes
  <2>2. answer # "session"
    BY <1>2, <1>5
  <2> QED
    BY <1>1, <1>2, <1>3, <1>4, <1>5, <1>7, <2>1, <2>2, CookiesStep
<1>9. Spent'
  <2>1. Asks(r, {"refresh"}, {"issue"})' => tokens'[req[r].token].revoked
    BY <1>3 DEF Revokes
  <2>2. \A x \in TokenId : Spends(r, x)' => Spends(r, x)
    BY <1>1, <1>5 DEF Asks, Spends, Becomes
  <2> QED
    BY <1>1, <1>3, <1>4, <1>5, <2>1, <2>2, SpentStep
<1>10. Undisturbed'
  <2>1. ASSUME NEW b \in Browser, jar[b] # None, tokens'[jar[b]].revoked
        PROVE  tokens[jar[b]].revoked \/ Replaces(r, b)'
    <3>1. CASE jar[b] = t
      <4>1. req[r].browser = b
        BY <1>1, <2>1, <3>1 DEF Cookies
      <4> QED
        BY <4>1, <3>1, <1>1, <1>4, <1>5 DEF Replaces, Becomes, Active
    <3>2. CASE jar[b] # t
      BY <3>2, <2>1, <1>1, <1>3 DEF TypeOK, Revokes
    <3> QED
      BY <3>1, <3>2
  <2> QED
    BY <1>1, <1>2, <1>4, <1>5, <2>1, UndisturbedStep
<1>11. Bindings'
  <2>1. \A a \in Account : ~Joins(r, a)'
    BY <1>5 DEF Joins, Asks, Becomes
  <2>2. ASSUME faults = 0, AccountOf(r) \notin raced, Asks(r, {"login", "refresh"}, {"revoke", "issue"})'
        PROVE  identity[AccountOf(r)] # None /\ req'[r].user = identity[AccountOf(r)]
    <3>1. req[r].kind = "refresh"
      BY <2>2, <1>1, <1>5 DEF Asks, Becomes
    <3>2. Asks(r, {"login", "refresh"}, {"revoke", "issue"})
      BY <3>1, <1>1 DEF Asks
    <3> QED
      BY <2>2, <3>2, <1>1, <1>2, <1>5 DEF Bindings, Becomes
  <2> QED
    BY <1>1, <1>3, <1>4, <1>5, <2>1, <2>2, BindingsStep
<1> QED
  BY <1>6, <1>8, <1>9, <1>10, <1>11 DEF IInv

\* The row a request inserts is the only child its token ever gets, unless the
\* token is raced.
LEMMA InsertSpends ==
  ASSUME TypeOK, Cookies, Spent, NEW r \in Request, Active(r),
         Asks(r, {"login", "refresh"}, {"issue"}), NEW t \in TokenId, Inserts(r, t),
         NEW user, NEW answer, NEW new, Becomes(r, "answer", user, answer, new), raced' = raced
  PROVE  Spent'
<1>1. RowsLast /\ Shaped(r) /\ req[r] \in Call
  BY CallFacts DEF Inserts, Cookies
<1>2. /\ ~Asks(r, {"refresh"}, {"issue"})'
      /\ \A x \in TokenId : ~Spends(r, x)'
      /\ \A s \in Request \ {r} : \A x \in TokenId : Spends(s, x)' = Spends(s, x)
  BY DEF Asks, Spends, Becomes, Active
<1>3. tokens[t] = None /\ tokens'[t] # None /\ \A u \in TokenId \ {t} : tokens'[u] = tokens[u]
  BY DEF Inserts
<1>4. \A x \in TokenId : Children(x)' = IF tokens'[t].parent = x THEN Children(x) \cup {t} ELSE Children(x)
  BY <1>3 DEF Children
<1>5. ASSUME NEW x \in TokenId, tokens'[t].parent = x
      PROVE  /\ Spends(r, x) /\ req[r].token = x /\ tokens[x] # None /\ tokens[x].revoked
             /\ x \notin raced => Children(x) = {}
  <2>1. req[r].kind = "refresh" /\ req[r].token = x /\ req[r].pc = "issue"
    BY <1>5, ConstantsAssumption DEF Inserts, Asks, ConstantsAssumption
  <2>2. Spends(r, x)
    BY <2>1 DEF Spends, Asks
  <2>3. tokens[x] # None /\ tokens[x].revoked
    BY <2>1, <1>1, ConstantsAssumption DEF Shaped, Held, Spent, Asks, ConstantsAssumption
  <2> QED
    BY <2>1, <2>2, <2>3 DEF Spent
<1>6. ASSUME NEW x \in TokenId, Children(x)' # {}
      PROVE  tokens'[x] # None /\ tokens'[x].revoked
  <2>1. tokens[x] # None /\ tokens[x].revoked
    BY <1>4, <1>5, <1>6 DEF Spent
  <2> QED
    BY <2>1, <1>1 DEF RowsLast
<1>7. ASSUME NEW s \in Request, Asks(s, {"refresh"}, {"issue"})'
      PROVE  tokens'[req'[s].token].revoked
  <2>1. s # r
    BY <1>2, <1>7
  <2>2. req'[s] = req[s] /\ Asks(s, {"refresh"}, {"issue"})
    BY <2>1, <1>7 DEF Asks, Active, Becomes
  <2>3. req[s].token \in TokenId /\ tokens[req[s].token] # None
    BY <2>2, CallFacts DEF Asks, Cookies, Shaped, Held, Call
  <2> QED
    BY <2>2, <2>3, <1>1 DEF Spent, RowsLast
<1>8. ASSUME NEW x \in TokenId \ raced'
      PROVE  /\ \A u, v \in Children(x)' : u = v
             /\ \A s \in Request : Spends(s, x)' =>
                  Children(x)' = {} /\ \A q \in Request \ {s} : ~Spends(q, x)'
  <2>1. /\ \A u, v \in Children(x) : u = v
        /\ \A s \in Request : Spends(s, x) =>
             Children(x) = {} /\ \A q \in Request \ {s} : ~Spends(q, x)
    BY <1>8 DEF Spent
  <2>2. CASE tokens'[t].parent = x
    BY <2>1, <2>2, <1>2, <1>4, <1>5, <1>8
  <2>3. CASE tokens'[t].parent # x
    BY <2>1, <2>3, <1>2, <1>4
  <2> QED
    BY <2>2, <2>3
<1> QED
  BY <1>6, <1>7, <1>8 DEF Spent

LEMMA CreateRefreshTokenKeeps ==
  ASSUME IInv, NEW r \in Request, NEW t \in TokenId, CreateRefreshToken(r, t)
  PROVE  IInv'
<1>1. /\ TypeOK /\ Cookies /\ Spent /\ Undisturbed /\ Bindings
      /\ Active(r) /\ req[r].kind \in {"login", "refresh"} /\ req[r].pc = "issue"
      /\ Asks(r, {"login", "refresh"}, {"issue"})
  BY DEF IInv, CreateRefreshToken, At, Asks
<1>2. /\ Shaped(r) /\ req[r] \in Call /\ AccountOf(r) \in Account
      /\ req[r].user \in users \cup {None} /\ req[r].user # None
      /\ users \subseteq UserId
      /\ \A b \in Browser : Replaces(r, b) => req[r].kind = "refresh" /\ req[r].pc = "issue"
  BY <1>1, AskingFacts DEF Shaped
<1>3. Becomes(r, "answer", req[r].user, "session", t)
  BY <1>1, SessionBecomes DEF CreateRefreshToken
<1>4. Inserts(r, t) /\ RowsLast
  BY <1>1, <1>2, InsertedRow DEF CreateRefreshToken, Inserts
<1>5. /\ UNCHANGED <<users, identity, jar, raced, faults>>
      /\ tokens[t] = None /\ \A x \in TokenId \ {t} : tokens'[x] = tokens[x]
  BY <1>4 DEF CreateRefreshToken, Inserts
<1>6. TypeOK'
  <2>1. \A x \in TokenId : tokens[x] = None /\ tokens'[x] # None => tokens'[x].user \in users'
    BY <1>2, <1>4, <1>5 DEF Inserts
  <2> QED
    BY <1>1, <1>2, <1>3, <1>4, <1>5, <2>1, TypeStep DEF TypeOK
<1>7. Shaped(r)'
  <2>1. Held(t, AccountOf(r))' /\ ~tokens'[t].revoked
    BY <1>3, <1>4 DEF Held, Inserts, Becomes, AccountOf
  <2>2. req[r].token # None => Held(req[r].token, AccountOf(r))'
    BY <1>2, <1>3, <1>4 DEF Held, RowsLast, Becomes, AccountOf, Shaped, Call
  <2> QED
    BY <1>1, <1>2, <1>3, <2>1, <2>2, ConstantsAssumption DEF Shaped, Becomes, ConstantsAssumption
<1>8. Cookies'
  <2>1. \A s \in Request \ {r} : Answers(s) => ~tokens'[req[s].new].revoked
    <3> SUFFICES ASSUME NEW s \in Request \ {r}, Answers(s)
                 PROVE  ~tokens'[req[s].new].revoked
      OBVIOUS
    <3>1. /\ ~tokens[req[s].new].revoked /\ req[s].new # None
          /\ req[s] \in Call /\ tokens[req[s].new] # None
      BY <1>1, CallFacts DEF Cookies, Shaped, Answers, Held
    <3>2. req[s].new \in TokenId \ {t}
      BY <3>1, <1>5 DEF Call
    <3> QED
      BY <3>1, <3>2, <1>5
  <2> QED
    BY <1>1, <1>2, <1>3, <1>4, <1>5, <1>7, <2>1, CookiesStep
<1>9. Spent'
  BY <1>1, <1>3, <1>4, <1>5, InsertSpends
<1>10. Undisturbed'
  <2>1. ASSUME NEW b \in Browser, jar[b] # None, tokens'[jar[b]].revoked
        PROVE  tokens[jar[b]].revoked
    <3>1. jar[b] \in TokenId /\ tokens[jar[b]] # None
      BY <1>1, <2>1 DEF TypeOK, Cookies, Held
    <3> QED
      BY <3>1, <2>1, <1>5
  <2>2. \A b \in Browser : Replaces(r, b) => Replaces(r, b)'
    BY <1>3, <1>5 DEF Replaces, Becomes, Active
  <2> QED
    BY <1>1, <1>3, <1>5, <2>1, <2>2, UndisturbedStep
<1>11. Bindings'
  <2>1. /\ \A a \in Account : ~Joins(r, a)'
        /\ ~Asks(r, {"login", "refresh"}, {"revoke", "issue"})'
    BY <1>3 DEF Joins, Asks, Becomes
  <2>2. \A x \in TokenId : tokens[x] = None /\ tokens'[x] # None =>
          tokens'[x].account = AccountOf(r) /\ tokens'[x].user = req[r].user
    BY <1>4, <1>5 DEF Inserts
  <2> QED
    BY <1>1, <1>3, <1>4, <1>5, <2>1, <2>2, BindingsStep
<1> QED
  BY <1>6, <1>8, <1>9, <1>10, <1>11 DEF IInv

\* A failure at any point: the request gets its answer or goes on to create a
\* user, and the statement may have taken effect.
LEMMA FailKeeps ==
  ASSUME IInv, NEW r \in Request, Fail(r)
  PROVE  IInv'
<1> DEFINE old == req[r].token
<1>1. /\ TypeOK /\ Cookies /\ Spent /\ Undisturbed /\ Bindings
      /\ Active(r) /\ req[r].pc # "answer" /\ UNCHANGED <<jar, raced>>
  BY DEF IInv, Fail
<1>2. /\ Shaped(r) /\ req[r] \in Call /\ AccountOf(r) \in Account /\ req[r].answer # "session"
      /\ req[r].user \in users \cup {None} /\ users \subseteq UserId
  BY <1>1, AskingFacts
<1>3. PICK pc \in {"create", "answer"}, answer \in {req[r].answer, "unauthorized", "cleared", "error"} :
        /\ Becomes(r, pc, req[r].user, answer, req[r].new)
        /\ pc = "create" <=> req[r].pc = "find"
  <2>1. CASE req[r].pc = "find"
    <3>1. req[r].kind = "login"
      BY <1>2, <2>1 DEF Shaped
    <3>2. Goto(r, "create")
      BY <2>1, <3>1 DEF Fail, AfterError, Goto
    <3>3. Becomes(r, "create", req[r].user, req[r].answer, req[r].new)
      BY <1>1, <3>2, GotoBecomes
    <3> QED
      BY <2>1, <3>3
  <2>2. CASE req[r].pc # "find"
    <3>1. Answer(r, "unauthorized") \/ Answer(r, "cleared") \/ Answer(r, "error")
      BY <2>2 DEF Fail, AfterError
    <3>2. \E answer \in {"unauthorized", "cleared", "error"} :
            Becomes(r, "answer", req[r].user, answer, req[r].new)
      BY <1>1, <3>1, AnswerBecomes
    <3> QED
      BY <2>2, <3>2
  <2> QED
    BY <2>1, <2>2
<1>4. answer # "session"
  BY <1>2, <1>3
<1>5. /\ faults' \in Nat
      /\ faults' = 0 => req[r].canceled /\ faults = 0
  BY <1>1 DEF Fail, Fault, TypeOK
<1>6. faults' # 0
  BY <1>1, <1>5 DEF Undisturbed
<1>7. Undisturbed' /\ Bindings'
  BY <1>6 DEF Undisturbed, Bindings
<1>8. PICK hit \in {"nothing", "link", "revoke", "issue"} :
        /\ users' = users
        /\ hit \in {"nothing", "link"} => tokens' = tokens
        /\ hit # "link" => identity' = identity
        /\ hit = "link" => req[r].pc = "link" /\ identity' = Bound(r)
        /\ hit = "revoke" => req[r].pc = "revoke" /\ tokens' = Revoked(r)
        /\ hit = "issue" => /\ req[r].pc = "issue"
                           /\ \E t \in TokenId : tokens[t] = None /\ tokens' = [tokens EXCEPT ![t] = NewRow(r)]
  <2>1. Effect(r)
    BY DEF Fail
  <2>2. CASE UNCHANGED <<users, identity, tokens>>
    BY <2>2
  <2>3. CASE req[r].pc = "link" /\ identity' = Bound(r) /\ UNCHANGED <<users, tokens>>
    BY <2>3
  <2>4. CASE req[r].pc = "revoke" /\ tokens' = Revoked(r) /\ UNCHANGED <<users, identity>>
    BY <2>4
  <2>5. CASE \E t \in TokenId : /\ req[r].pc = "issue" /\ tokens[t] = None
                               /\ tokens' = [tokens EXCEPT ![t] = NewRow(r)]
                               /\ UNCHANGED <<users, identity>>
    BY <2>5
  <2> QED
    BY <2>1, <2>2, <2>3, <2>4, <2>5 DEF Effect
<1>9. identity' \in [Account -> users \cup {None}]
  BY <1>1, <1>2, <1>8 DEF TypeOK, Bound
<1>10. ASSUME hit = "issue"
       PROVE  \E t \in TokenId : Inserts(r, t)
  <2>1. PICK t \in TokenId : tokens[t] = None /\ tokens' = [tokens EXCEPT ![t] = NewRow(r)]
    BY <1>8, <1>10
  <2>2. req[r].user # None
    BY <1>2, <1>8, <1>10 DEF Shaped
  <2> QED
    BY <1>1, <2>1, <2>2, InsertedRow
<1>11. ASSUME hit = "revoke"
       PROVE  old \in TokenId /\ Revokes(old)
  <2>1. old \in TokenId /\ Held(old, AccountOf(r))
    BY <1>2, <1>8, <1>11 DEF Shaped, Call
  <2> QED
    BY <1>1, <1>8, <1>11, <2>1, RevokedRows DEF Held
<1>12. RowsLast
  BY <1>1, <1>8, <1>10, <1>11, UnchangedRowsLast DEF Inserts, Revokes
<1>13. TypeOK'
  <2>1. \A x \in TokenId : tokens[x] = None /\ tokens'[x] # None => tokens'[x].user \in users'
    <3>1. CASE hit = "issue"
      <4>1. req[r].user \in users
        BY <1>2, <1>8, <3>1 DEF Shaped
      <4> QED
        BY <1>8, <1>10, <3>1, <4>1 DEF Inserts
    <3>2. CASE hit # "issue"
      BY <1>8, <1>11, <3>2 DEF Revokes
    <3> QED
      BY <3>1, <3>2
  <2> QED
    BY <1>1, <1>2, <1>3, <1>5, <1>8, <1>9, <1>12, <2>1, TypeStep DEF TypeOK
<1>14. Shaped(r)'
  <2>1. req[r].token # None => Held(req[r].token, AccountOf(r))'
    BY <1>2, <1>3, <1>12 DEF Held, RowsLast, Becomes, AccountOf, Shaped, Call
  <2> QED
    BY <1>2, <1>3, <1>4, <2>1 DEF Shaped, Becomes
<1>15. Cookies'
  <2>1. \A s \in Request \ {r} : Answers(s) => ~tokens'[req[s].new].revoked
    <3> SUFFICES ASSUME NEW s \in Request \ {r}, Answers(s)
                 PROVE  ~tokens'[req[s].new].revoked
      OBVIOUS
    <3>1. /\ req[s].new # old \/ old = None
          /\ ~tokens[req[s].new].revoked /\ req[s].new # None
          /\ req[s] \in Call /\ tokens[req[s].new] # None
      BY <1>1, CallFacts DEF Cookies, Shaped, Answers, Held
    <3>2. req[s].new \in TokenId
      BY <3>1 DEF Call
    <3>3. CASE hit = "issue"
      BY <1>10, <3>1, <3>2, <3>3 DEF Inserts
    <3>4. CASE hit = "revoke"
      BY <1>11, <3>1, <3>2, <3>4, ConstantsAssumption DEF Revokes, ConstantsAssumption
    <3>5. CASE hit \notin {"issue", "revoke"}
      BY <1>8, <3>1, <3>5
    <3> QED
      BY <3>3, <3>4, <3>5
  <2> QED
    BY <1>1, <1>3, <1>4, <1>12, <1>14, <2>1, CookiesStep
<1>16. Spent'
  <2>1. CASE hit = "issue"
    <3>1. Asks(r, {"login", "refresh"}, {"issue"}) /\ pc = "answer"
      BY <1>1, <1>2, <1>3, <1>8, <2>1 DEF Shaped, Asks, Call
    <3> QED
      BY <1>1, <1>3, <1>10, <2>1, <3>1, InsertSpends
  <2>2. CASE hit # "issue"
    <3>1. \A x \in TokenId : tokens[x] = None => tokens'[x] = None
      BY <1>8, <1>11, <2>2 DEF Revokes
    <3>2. /\ ~Asks(r, {"refresh"}, {"issue"})' /\ \A x \in TokenId : ~Spends(r, x)'
      BY <1>3 DEF Asks, Spends, Becomes
    <3> QED
      BY <1>1, <1>3, <1>12, <3>1, <3>2, SpentStep
  <2> QED
    BY <2>1, <2>2
<1> QED
  BY <1>7, <1>13, <1>15, <1>16 DEF IInv

LEMMA ShutdownKeeps ==
  ASSUME IInv, Shutdown
  PROVE  IInv'
<1>1. /\ TypeOK /\ Cookies /\ Spent
      /\ UNCHANGED <<users, identity, tokens, jar, raced>> /\ faults' \in Nat /\ faults' # 0
  BY DEF IInv, Shutdown, Fault, TypeOK
<1>2. ASSUME NEW r \in Request, Active(r)
      PROVE  [req[r] EXCEPT !.canceled = TRUE] \in Call
  BY <1>1, <1>2, CallFacts DEF Call
<1>3. req' \in [Request -> Call \cup {None}]
  BY <1>1, <1>2, CallFacts DEF Shutdown, TypeOK
<1>4. ASSUME NEW r \in Request
      PROVE  /\ Active(r)' = Active(r)
             /\ Active(r) => /\ req'[r].kind = req[r].kind /\ req'[r].browser = req[r].browser
                             /\ req'[r].token = req[r].token /\ req'[r].user = req[r].user
                             /\ req'[r].pc = req[r].pc /\ req'[r].answer = req[r].answer
                             /\ req'[r].new = req[r].new
  <2>1. CASE Active(r) /\ req[r].pc # "answer"
    <3>1. req'[r] = [req[r] EXCEPT !.canceled = TRUE]
      BY <2>1 DEF Shutdown
    <3> QED
      BY <2>1, <3>1, <1>1, <1>2, CallFacts, NoneIsNothing DEF Active, Call, NoneIsNothing
  <2>2. CASE ~(Active(r) /\ req[r].pc # "answer")
    BY <2>2 DEF Shutdown, Active
  <2> QED
    BY <2>1, <2>2
<1>5. TypeOK'
  BY <1>1, <1>3, <1>4 DEF TypeOK
<1>6. Cookies'
  <2>1. ASSUME NEW r \in Request, Active(r)
        PROVE  Shaped(r)'
    BY <2>1, <1>1, <1>4 DEF Cookies, Shaped, Held, AccountOf
  <2>2. \A r \in Request : Answers(r)' = Answers(r)
    BY <1>4 DEF Answers
  <2>3. \A b \in Browser : jar'[b] # None => tokens'[jar'[b]] # None /\ tokens'[jar'[b]].account = Owner[b]
    BY <1>1 DEF Cookies, Held
  <2>4. ASSUME NEW r \in Request, Answers(r)'
        PROVE  /\ \A b \in Browser : jar'[b] # req'[r].new
               /\ \A s \in Request : Active(s)' => req'[s].token # req'[r].new
               /\ \A s \in Request \ {r} : Answers(s)' => req'[s].new # req'[r].new
    <3>1. /\ \A b \in Browser : jar[b] # req[r].new
          /\ \A s \in Request : Active(s) => req[s].token # req[r].new
          /\ \A s \in Request \ {r} : Answers(s) => req[s].new # req[r].new
          /\ Active(r)
      BY <2>2, <2>4, <1>1 DEF Cookies, Answers
    <3>2. req'[r].new = req[r].new
      BY <3>1, <1>4
    <3>3. \A s \in Request \ {r} : Answers(s) => req'[s].new = req[s].new
      BY <1>4 DEF Answers
    <3> QED
      BY <3>1, <3>2, <3>3, <2>2, <1>1, <1>4
  <2>5. \A r \in Request, b \in Browser :
          Active(r)' /\ jar'[b] # None /\ req'[r].token = jar'[b] => req'[r].browser = b
    BY <1>1, <1>4 DEF Cookies
  <2>6. \A b, c \in Browser : jar'[b] # None /\ jar'[b] = jar'[c] => b = c
    BY <1>1 DEF Cookies
  <2> QED
    BY <2>1, <2>3, <2>4, <2>5, <2>6, <1>4 DEF Cookies, Held
<1>7. Spent'
  <2>1. \A t \in TokenId : Children(t)' = Children(t)
    BY <1>1 DEF Children
  <2>2. /\ \A r \in Request : Asks(r, {"refresh"}, {"issue"})' = Asks(r, {"refresh"}, {"issue"})
        /\ \A r \in Request : \A t \in TokenId : Spends(r, t)' = Spends(r, t)
    BY <1>4 DEF Spends, Asks
  <2>3. \A t \in TokenId : Children(t)' # {} => tokens'[t] # None /\ tokens'[t].revoked
    BY <1>1, <2>1 DEF Spent
  <2>4. ASSUME NEW r \in Request, Asks(r, {"refresh"}, {"issue"})'
        PROVE  tokens'[req'[r].token].revoked
    BY <1>1, <1>4, <2>2, <2>4 DEF Spent, Asks
  <2>5. ASSUME NEW t \in TokenId \ raced'
        PROVE  /\ \A u, v \in Children(t)' : u = v
               /\ \A r \in Request : Spends(r, t)' =>
                    Children(t)' = {} /\ \A s \in Request \ {r} : ~Spends(s, t)'
    BY <1>1, <2>1, <2>2 DEF Spent
  <2> QED
    BY <2>3, <2>4, <2>5 DEF Spent
<1> QED
  BY <1>1, <1>5, <1>6, <1>7 DEF IInv, Undisturbed, Bindings

\* A request ends: what the others know stays as it is.
LEMMA EndedCall ==
  ASSUME TypeOK, NEW r \in Request, req' = [req EXCEPT ![r] = None]
  PROVE  /\ req' \in [Request -> Call \cup {None}] /\ ~Active(r)'
         /\ \A s \in Request \ {r} : req'[s] = req[s]
         /\ \A s \in Request : Active(s)' => s # r /\ Active(s) /\ req'[s] = req[s]
BY DEF TypeOK, Active

LEMMA EndedSpent ==
  ASSUME TypeOK, Spent, NEW r \in Request, req' = [req EXCEPT ![r] = None],
         tokens' = tokens, raced' = raced
  PROVE  Spent'
<1>1. /\ \A s \in Request : Active(s)' => s # r /\ Active(s) /\ req'[s] = req[s]
      /\ \A t \in TokenId : Children(t)' = Children(t)
  BY EndedCall DEF Children
<1>2. /\ \A s \in Request : Asks(s, {"refresh"}, {"issue"})' =>
           Asks(s, {"refresh"}, {"issue"}) /\ req'[s] = req[s]
      /\ \A s \in Request : \A t \in TokenId : Spends(s, t)' => Spends(s, t)
  BY <1>1 DEF Asks, Spends
<1>3. \A t \in TokenId : Children(t)' # {} => tokens'[t] # None /\ tokens'[t].revoked
  BY <1>1 DEF Spent
<1>4. ASSUME NEW s \in Request, Asks(s, {"refresh"}, {"issue"})'
      PROVE  tokens'[req'[s].token].revoked
  BY <1>2, <1>4 DEF Spent
<1>5. ASSUME NEW t \in TokenId \ raced'
      PROVE  /\ \A u, v \in Children(t)' : u = v
             /\ \A s \in Request : Spends(s, t)' =>
                  Children(t)' = {} /\ \A q \in Request \ {s} : ~Spends(q, t)'
  BY <1>1, <1>2 DEF Spent
<1> QED
  BY <1>3, <1>4, <1>5 DEF Spent

\* When it ends, the cookies stay or one jar gets the new token.
LEMMA EndedCookies ==
  ASSUME TypeOK, Cookies, NEW r \in Request, Active(r), req' = [req EXCEPT ![r] = None],
         tokens' = tokens, NEW cookie, jar' = [jar EXCEPT ![req[r].browser] = cookie],
         cookie \in {None, jar[req[r].browser]} \/ (Answers(r) /\ cookie = req[r].new)
  PROVE  Cookies'
<1> DEFINE b0 == req[r].browser
<1>1. \A s \in Request : Active(s)' => s # r /\ Active(s) /\ req'[s] = req[s]
  BY EndedCall
<1>2. /\ b0 \in Browser /\ jar'[b0] = cookie /\ \A b \in Browser \ {b0} : jar'[b] = jar[b]
      /\ Shaped(r)
  BY CallFacts DEF TypeOK, Cookies
<1>3. ASSUME cookie \notin {None, jar[b0]}
      PROVE  /\ Answers(r) /\ cookie = req[r].new
             /\ \A b \in Browser : jar[b] # cookie
             /\ \A s \in Request : Active(s) => req[s].token # cookie
             /\ \A s \in Request \ {r} : Answers(s) => req[s].new # cookie
             /\ tokens[cookie] # None /\ tokens[cookie].account = Owner[b0]
  BY <1>3, <1>2 DEF Cookies, Shaped, Answers, Held, AccountOf
<1>4. ASSUME NEW s \in Request, Active(s)'
      PROVE  Shaped(s)'
  <2>1. Shaped(s) /\ req'[s] = req[s]
    BY <1>1, <1>4 DEF Cookies
  <2> QED
    BY <2>1 DEF Shaped, Held, AccountOf
<1>5. \A b \in Browser : jar'[b] # None => tokens'[jar'[b]] # None /\ tokens'[jar'[b]].account = Owner[b]
  BY <1>2, <1>3 DEF Cookies, Held
<1>6. ASSUME NEW b \in Browser, NEW c \in Browser, jar'[b] # None, jar'[b] = jar'[c]
      PROVE  b = c
  BY <1>2, <1>3, <1>6 DEF Cookies
<1>7. ASSUME NEW s \in Request, NEW b \in Browser, Active(s)', jar'[b] # None, req'[s].token = jar'[b]
      PROVE  req'[s].browser = b
  BY <1>1, <1>2, <1>3, <1>7 DEF Cookies
<1>8. ASSUME NEW s \in Request, Answers(s)'
      PROVE  /\ \A b \in Browser : jar'[b] # req'[s].new
             /\ \A q \in Request : Active(q)' => req'[q].token # req'[s].new
             /\ \A q \in Request \ {s} : Answers(q)' => req'[q].new # req'[s].new
  <2>1. s # r /\ Answers(s) /\ req'[s] = req[s]
    BY <1>1, <1>8 DEF Answers
  <2>2. /\ \A b \in Browser : jar[b] # req[s].new
        /\ \A q \in Request : Active(q) => req[q].token # req[s].new
        /\ \A q \in Request \ {s} : Answers(q) => req[q].new # req[s].new
        /\ req[s].new # None
    BY <2>1 DEF Cookies, Answers, Shaped
  <2>3. cookie # req[s].new
    BY <1>2, <1>3, <2>1, <2>2
  <2>4. \A q \in Request : Answers(q)' => Answers(q) /\ req'[q] = req[q]
    BY <1>1 DEF Answers
  <2> QED
    BY <1>1, <1>2, <2>1, <2>2, <2>3, <2>4
<1> QED
  BY <1>4, <1>5, <1>6, <1>7, <1>8 DEF Cookies, Held

LEMMA LoseKeeps ==
  ASSUME IInv, NEW r \in Request, Lose(r)
  PROVE  IInv'
<1>1. /\ TypeOK /\ Cookies /\ Spent /\ Active(r) /\ req' = [req EXCEPT ![r] = None]
      /\ UNCHANGED <<users, identity, tokens, jar, raced>> /\ faults' \in Nat /\ faults' # 0
  BY DEF IInv, Lose, Fault, TypeOK
<1>2. TypeOK'
  BY <1>1, EndedCall DEF TypeOK
<1>3. Cookies'
  <2>1. jar' = [jar EXCEPT ![req[r].browser] = jar[req[r].browser]]
    BY <1>1 DEF TypeOK
  <2> QED
    BY <1>1, <2>1, EndedCookies
<1>4. Spent'
  BY <1>1, EndedSpent
<1> QED
  BY <1>1, <1>2, <1>3, <1>4 DEF IInv, Undisturbed, Bindings

LEMMA DeliverKeeps ==
  ASSUME IInv, NEW r \in Request, Deliver(r)
  PROVE  IInv'
<1> DEFINE b0 == req[r].browser
           cookie == CASE req[r].answer = "session" -> req[r].new
                       [] req[r].answer = "cleared" -> None
                       [] OTHER -> jar[b0]
<1>1. /\ TypeOK /\ Cookies /\ Spent /\ Undisturbed /\ Bindings
      /\ Active(r) /\ req[r].pc = "answer" /\ req' = [req EXCEPT ![r] = None]
      /\ UNCHANGED <<users, identity, tokens, raced, faults>>
  BY DEF IInv, Deliver
<1>2. Shaped(r) /\ req[r] \in Call /\ b0 \in Browser
  BY <1>1, CallFacts DEF Cookies
<1>3. jar' = [jar EXCEPT ![b0] = cookie]
  BY DEF Deliver
<1>4. /\ req[r].answer = "session" => cookie = req[r].new
      /\ req[r].answer = "cleared" => cookie = None
      /\ req[r].answer \notin {"session", "cleared"} => cookie = jar[b0]
  OBVIOUS
<1> HIDE DEF cookie
<1>5. cookie \in TokenId \cup {None}
  BY <1>1, <1>2, <1>4 DEF TypeOK, Call
<1>6. TypeOK'
  BY <1>1, <1>3, <1>5, EndedCall DEF TypeOK
<1>7. Cookies'
  <2>1. cookie \in {None, jar[b0]} \/ (Answers(r) /\ cookie = req[r].new)
    BY <1>1, <1>4 DEF Answers
  <2> QED
    BY <1>1, <1>3, <2>1, EndedCookies
<1>8. Spent'
  BY <1>1, EndedSpent
<1>9. /\ \A s \in Request : Active(s)' => s # r /\ Active(s) /\ req'[s] = req[s]
      /\ \A s \in Request \ {r} : req'[s] = req[s]
  BY <1>1, EndedCall
<1>10. ASSUME faults = 0, NEW b \in Browser, jar'[b] # None, tokens'[jar'[b]].revoked
       PROVE  \E s \in Request : Replaces(s, b)'
  <2>1. jar'[b] = jar[b]
    <3>1. CASE b # b0
      BY <3>1, <1>1, <1>3 DEF TypeOK
    <3>2. CASE b = b0
      <4>1. jar'[b] = cookie
        BY <3>2, <1>1, <1>2, <1>3 DEF TypeOK
      <4>2. req[r].answer # "session"
        BY <4>1, <1>1, <1>2, <1>4, <1>10 DEF Shaped
      <4> QED
        BY <4>1, <4>2, <3>2, <1>4, <1>10
    <3> QED
      BY <3>1, <3>2
  <2>2. PICK s \in Request : Replaces(s, b)
    BY <2>1, <1>1, <1>10 DEF Undisturbed
  <2>3. s # r
    <3> SUFFICES ASSUME s = r
                 PROVE  FALSE
      OBVIOUS
    <3>1. b = b0 /\ req[r].answer \in {"session", "cleared"} /\ req[r].token = jar[b]
      BY <2>2, <1>1 DEF Replaces
    <3>2. jar'[b] = cookie
      BY <3>1, <1>1, <1>2, <1>3 DEF TypeOK
    <3>3. CASE req[r].answer = "session"
      BY <3>2, <3>3, <1>1, <1>2, <1>4, <1>10 DEF Shaped
    <3>4. CASE req[r].answer = "cleared"
      BY <3>2, <3>4, <1>4, <1>10
    <3> QED
      BY <3>1, <3>3, <3>4
  <2> QED
    BY <2>1, <2>2, <2>3, <1>9 DEF Replaces, Active
<1>11. Undisturbed'
  <2>1. faults = 0 => \A s \in Request : Active(s)' => ~req'[s].canceled
    BY <1>1, <1>9 DEF Undisturbed
  <2> QED
    BY <1>1, <1>10, <2>1 DEF Undisturbed
<1>12. Bindings'
  <2> SUFFICES ASSUME faults = 0, NEW a \in Account \ raced
               PROVE  /\ \A t \in TokenId : Held(t, a)' =>
                           identity'[a] # None /\ tokens'[t].user = identity'[a]
                      /\ \A s \in Request : Joins(s, a)' =>
                           identity'[a] = None /\ \A q \in Request \ {s} : ~Joins(q, a)'
                      /\ \A s \in Request :
                           Asks(s, {"login", "refresh"}, {"revoke", "issue"})' /\ AccountOf(s)' = a =>
                             identity'[a] # None /\ req'[s].user = identity'[a]
    BY <1>1 DEF Bindings
  <2>1. \A s \in Request : Joins(s, a)' => Joins(s, a)
    BY <1>9 DEF Joins, Asks, AccountOf
  <2>2. ASSUME NEW s \in Request, Asks(s, {"login", "refresh"}, {"revoke", "issue"})', AccountOf(s)' = a
        PROVE  /\ Asks(s, {"login", "refresh"}, {"revoke", "issue"}) /\ AccountOf(s) = a
               /\ req'[s] = req[s]
    BY <2>2, <1>9 DEF Asks, AccountOf
  <2>3. \A t \in TokenId : Held(t, a)' => identity'[a] # None /\ tokens'[t].user = identity'[a]
    BY <1>1 DEF Bindings, Held
  <2> QED
    BY <2>1, <2>2, <2>3, <1>1 DEF Bindings
<1> QED
  BY <1>6, <1>7, <1>8, <1>11, <1>12 DEF IInv

LEMMA ExpireKeeps ==
  ASSUME IInv, NEW t \in TokenId, Expire(t)
  PROVE  IInv'
<1>1. /\ TypeOK /\ Cookies /\ Spent /\ Undisturbed /\ Bindings
      /\ UNCHANGED <<users, identity, req, raced, faults>>
      /\ jar' = [b \in Browser |-> IF jar[b] = t THEN None ELSE jar[b]]
  BY DEF IInv, Expire
<1>2. \A b \in Browser : jar'[b] \in {jar[b], None}
  BY <1>1
<1>3. /\ tokens' \in [TokenId -> Row \cup {None}]
      /\ \A x \in TokenId : /\ tokens'[x] # None <=> tokens[x] # None
                            /\ tokens[x] # None =>
                                 /\ tokens'[x].user = tokens[x].user
                                 /\ tokens'[x].account = tokens[x].account
                                 /\ tokens'[x].parent = tokens[x].parent
                                 /\ tokens'[x].revoked = tokens[x].revoked
  <2> DEFINE row == [tokens[t] EXCEPT !.expired = TRUE]
  <2>1. tokens[t] \in Row /\ tokens[t] # None
    BY <1>1 DEF TypeOK, Expire, Valid
  <2>2. /\ row \in Row /\ row.user = tokens[t].user /\ row.account = tokens[t].account
        /\ row.parent = tokens[t].parent /\ row.revoked = tokens[t].revoked
    BY <2>1 DEF Row
  <2>3. tokens' = [tokens EXCEPT ![t] = row]
    BY DEF Expire
  <2> HIDE DEF row
  <2>4. /\ tokens' \in [TokenId -> Row \cup {None}] /\ tokens'[t] = row
        /\ \A x \in TokenId \ {t} : tokens'[x] = tokens[x]
    BY <1>1, <2>2, <2>3 DEF TypeOK
  <2> QED
    BY <2>1, <2>2, <2>4, NoneIsNothing DEF NoneIsNothing
<1>4. TypeOK'
  BY <1>1, <1>2, <1>3 DEF TypeOK, Active
<1>5. Cookies'
  <2>1. /\ \A r \in Request : Active(r)' = Active(r) /\ Answers(r)' = Answers(r)
    BY <1>1 DEF Active, Answers
  <2>2. ASSUME NEW r \in Request, Active(r)
        PROVE  Shaped(r)'
    <3>1. Shaped(r) /\ req[r] \in Call /\ req'[r] = req[r]
      BY <1>1, <2>2, CallFacts DEF Cookies
    <3>2. req[r].token # None => Held(req[r].token, AccountOf(r))'
      BY <3>1, <1>1, <1>3 DEF Shaped, Held, AccountOf, Call
    <3>3. req[r].answer = "session" =>
            Held(req[r].new, AccountOf(r))' /\ ~tokens'[req[r].new].revoked
      BY <3>1, <1>1, <1>3 DEF Shaped, Held, AccountOf, Call
    <3> QED
      BY <3>1, <3>2, <3>3 DEF Shaped
  <2>3. ASSUME NEW b \in Browser, jar'[b] # None
        PROVE  tokens'[jar'[b]] # None /\ tokens'[jar'[b]].account = Owner[b]
    <3>1. jar'[b] = jar[b] /\ jar[b] \in TokenId /\ Held(jar[b], Owner[b])
      BY <1>1, <1>2, <2>3 DEF TypeOK, Cookies
    <3> QED
      BY <3>1, <1>3 DEF Held
  <2>4. /\ \A b, c \in Browser : jar'[b] # None /\ jar'[b] = jar'[c] => b = c
        /\ \A r \in Request, b \in Browser :
             Active(r)' /\ jar'[b] # None /\ req'[r].token = jar'[b] => req'[r].browser = b
    BY <1>1, <1>2, <2>1 DEF Cookies
  <2>5. ASSUME NEW r \in Request, Answers(r)'
        PROVE  /\ \A b \in Browser : jar'[b] # req'[r].new
               /\ \A s \in Request : Active(s)' => req'[s].token # req'[r].new
               /\ \A s \in Request \ {r} : Answers(s)' => req'[s].new # req'[r].new
    <3>1. /\ Answers(r) /\ req[r].new # None
          /\ \A b \in Browser : jar[b] # req[r].new
      BY <2>1, <2>5, <1>1 DEF Cookies, Answers, Shaped
    <3>2. \A b \in Browser : jar'[b] # req'[r].new
      BY <3>1, <1>1, <1>2
    <3> QED
      BY <3>1, <3>2, <2>1, <1>1 DEF Cookies
  <2> QED
    BY <2>1, <2>2, <2>3, <2>4, <2>5 DEF Cookies, Held
<1>6. Spent'
  <2>1. \A x \in TokenId : Children(x)' = Children(x)
    BY <1>3 DEF Children
  <2>2. /\ \A r \in Request : Asks(r, {"refresh"}, {"issue"})' = Asks(r, {"refresh"}, {"issue"})
        /\ \A r \in Request : \A x \in TokenId : Spends(r, x)' = Spends(r, x)
    BY <1>1 DEF Spends, Asks, Active
  <2>3. \A x \in TokenId : Children(x)' # {} => tokens'[x] # None /\ tokens'[x].revoked
    BY <1>1, <1>3, <2>1 DEF Spent
  <2>4. ASSUME NEW r \in Request, Asks(r, {"refresh"}, {"issue"})'
        PROVE  tokens'[req'[r].token].revoked
    <3>1. /\ Asks(r, {"refresh"}, {"issue"}) /\ req[r].token \in TokenId
          /\ tokens[req[r].token] # None
      BY <1>1, <2>2, <2>4, CallFacts DEF Asks, Cookies, Shaped, Held, Call
    <3> QED
      BY <3>1, <1>1, <1>3 DEF Spent
  <2>5. ASSUME NEW x \in TokenId \ raced'
        PROVE  /\ \A u, v \in Children(x)' : u = v
               /\ \A r \in Request : Spends(r, x)' =>
                    Children(x)' = {} /\ \A s \in Request \ {r} : ~Spends(s, x)'
    BY <1>1, <2>1, <2>2 DEF Spent
  <2> QED
    BY <2>3, <2>4, <2>5 DEF Spent
<1>7. Undisturbed'
  <2>1. ASSUME faults = 0, NEW b \in Browser, jar'[b] # None, tokens'[jar'[b]].revoked
        PROVE  \E r \in Request : Replaces(r, b)'
    <3>1. /\ jar'[b] = jar[b] /\ jar[b] \in TokenId /\ tokens[jar[b]] # None
      BY <2>1, <1>1, <1>2 DEF TypeOK, Cookies, Held
    <3>2. tokens[jar[b]].revoked
      BY <3>1, <2>1, <1>3
    <3>3. PICK r \in Request : Replaces(r, b)
      BY <3>1, <3>2, <2>1, <1>1 DEF Undisturbed
    <3> QED
      BY <3>1, <3>3, <1>1 DEF Replaces, Active
  <2>2. faults = 0 => \A r \in Request : Active(r)' => ~req'[r].canceled
    BY <1>1 DEF Undisturbed, Active
  <2> QED
    BY <1>1, <2>1, <2>2 DEF Undisturbed
<1>8. Bindings'
  <2>1. /\ \A r \in Request : \A a \in Account : Joins(r, a)' = Joins(r, a)
        /\ \A r \in Request : Asks(r, {"login", "refresh"}, {"revoke", "issue"})' =
                              Asks(r, {"login", "refresh"}, {"revoke", "issue"})
        /\ \A r \in Request : AccountOf(r)' = AccountOf(r)
    BY <1>1 DEF Joins, Asks, Active, AccountOf
  <2>2. \A x \in TokenId : \A a \in Account : Held(x, a)' => Held(x, a) /\ tokens'[x].user = tokens[x].user
    BY <1>3 DEF Held
  <2> SUFFICES ASSUME faults = 0, NEW a \in Account \ raced
               PROVE  /\ \A x \in TokenId : Held(x, a)' =>
                           identity'[a] # None /\ tokens'[x].user = identity'[a]
                      /\ \A s \in Request : Joins(s, a)' =>
                           identity'[a] = None /\ \A q \in Request \ {s} : ~Joins(q, a)'
                      /\ \A s \in Request :
                           Asks(s, {"login", "refresh"}, {"revoke", "issue"})' /\ AccountOf(s)' = a =>
                             identity'[a] # None /\ req'[s].user = identity'[a]
    BY <1>1 DEF Bindings
  <2> QED
    BY <1>1, <2>1, <2>2 DEF Bindings
<1> QED
  BY <1>4, <1>5, <1>6, <1>7, <1>8 DEF IInv

LEMMA SendKeeps ==
  ASSUME IInv, NEW r \in Request, NEW b0 \in Browser, NEW kind \in {"login", "refresh", "logout"},
         Send(r, b0, kind)
  PROVE  IInv'
<1> DEFINE call == [kind |-> kind, browser |-> b0, token |-> jar[b0], user |-> None,
                    pc |-> IF kind = "login" THEN "find" ELSE "get",
                    answer |-> None, new |-> None, canceled |-> FALSE]
<1>1. /\ TypeOK /\ Cookies /\ Spent /\ Undisturbed /\ Bindings
      /\ UNCHANGED <<users, identity, tokens, jar, raced, faults>> /\ ~Active(r)
      /\ kind # "login" => jar[b0] # None
  BY DEF IInv, Send
<1>2. /\ call \in Call /\ call.kind = kind /\ call.browser = b0 /\ call.token = jar[b0]
      /\ call.user = None /\ call.pc = (IF kind = "login" THEN "find" ELSE "get")
      /\ call.answer = None /\ call.new = None /\ ~call.canceled
  BY <1>1 DEF Call, TypeOK
<1>3. req' = [req EXCEPT ![r] = call]
  BY DEF Send
<1> HIDE DEF call
<1>4. /\ req' \in [Request -> Call \cup {None}] /\ req'[r] = call /\ Active(r)'
      /\ \A s \in Request \ {r} : req'[s] = req[s] /\ Active(s)' = Active(s) /\ Answers(s)' = Answers(s)
      /\ ~Answers(r)'
  BY <1>1, <1>2, <1>3, NoneIsNothing DEF TypeOK, Active, Answers, NoneIsNothing
<1>5. TypeOK'
  BY <1>1, <1>2, <1>4 DEF TypeOK, Active
<1>6. Cookies'
  <2>1. ASSUME NEW s \in Request, Active(s)'
        PROVE  Shaped(s)'
    <3>1. CASE s = r
      <4>1. jar[b0] # None => Held(jar[b0], Owner[b0])
        BY <1>1 DEF Cookies
      <4> QED
        BY <3>1, <4>1, <1>1, <1>2, <1>4, NoneIsNothing DEF Shaped, Held, AccountOf, NoneIsNothing
    <3>2. CASE s # r
      BY <3>2, <2>1, <1>1, <1>4 DEF Cookies, Shaped, Held, AccountOf
    <3> QED
      BY <3>1, <3>2
  <2>2. /\ \A b \in Browser : jar'[b] # None => tokens'[jar'[b]] # None /\ tokens'[jar'[b]].account = Owner[b]
        /\ \A b, c \in Browser : jar'[b] # None /\ jar'[b] = jar'[c] => b = c
    BY <1>1 DEF Cookies, Held
  <2>3. \A s \in Request, b \in Browser :
          Active(s)' /\ jar'[b] # None /\ req'[s].token = jar'[b] => req'[s].browser = b
    BY <1>1, <1>2, <1>4 DEF Cookies
  <2>4. ASSUME NEW s \in Request, Answers(s)'
        PROVE  /\ \A b \in Browser : jar'[b] # req'[s].new
               /\ \A q \in Request : Active(q)' => req'[q].token # req'[s].new
               /\ \A q \in Request \ {s} : Answers(q)' => req'[q].new # req'[s].new
    <3>1. s # r
      BY <2>4, <1>4
    <3>2. Answers(s) /\ req'[s] = req[s]
      BY <3>1, <2>4, <1>4
    <3>3. /\ \A b \in Browser : jar[b] # req[s].new
          /\ \A q \in Request : Active(q) => req[q].token # req[s].new
          /\ \A q \in Request \ {s} : Answers(q) => req[q].new # req[s].new
      BY <3>2, <1>1 DEF Cookies
    <3> QED
      BY <3>2, <3>3, <1>1, <1>2, <1>4
  <2> QED
    BY <2>1, <2>2, <2>3, <2>4 DEF Cookies, Held
<1>7. Spent'
  <2>1. \A x \in TokenId : Children(x)' = Children(x)
    BY <1>1 DEF Children
  <2>2. /\ \A s \in Request : Asks(s, {"refresh"}, {"issue"})' =>
             Asks(s, {"refresh"}, {"issue"}) /\ req'[s] = req[s]
        /\ \A s \in Request : \A x \in TokenId : Spends(s, x)' => Spends(s, x)
    BY <1>2, <1>4 DEF Spends, Asks
  <2>3. \A x \in TokenId : Children(x)' # {} => tokens'[x] # None /\ tokens'[x].revoked
    BY <1>1, <2>1 DEF Spent
  <2>4. ASSUME NEW s \in Request, Asks(s, {"refresh"}, {"issue"})'
        PROVE  tokens'[req'[s].token].revoked
    BY <2>2, <2>4, <1>1 DEF Spent
  <2>5. ASSUME NEW x \in TokenId \ raced'
        PROVE  /\ \A u, v \in Children(x)' : u = v
               /\ \A s \in Request : Spends(s, x)' =>
                    Children(x)' = {} /\ \A q \in Request \ {s} : ~Spends(q, x)'
    BY <1>1, <2>1, <2>2 DEF Spent
  <2> QED
    BY <2>3, <2>4, <2>5 DEF Spent
<1>8. Undisturbed'
  <2>1. faults = 0 => \A s \in Request : Active(s)' => ~req'[s].canceled
    BY <1>1, <1>2, <1>4 DEF Undisturbed
  <2>2. ASSUME faults = 0, NEW b \in Browser, jar[b] # None, tokens[jar[b]].revoked
        PROVE  \E s \in Request : Replaces(s, b)'
    <3>1. PICK s \in Request : Replaces(s, b)
      BY <2>2, <1>1 DEF Undisturbed
    <3>2. s # r
      BY <3>1, <1>1 DEF Replaces
    <3> QED
      BY <3>1, <3>2, <1>1, <1>4 DEF Replaces
  <2> QED
    BY <1>1, <2>1, <2>2 DEF Undisturbed
<1>9. Bindings'
  <2> SUFFICES ASSUME faults = 0, NEW a \in Account \ raced
               PROVE  /\ \A x \in TokenId : Held(x, a)' =>
                           identity'[a] # None /\ tokens'[x].user = identity'[a]
                      /\ \A s \in Request : Joins(s, a)' =>
                           identity'[a] = None /\ \A q \in Request \ {s} : ~Joins(q, a)'
                      /\ \A s \in Request :
                           Asks(s, {"login", "refresh"}, {"revoke", "issue"})' /\ AccountOf(s)' = a =>
                             identity'[a] # None /\ req'[s].user = identity'[a]
    BY <1>1 DEF Bindings
  <2>1. \A s \in Request : Joins(s, a)' => Joins(s, a)
    BY <1>2, <1>4 DEF Joins, Asks, AccountOf
  <2>2. ASSUME NEW s \in Request, Asks(s, {"login", "refresh"}, {"revoke", "issue"})', AccountOf(s)' = a
        PROVE  /\ Asks(s, {"login", "refresh"}, {"revoke", "issue"}) /\ AccountOf(s) = a
               /\ req'[s] = req[s]
    BY <2>2, <1>2, <1>4 DEF Asks, AccountOf
  <2>3. \A x \in TokenId : Held(x, a)' => identity'[a] # None /\ tokens'[x].user = identity'[a]
    BY <1>1 DEF Bindings, Held
  <2> QED
    BY <2>1, <2>2, <2>3, <1>1 DEF Bindings
<1> QED
  BY <1>5, <1>6, <1>7, <1>8, <1>9 DEF IInv

-----------------------------------------------------------------------------
(* The invariant, and what follows from it *)

LEMMA InvInit ==
  ASSUME Init
  PROVE  IInv
<1>1. /\ \A r \in Request : ~Active(r) /\ ~Answers(r)
      /\ \A b \in Browser : jar[b] = None
      /\ \A t \in TokenId : tokens[t] = None /\ Children(t) = {}
  BY DEF Init, Active, Answers, Children
<1>2. TypeOK
  BY <1>1 DEF Init, TypeOK
<1>3. Cookies /\ Undisturbed
  BY <1>1 DEF Cookies, Undisturbed
<1>4. Spent
  BY <1>1 DEF Spent, Spends, Asks
<1>5. Bindings
  BY <1>1 DEF Bindings, Held, Joins, Asks
<1> QED
  BY <1>2, <1>3, <1>4, <1>5 DEF IInv

LEMMA InvNext ==
  ASSUME IInv, [Next]_vars
  PROVE  IInv'
<1>1. ASSUME NEW r \in Request, NEW b \in Browser, NEW kind \in {"login", "refresh", "logout"},
             Send(r, b, kind)
      PROVE  IInv'
  BY <1>1, SendKeeps
<1>2. ASSUME NEW r \in Request, Handle(r)
      PROVE  IInv'
  <2>1. CASE FindUser(r)
    BY <2>1, FindUserKeeps
  <2>2. CASE LinkIdentity(r)
    BY <2>2, LinkIdentityKeeps
  <2>3. CASE \E u \in UserId : CreateUser(r, u)
    BY <2>3, CreateUserKeeps
  <2>4. CASE CheckToken(r)
    BY <2>4, CheckTokenKeeps
  <2>5. CASE FindToken(r)
    BY <2>5, FindTokenKeeps
  <2>6. CASE RevokeRefreshToken(r)
    BY <2>6, RevokeRefreshTokenKeeps
  <2>7. CASE \E t \in TokenId : CreateRefreshToken(r, t)
    BY <2>7, CreateRefreshTokenKeeps
  <2> QED
    BY <1>2, <2>1, <2>2, <2>3, <2>4, <2>5, <2>6, <2>7 DEF Handle
<1>3. ASSUME NEW r \in Request, Fail(r) \/ Deliver(r) \/ Lose(r)
      PROVE  IInv'
  BY <1>3, FailKeeps, DeliverKeeps, LoseKeeps
<1>4. ASSUME NEW t \in TokenId, Expire(t)
      PROVE  IInv'
  BY <1>4, ExpireKeeps
<1>5. CASE Shutdown
  BY <1>5, ShutdownKeeps
<1>6. CASE UNCHANGED vars
  <2>1. UNCHANGED <<users, identity, tokens, jar, req, raced, faults>>
    BY <1>6 DEF vars
  <2>2. TypeOK' /\ Cookies'
    BY <2>1 DEF IInv, TypeOK, Active, Cookies, Shaped, Held, AccountOf, Answers
  <2>3. Spent'
    BY <2>1 DEF IInv, Spent, Children, Asks, Active, Spends
  <2>4. Undisturbed' /\ Bindings'
    BY <2>1 DEF IInv, Undisturbed, Replaces, Bindings, Held, Joins, Asks, Active, AccountOf
  <2> QED
    BY <2>2, <2>3, <2>4 DEF IInv
<1> QED
  BY <1>1, <1>2, <1>3, <1>4, <1>5, <1>6 DEF Next

LEMMA Invariance == Spec => []IInv
BY InvInit, InvNext, PTL DEF Spec

\* A refresh token gives at most one session, whatever is lost, failed or shut
\* down in between, unless two refreshes had both found it valid before either
\* revoked it (service.go:117-155).
THEOREM RefreshTokensAreOneShot == Spec => []OneShot
<1>1. IInv => OneShot
  <2> SUFFICES ASSUME IInv, NEW t \in TokenId, t \notin raced
               PROVE  ~(Cardinality(Children(t)) > 1)
    BY DEF OneShot
  <2>1. \A u, v \in Children(t) : u = v
    BY DEF IInv, Spent
  <2>2. CASE Children(t) = {}
    BY <2>2, FS_EmptySet
  <2>3. CASE Children(t) # {}
    <3>1. PICK u \in Children(t) : TRUE
      BY <2>3
    <3>2. Children(t) = {u}
      BY <2>1, <3>1
    <3>3. Cardinality(Children(t)) = 1
      BY <3>2, FS_Singleton
    <3> QED
      BY <3>3
  <2> QED
    BY <2>2, <2>3
<1> QED
  BY <1>1, Invariance, PTL

\* As long as nothing fails no tab, and no other browser, logs a browser out: the
\* token in its jar is valid or one of its own requests is about to replace it,
\* over any number of logins, refreshes, logouts and expiries.
THEOREM JarsStayUsable == Spec => []JarIsUsable
<1>1. IInv => JarIsUsable
  BY DEF IInv, Undisturbed, Replaces, JarIsUsable
<1> QED
  BY <1>1, Invariance, PTL

\* All sessions of an account are those of one user, unless a call failed or two
\* first logins of the account overlapped (service.go:158-207).
THEOREM AccountsHaveOneUser == Spec => []OneUserPerAccount
<1>1. IInv => OneUserPerAccount
  <2> SUFFICES ASSUME IInv, faults = 0, NEW t \in TokenId, NEW u \in TokenId,
                      tokens[t] # None, tokens[u] # None, tokens[t].account = tokens[u].account,
                      tokens[t].account \notin raced
               PROVE  tokens[t].user = tokens[u].user
    BY DEF OneUserPerAccount
  <2>1. tokens[t].account \in Account
    BY DEF IInv, TypeOK, Row
  <2> QED
    BY <2>1 DEF IInv, Bindings, Held
<1> QED
  BY <1>1, Invariance, PTL

\* Whatever happens, failures included, an identity that is bound to a user stays
\* bound to that user (users.sql.go:215-227).
THEOREM IdentitiesStayBound == Spec => BindingIsKept
<1>1. ASSUME TypeOK, [Next]_vars
      PROVE  [\A a \in Account : identity[a] # None => identity'[a] = identity[a]]_vars
  <2>1. CASE UNCHANGED vars
    BY <2>1
  <2>2. ASSUME NEW r \in Request, identity' = Bound(r)
        PROVE  \A a \in Account : identity[a] # None => identity'[a] = identity[a]
    BY <1>1, <2>2 DEF Bound, TypeOK
  <2>3. CASE Next
    <3>1. identity' = identity \/ \E r \in Request : identity' = Bound(r)
      BY <2>3 DEF Next, Send, Handle, FindUser, LinkIdentity, CreateUser, CheckToken, FindToken,
                  RevokeRefreshToken, CreateRefreshToken, Fail, Effect, Deliver, Lose, Expire, Shutdown
    <3> QED
      BY <2>2, <3>1
  <2> QED
    BY <1>1, <2>1, <2>3
<1>2. IInv => TypeOK
  BY DEF IInv
<1> QED
  BY <1>1, <1>2, Invariance, PTL DEF Spec, BindingIsKept
=============================================================================
