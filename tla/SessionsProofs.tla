---------------------------- MODULE SessionsProofs ----------------------------
(***************************************************************************)
(* The theorems of the sign-in sessions, for any number of accounts, token *)
(* pairs and tabs: types, where access tokens come from, and what keeps    *)
(* a suspended host from a new one.                                        *)
(***************************************************************************)
EXTENDS Sessions, TLAPS

RequestRow == [step: Step, who: Account \cup {NULL}, op: Op \cup {NULL},
               token: Token \cup {NULL}]

\* The requests that the steps of a tab build are well typed.
LEMMA RequestTypes ==
  /\ Idle \in RequestRow
  /\ \A q \in RequestRow :
       /\ \A s \in Step : [q EXCEPT !.step = s] \in RequestRow
       /\ \A k \in Token :
            [q EXCEPT !.step = "accepted", !.token = k] \in RequestRow
       /\ \A o \in Op : [q EXCEPT !.step = "passed", !.op = o] \in RequestRow
       /\ q.op \in Op \cup {NULL} /\ q.who \in Account \cup {NULL}
       /\ q.token \in Token \cup {NULL}
  /\ \A o \in Op, a \in Account : [Idle EXCEPT !.op = o, !.who = a] \in RequestRow
  /\ \A a \in Account \cup {NULL}, k \in Token :
       [Idle EXCEPT !.op = "refresh", !.who = a, !.token = k] \in RequestRow
BY DEF Idle, RequestRow, Step, Op

\* Whatever a tab's request becomes, the requests keep their type.
LEMMA RequestsTyped ==
  ASSUME request \in [Tab -> RequestRow], NEW t \in Tab
  PROVE  /\ \A q \in RequestRow : request' = [request EXCEPT ![t] = q]
                                    => request' \in [Tab -> RequestRow]
         /\ \A s \in Step : Goto(t, s) => request' \in [Tab -> RequestRow]
         /\ \A q \in RequestRow :
              Send(t, q) \/ Refuse(t, q) => request' \in [Tab -> RequestRow]
         /\ Refuse(t, request[t]) => request' \in [Tab -> RequestRow]
<1>1. \A q \in RequestRow : request' = [request EXCEPT ![t] = q]
                              => request' \in [Tab -> RequestRow]
  OBVIOUS
<1>2. ASSUME NEW s \in Step, Goto(t, s) PROVE request' \in [Tab -> RequestRow]
  <2>1. [request[t] EXCEPT !.step = s] \in RequestRow
    BY RequestTypes
  <2>2. request' = [request EXCEPT ![t] = [request[t] EXCEPT !.step = s]]
    BY <1>2 DEF Goto
  <2>3. QED
    BY <1>1, <2>1, <2>2
<1>3. ASSUME NEW q \in RequestRow, Send(t, q) \/ Refuse(t, q)
      PROVE  request' \in [Tab -> RequestRow]
  <2>1. /\ [q EXCEPT !.step = "sent"] \in RequestRow
        /\ [q EXCEPT !.step = "refused"] \in RequestRow
        /\ Idle \in RequestRow
    BY RequestTypes DEF Step
  <2>2. QED
    BY <1>1, <1>3, <2>1 DEF Send, Refuse
<1>4. QED
  BY <1>1, <1>2, <1>3

\* A new pair leaves the token table and the requests well typed.
LEMMA IssueTypes ==
  ASSUME TypeOK, NEW t \in Tab, NEW a \in Account \cup {NULL},
         NEW pairs \in [Token -> Pair], Issue(t, a, pairs)
  PROVE  pair' \in [Token -> Pair] /\ request' \in [Tab -> RequestRow]
<1>1. request \in [Tab -> RequestRow] /\ NewPair(a) \in Pair
  BY DEF TypeOK, RequestRow, NewPair, Pair
<1>2. PICK k \in Token :
        /\ pair' = [pairs EXCEPT ![k] = NewPair(a)]
        /\ request' = [request EXCEPT
             ![t] = [request[t] EXCEPT !.step = "accepted", !.token = k]]
  BY <1>1 DEF Issue, RequestRow
<1>3. QED
  BY <1>1, <1>2, RequestTypes, RequestsTyped

\* A client renews tokens it has.
LEMMA RefreshTyped ==
  ASSUME TypeOK, NEW t \in Tab, memory[t] # NULL
  PROVE  RefreshOf(t) \in RequestRow /\ RefreshOf(t).op = "refresh"
<1>1. memory[t] \in Token /\ pair[memory[t]].owner \in Account \cup {NULL}
  BY DEF TypeOK, Pair
<1>2. QED
  BY <1>1, RequestTypes DEF RefreshOf, Idle

\* A refresh finds no row: what is stored and what is looked up differ.
LEMMA NeverFinds == \A k, pairs : ~FindsRow(k, pairs)
BY DEF FindsRow, DigestStored, DigestLookedUp

\* Every step of a page, a script or a service keeps the types.
LEMMA SessionTypeStep == TypeOK /\ [Next]_vars => TypeOK'
<1> SUFFICES ASSUME TypeOK, [Next]_vars PROVE TypeOK'
  OBVIOUS
<1> USE DEF tables, browser
<1>1. /\ request \in [Tab -> RequestRow] /\ pair \in [Token -> Pair]
      /\ stored.token \in Token \cup {NULL} /\ stored.profile \in Account \cup {NULL}
  BY DEF TypeOK, RequestRow
<1>2. ASSUME request' \in [Tab -> RequestRow], UNCHANGED <<tables, browser>>
      PROVE  TypeOK'
  BY <1>2 DEF TypeOK, RequestRow
<1>3. ASSUME NEW t \in Tab, NEW op \in Op, NEW a \in Account, Submit(t, op, a)
      PROVE  TypeOK'
  <2>1. [Idle EXCEPT !.op = op, !.who = a] \in RequestRow
    BY RequestTypes
  <2>2. QED
    BY <1>1, <1>2, <1>3, <2>1, RequestsTyped DEF Submit
<1>4. ASSUME NEW t \in Tab, Unauthorized(t) PROVE TypeOK'
  <2>1. RefreshOf(t) \in RequestRow
    BY <1>4, RefreshTyped DEF Unauthorized
  <2>2. QED
    BY <1>1, <1>2, <1>4, <2>1, RequestsTyped DEF Unauthorized
<1>5. ASSUME NEW t \in Tab, SignOut(t) PROVE TypeOK'
  BY <1>5 DEF SignOut, ClearSession, NotifyOthers, SignedOut, TypeOK
<1>6. ASSUME NEW t \in Tab, Load(t) PROVE TypeOK'
  <2>1. request' \in [Tab -> RequestRow]
    BY <1>1, <1>6, RequestTypes, RequestsTyped DEF Load
  <2>2. /\ memory' \in [Tab -> Token \cup {NULL}]
        /\ shown' \in [Tab -> Account \cup {NULL}]
        /\ notified' \in SUBSET Tab
    BY <1>1, <1>6 DEF Load, TypeOK
  <2>3. QED
    BY <1>6, <2>1, <2>2 DEF Load, TypeOK, RequestRow
<1>7. ASSUME NEW t \in Tab, Accepted(t) PROVE TypeOK'
  <2>1. request' \in [Tab -> RequestRow] /\ notified' \in SUBSET Tab
    BY <1>1, <1>7, RequestTypes, RequestsTyped DEF Accepted, NotifyOthers, TypeOK
  <2>2. /\ request[t].token \in Token \cup {NULL}
        /\ request[t].who \in Account \cup {NULL}
    BY <1>1, RequestTypes
  <2>3. /\ memory' \in [Tab -> Token \cup {NULL}]
        /\ shown' \in [Tab -> Account \cup {NULL}]
        /\ stored' \in [token: Token \cup {NULL}, profile: Account \cup {NULL}]
    BY <1>7, <2>2 DEF Accepted, TypeOK
  <2>4. QED
    BY <1>7, <2>1, <2>3 DEF Accepted, TypeOK, RequestRow
<1>8. ASSUME NEW t \in Tab, Turned(t) PROVE TypeOK'
  <2>1. request' \in [Tab -> RequestRow] /\ notified' \in SUBSET Tab
    BY <1>1, <1>8, RequestTypes, RequestsTyped DEF Turned, NotifyOthers, TypeOK
  <2>2. /\ memory' \in [Tab -> Token \cup {NULL}]
        /\ stored' \in [token: Token \cup {NULL}, profile: Account \cup {NULL}]
    BY <1>8 DEF Turned, TypeOK
  <2>3. QED
    BY <1>8, <2>1, <2>2 DEF Turned, TypeOK, RequestRow
<1>9. ASSUME NEW t \in Tab, StorageEvent(t) PROVE TypeOK'
  BY <1>1, <1>9 DEF StorageEvent, TypeOK
<1>10. ASSUME NEW t \in Tab, Unreachable(t) PROVE TypeOK'
  BY <1>1, <1>2, <1>10, RequestTypes, RequestsTyped DEF Unreachable
<1>11. ASSUME NEW t \in Tab, HostLogin(t) \/ GuestLogin(t) \/ AdminLogin(t)
                               \/ HostRegister(t)
       PROVE  TypeOK'
  <2>1. \/ Goto(t, "passed") \/ Refuse(t, request[t])
        \/ memory[t] # NULL /\ Send(t, RefreshOf(t))
    BY <1>11 DEF HostLogin, GuestLogin, AdminLogin, HostRegister, Deny
  <2>2. UNCHANGED <<tables, browser>>
    BY <1>11 DEF HostLogin, GuestLogin, AdminLogin, HostRegister
  <2>3. CASE Goto(t, "passed") \/ Refuse(t, request[t])
    BY <1>1, <1>2, <2>2, <2>3, RequestsTyped DEF Step
  <2>4. CASE memory[t] # NULL /\ Send(t, RefreshOf(t))
    <3>1. RefreshOf(t) \in RequestRow
      BY <2>4, RefreshTyped
    <3>2. QED
      BY <1>1, <1>2, <2>2, <2>4, <3>1, RequestsTyped
  <2>5. QED
    BY <2>1, <2>3, <2>4
<1>12. ASSUME NEW t \in Tab, GuestRegister(t) PROVE TypeOK'
  <2>1. CASE Refuse(t, request[t])
    BY <1>1, <1>2, <1>12, <2>1, RequestsTyped DEF GuestRegister
  <2>2. CASE request' = [request EXCEPT
               ![t].step = "passed",
               ![t].op = IF row[request[t].who] = "checkout" THEN "claim" ELSE @]
    <3>1. request[t].op \in Op
      BY <1>12 DEF GuestRegister, Serving, Op
    <3>2. PICK o \in Op : request' = [request EXCEPT
                            ![t] = [request[t] EXCEPT !.step = "passed", !.op = o]]
      BY <1>1, <2>2, <3>1 DEF Op, RequestRow
    <3>3. QED
      BY <1>1, <1>2, <1>12, <3>2, RequestTypes, RequestsTyped DEF GuestRegister
  <2>3. QED
    BY <1>12, <2>1, <2>2 DEF GuestRegister
<1>13. ASSUME NEW t \in Tab, IssueLogin(t) PROVE TypeOK'
  <2>1. pair' \in [Token -> Pair] /\ request' \in [Tab -> RequestRow]
    BY <1>1, <1>13, RequestTypes, IssueTypes DEF IssueLogin
  <2>2. QED
    BY <1>13, <2>1 DEF IssueLogin, TypeOK, RequestRow
<1>14. ASSUME NEW t \in Tab, NEW a, a = request[t].who,
              row' = [row EXCEPT ![a] = "active"], Issue(t, a, pair),
              UNCHANGED <<role, browser>>
       PROVE  TypeOK'
  <2>1. pair' \in [Token -> Pair] /\ request' \in [Tab -> RequestRow]
    BY <1>1, <1>14, RequestTypes, IssueTypes
  <2>2. "active" \in AccountRow[role]
    BY DEF TypeOK, AccountRow, Role
  <2>3. row' \in [Account -> AccountRow[role]] /\ role' = role
    BY <1>14, <2>2 DEF TypeOK
  <2>4. QED
    BY <1>14, <2>1, <2>3 DEF TypeOK, RequestRow
<1>15. ASSUME NEW t \in Tab, CreateAccount(t) \/ ClaimAccount(t) PROVE TypeOK'
  <2>1. CASE /\ row' = [row EXCEPT ![request[t].who] = "active"]
             /\ Issue(t, request[t].who, pair)
    BY <1>14, <1>15, <2>1 DEF CreateAccount, ClaimAccount
  <2>2. CASE Refuse(t, request[t]) /\ UNCHANGED <<row, pair>>
    BY <1>1, <1>2, <1>15, <2>2, RequestsTyped DEF CreateAccount, ClaimAccount
  <2>3. QED
    BY <1>15, <2>1, <2>2 DEF CreateAccount, ClaimAccount
<1>16. ASSUME NEW t \in Tab, HostRefresh(t) \/ GuestRefresh(t) \/ AdminRefresh(t)
       PROVE  TypeOK'
  <2>1. Refuse(t, request[t]) /\ UNCHANGED <<tables, browser>>
    BY <1>16, NeverFinds DEF HostRefresh, GuestRefresh, AdminRefresh, Rotate
  <2>2. QED
    BY <1>1, <1>2, <2>1, RequestsTyped
<1>17. ASSUME NEW a \in Account, Logout(a) PROVE TypeOK'
  <2>1. pair' \in [Token -> Pair]
    BY <1>1, <1>17 DEF Logout, RevokeAll, Pair
  <2>2. QED
    BY <1>17, <2>1 DEF Logout, TypeOK
<1>18. ASSUME NEW a \in Account, GuestCheckout(a) PROVE TypeOK'
  <2>1. row' \in [Account -> AccountRow[role]]
    BY <1>18 DEF GuestCheckout, TypeOK, AccountRow
  <2>2. QED
    BY <1>18, <2>1 DEF GuestCheckout, TypeOK
<1>19. ASSUME NEW a \in Account, NEW isActive \in BOOLEAN,
              SetHostActive(a, isActive)
       PROVE  TypeOK'
  <2>1. row' \in [Account -> AccountRow[role]]
    BY <1>19 DEF SetHostActive, TypeOK, AccountRow
  <2>2. QED
    BY <1>19, <2>1 DEF SetHostActive, TypeOK
<1>20. ASSUME NEW k \in Token, AccessExpires(k) \/ RowExpires(k) PROVE TypeOK'
  <2>1. pair' \in [Token -> Pair]
    BY <1>1, <1>20 DEF AccessExpires, RowExpires, Pair
  <2>2. QED
    BY <1>20, <2>1 DEF AccessExpires, RowExpires, TypeOK
<1>21. CASE UNCHANGED vars
  BY <1>21 DEF vars, TypeOK
<1>22. QED
  <2>1. ASSUME NEW t \in Tab, Page(t) PROVE TypeOK'
    BY <2>1, <1>3, <1>4, <1>5, <1>6
       DEF Page, HostLoginForm, GuestLoginForm, AdminLoginForm,
           HostRegisterPage, GuestRegisterPage, GuestSignOut, HostSignOut,
           AdminSignOut, Op
  <2>2. ASSUME NEW t \in Tab, Script(t) PROVE TypeOK'
    BY <2>2, <1>7, <1>8, <1>9 DEF Script
  <2>3. ASSUME NEW t \in Tab, Serve(t) PROVE TypeOK'
    BY <2>3, <1>10, <1>11, <1>12, <1>13, <1>15, <1>16 DEF Serve
  <2>4. QED
    BY <2>1, <2>2, <2>3, <1>17, <1>18, <1>19, <1>20, <1>21 DEF Next

\* The tables, the browser's storage and every tab keep their types.
THEOREM SessionTypes == Spec => []TypeOK
<1>1. Init => TypeOK
  BY DEF Init, TypeOK, FirstRow, AccountRow, Role, NoPair, Pair, SignedOut, Idle,
         Step
<1>2. QED
  BY <1>1, SessionTypeStep, PTL DEF Spec

-----------------------------------------------------------------------------
(* Where access tokens come from.                                          *)

\* No request to a refresh endpoint is ever answered with a new pair: a
\* session lasts as long as the access token it began with.
RefreshNeverSucceeds ==
  \A t \in Tab : request[t].op = "refresh" => request[t].step \in {"sent", "refused"}

\* An access token becomes valid only when a login or a registration of its
\* owner has got past the checks of its service.
TokensComeFromSignIns ==
  [][\A k \in Token : ~pair[k].access /\ pair'[k].access =>
       \E t \in Tab : request[t].step = "passed" /\ request[t].op # "refresh"
                       /\ pair'[k].owner = request[t].who]_vars

\* No sign-in gets past those checks while its account is suspended.
SuspendedSignInsFail ==
  [][\A t \in Tab : request[t].step # "passed" /\ request'[t].step = "passed"
                     => row[request[t].who] # "suspended"]_vars

\* A refresh is on its way or refused, and every form names an account: what
\* makes the three inductive.
SoundRequest(q) ==
  /\ q.op = "refresh" => q.step \in {"sent", "refused"}
  /\ q.op \in {"login", "register", "claim"} => q.who \in Account

SignInInv == \A t \in Tab : SoundRequest(request[t])

\* What each step makes of the requests and of the valid access tokens.
SignInStep ==
  /\ SignInInv'
  /\ \A k \in Token : ~pair[k].access /\ pair'[k].access =>
       \E t \in Tab : request[t].step = "passed" /\ request[t].op # "refresh"
                       /\ pair'[k].owner = request[t].who
  /\ \A t \in Tab : request[t].step # "passed" /\ request'[t].step = "passed"
                       => row[request[t].who] # "suspended"

\* A step that makes no token valid only has to answer for the one request
\* it makes.
LEMMA OneRequest ==
  ASSUME TypeOK, SignInInv, NEW t \in Tab, NEW q,
         request' = [request EXCEPT ![t] = q], SoundRequest(q),
         q.step = "passed" => row[request[t].who] # "suspended",
         \A k \in Token : pair'[k].access => pair[k].access
  PROVE  SignInStep
BY DEF SignInStep, SignInInv, SoundRequest, TypeOK

\* A sign-in that is past the checks makes one token valid, its account's.
LEMMA OneToken ==
  ASSUME TypeOK, SignInInv, NEW t \in Tab, request[t].step = "passed",
         Issue(t, request[t].who, pair)
  PROVE  SignInStep
<1>1. PICK k \in Token :
        /\ pair' = [pair EXCEPT ![k] = NewPair(request[t].who)]
        /\ request' = [request EXCEPT
             ![t] = [request[t] EXCEPT !.step = "accepted", !.token = k]]
  BY DEF Issue, TypeOK
<1>2. /\ pair'[k].owner = request[t].who
      /\ \A j \in Token \ {k} : pair'[j] = pair[j]
  BY <1>1 DEF TypeOK, NewPair
<1>3. /\ request'[t].step = "accepted" /\ request'[t].op = request[t].op
      /\ request'[t].who = request[t].who
      /\ \A u \in Tab \ {t} : request'[u] = request[u]
  BY <1>1 DEF TypeOK
<1>4. request[t].op # "refresh"
  BY DEF SignInInv, SoundRequest
<1>5. QED
  BY <1>2, <1>3, <1>4 DEF SignInStep, SignInInv, SoundRequest

\* Every step keeps to all three: refreshes fail, tokens come from sign-ins,
\* and the suspended get past no check.
LEMMA SignInSteps ==
  ASSUME TypeOK, SignInInv, [Next]_vars PROVE SignInStep
<1> USE DEF tables, browser
<1>rows. request \in [Tab -> RequestRow]
  BY DEF TypeOK, RequestRow
<1>same. ASSUME UNCHANGED request,
                \A k \in Token : pair'[k].access => pair[k].access
         PROVE  SignInStep
  BY <1>same DEF SignInStep, SignInInv, SoundRequest
<1>done. ASSUME NEW t \in Tab, request' = [request EXCEPT ![t] = Idle],
                UNCHANGED pair
         PROVE  SignInStep
  <2>1. SoundRequest(Idle) /\ Idle.step = "idle"
    BY OpAssumption DEF Idle, SoundRequest, Op
  <2>2. QED
    BY <1>done, <2>1, OneRequest
<1>sent. ASSUME NEW t \in Tab, NEW q \in RequestRow, Send(t, q) \/ Refuse(t, q),
                q.op \in {"login", "register", "claim"} => q.who \in Account,
                UNCHANGED pair
         PROVE  SignInStep
  <2>1. CASE request' = [request EXCEPT ![t] = Idle]
    BY <1>done, <1>sent, <2>1
  <2>2. ASSUME NEW s \in {"sent", "refused"},
               request' = [request EXCEPT ![t] = [q EXCEPT !.step = s]]
        PROVE  SignInStep
    <3>1. /\ [q EXCEPT !.step = s].step = s
          /\ SoundRequest([q EXCEPT !.step = s])
      BY <1>sent DEF RequestRow, SoundRequest
    <3>2. QED
      BY <1>sent, <2>2, <3>1, OneRequest
  <2>3. QED
    BY <1>sent, <2>1, <2>2 DEF Send, Refuse
<1>turn. ASSUME NEW t \in Tab, Refuse(t, request[t]), UNCHANGED pair
         PROVE  SignInStep
  BY <1>turn, <1>rows, <1>sent DEF SignInInv, SoundRequest
<1>pass. ASSUME NEW t \in Tab, NEW o \in {"login", "register", "claim"},
                row[request[t].who] # "suspended", UNCHANGED pair,
                request[t].op \in {"login", "register"},
                request' = [request EXCEPT
                  ![t] = [request[t] EXCEPT !.step = "passed", !.op = o]]
         PROVE  SignInStep
  <2> DEFINE q == [request[t] EXCEPT !.step = "passed", !.op = o]
  <2>1. q.step = "passed" /\ q.op = o /\ q.who = request[t].who
    BY <1>rows DEF RequestRow
  <2>2. SoundRequest(q)
    BY <1>pass, <2>1 DEF SignInInv, SoundRequest
  <2>3. QED
    BY <1>pass, <2>1, <2>2, OneRequest
<1>1. ASSUME NEW t \in Tab, NEW op \in {"login", "register"}, NEW a \in Account,
             Submit(t, op, a)
      PROVE  SignInStep
  <2>1. [Idle EXCEPT !.op = op, !.who = a] \in RequestRow
        /\ [Idle EXCEPT !.op = op, !.who = a].who = a
    BY RequestTypes DEF Idle, Op
  <2>2. QED
    BY <1>1, <1>sent, <2>1 DEF Submit
<1>2. ASSUME NEW t \in Tab, Unauthorized(t) PROVE SignInStep
  <2>1. RefreshOf(t) \in RequestRow /\ RefreshOf(t).op = "refresh"
    BY <1>2, RefreshTyped DEF Unauthorized
  <2>2. Send(t, RefreshOf(t)) /\ UNCHANGED pair
    BY <1>2 DEF Unauthorized
  <2>3. QED
    BY <1>sent, <2>1, <2>2
<1>3. ASSUME NEW t \in Tab, Load(t) \/ Accepted(t) \/ Turned(t) \/ Unreachable(t)
      PROVE  SignInStep
  BY <1>3, <1>done DEF Load, Accepted, Turned, Unreachable
<1>4. ASSUME NEW t \in Tab, HostLogin(t) \/ GuestLogin(t) \/ AdminLogin(t)
                              \/ HostRegister(t)
      PROVE  SignInStep
  <2>1. CASE Refuse(t, request[t])
    BY <1>4, <1>turn, <2>1 DEF HostLogin, GuestLogin, AdminLogin, HostRegister
  <2>deny. CASE memory[t] # NULL /\ Send(t, RefreshOf(t))
    <3>1. RefreshOf(t) \in RequestRow /\ RefreshOf(t).op = "refresh"
      BY <2>deny, RefreshTyped
    <3>2. UNCHANGED pair
      BY <1>4 DEF HostLogin, GuestLogin, AdminLogin, HostRegister
    <3>3. QED
      BY <1>sent, <2>deny, <3>1, <3>2
  <2>2. CASE Goto(t, "passed") /\ (role = "admin" \/ row[request[t].who] # "suspended")
    <3>1. PICK o \in {"login", "register"} : request[t].op = o
      BY <1>4 DEF HostLogin, GuestLogin, AdminLogin, HostRegister, Serving
    <3>2. request[t].who \in Account
      BY <3>1 DEF SignInInv, SoundRequest
    <3>3. row[request[t].who] # "suspended"
      BY <2>2, <3>2 DEF TypeOK, AccountRow
    <3>4. [request[t] EXCEPT !.step = "passed"]
            = [request[t] EXCEPT !.step = "passed", !.op = o]
      BY <1>rows, <3>1 DEF RequestRow
    <3>5. request' = [request EXCEPT
             ![t] = [request[t] EXCEPT !.step = "passed", !.op = o]]
      BY <2>2, <3>4 DEF Goto
    <3>6. QED
      BY <1>4, <1>pass, <3>1, <3>3, <3>5
         DEF HostLogin, GuestLogin, AdminLogin, HostRegister
  <2>3. QED
    BY <1>4, <2>1, <2>deny, <2>2
       DEF Deny, HostLogin, GuestLogin, AdminLogin, HostRegister, Serving
<1>5. ASSUME NEW t \in Tab, GuestRegister(t) PROVE SignInStep
  <2>1. CASE Refuse(t, request[t])
    BY <1>5, <1>turn, <2>1 DEF GuestRegister
  <2>2. CASE request' = [request EXCEPT
               ![t].step = "passed",
               ![t].op = IF row[request[t].who] = "checkout" THEN "claim" ELSE @]
    <3>1. request[t].op = "register" /\ request[t].who \in Account
      BY <1>5 DEF GuestRegister, Serving, SignInInv, SoundRequest
    <3>2. row[request[t].who] # "suspended"
      BY <1>5, <3>1 DEF GuestRegister, Serving, TypeOK, AccountRow
    <3>3. PICK o \in {"register", "claim"} : request' = [request EXCEPT
            ![t] = [request[t] EXCEPT !.step = "passed", !.op = o]]
      BY <1>rows, <2>2, <3>1 DEF RequestRow
    <3>4. QED
      BY <1>5, <1>pass, <3>1, <3>2, <3>3 DEF GuestRegister
  <2>3. QED
    BY <1>5, <2>1, <2>2 DEF GuestRegister
<1>6. ASSUME NEW t \in Tab, IssueLogin(t) \/ CreateAccount(t) \/ ClaimAccount(t)
      PROVE  SignInStep
  <2>1. CASE Issue(t, request[t].who, pair)
    BY <1>6, <2>1, OneToken DEF IssueLogin, CreateAccount, ClaimAccount, At
  <2>2. CASE Refuse(t, request[t]) /\ UNCHANGED pair
    BY <1>turn, <2>2
  <2>3. QED
    BY <1>6, <2>1, <2>2 DEF IssueLogin, CreateAccount, ClaimAccount
<1>7. ASSUME NEW t \in Tab, HostRefresh(t) \/ GuestRefresh(t) \/ AdminRefresh(t)
      PROVE  SignInStep
  BY <1>7, <1>turn, NeverFinds DEF HostRefresh, GuestRefresh, AdminRefresh, Rotate
<1>8. ASSUME NEW a \in Account, Logout(a) PROVE SignInStep
  <2>1. \A k \in Token : pair'[k].access => pair[k].access
    BY <1>8 DEF Logout, RevokeAll, TypeOK, Pair
  <2>2. QED
    BY <1>8, <1>same, <2>1 DEF Logout
<1>9. ASSUME NEW k \in Token, AccessExpires(k) \/ RowExpires(k) PROVE SignInStep
  <2>1. \A j \in Token : pair'[j].access => pair[j].access
    BY <1>9 DEF AccessExpires, RowExpires, TypeOK, Pair
  <2>2. QED
    BY <1>9, <1>same, <2>1 DEF AccessExpires, RowExpires
<1>10. CASE \/ \E t \in Tab : SignOut(t) \/ StorageEvent(t)
            \/ \E a \in Account : \/ GuestCheckout(a)
                                   \/ \E isActive \in BOOLEAN :
                                        SetHostActive(a, isActive)
            \/ UNCHANGED vars
  BY <1>10, <1>same DEF SignOut, StorageEvent, GuestCheckout, SetHostActive, vars
<1>11. QED
  <2>1. ASSUME NEW t \in Tab, Page(t) PROVE SignInStep
    BY <2>1, <1>1, <1>2, <1>3, <1>10
       DEF Page, HostLoginForm, GuestLoginForm, AdminLoginForm,
           HostRegisterPage, GuestRegisterPage, GuestSignOut, HostSignOut,
           AdminSignOut
  <2>2. ASSUME NEW t \in Tab, Script(t) PROVE SignInStep
    BY <2>2, <1>3, <1>10 DEF Script
  <2>3. ASSUME NEW t \in Tab, Serve(t) PROVE SignInStep
    BY <2>3, <1>3, <1>4, <1>5, <1>6, <1>7 DEF Serve
  <2>4. QED
    BY <2>1, <2>2, <2>3, <1>8, <1>9, <1>10 DEF Next

\* Nobody has asked for anything yet.
LEMMA SignInInit == Init => SignInInv
BY OpAssumption DEF Init, SignInInv, SoundRequest, Idle, Op

\* The inductive invariant behind the next three theorems.
THEOREM SignInsCorrect == Spec => [](TypeOK /\ SignInInv)
<1>1. TypeOK /\ SignInInv /\ [Next]_vars => SignInInv'
  BY SignInSteps DEF SignInStep
<1>2. QED
  BY <1>1, SessionTypes, SignInInit, PTL DEF Spec

\* In every state: no refresh has succeeded, because the digest stored is
\* never the digest looked up.
THEOREM SessionsEndWithTheirToken == Spec => []RefreshNeverSucceeds
<1>1. SignInInv => RefreshNeverSucceeds
  BY DEF SignInInv, SoundRequest, RefreshNeverSucceeds
<1>2. QED
  BY <1>1, SignInsCorrect, PTL

\* In every step: only a sign-in past its checks makes an access token valid.
THEOREM TokensAreOfSignIns == Spec => TokensComeFromSignIns
<1>1. TypeOK /\ SignInInv /\ [Next]_vars =>
        [\A k \in Token : ~pair[k].access /\ pair'[k].access =>
           \E t \in Tab : request[t].step = "passed" /\ request[t].op # "refresh"
                           /\ pair'[k].owner = request[t].who]_vars
  BY SignInSteps DEF SignInStep
<1>2. QED
  BY <1>1, SignInsCorrect, PTL DEF Spec, TokensComeFromSignIns

\* In every step: a suspended host's password gets past no check.
THEOREM SuspendedSignNoFurther == Spec => SuspendedSignInsFail
<1>1. TypeOK /\ SignInInv /\ [Next]_vars =>
        [\A t \in Tab : request[t].step # "passed" /\ request'[t].step = "passed"
                          => row[request[t].who] # "suspended"]_vars
  BY SignInSteps DEF SignInStep
<1>2. QED
  BY <1>1, SignInsCorrect, PTL DEF Spec, SuspendedSignInsFail

=============================================================================
