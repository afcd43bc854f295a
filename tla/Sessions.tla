------------------------------ MODULE Sessions ------------------------------
(***************************************************************************)
(* Sign-in sessions end to end: browser tabs that share one local storage, *)
(* the auth endpoints, the token tables, and the admin who suspends hosts. *)
(*                                                                         *)
(* The web application has one client per role (api, guestApi, adminApi),  *)
(* with storage keys and endpoints of its own; the model is of one of the  *)
(* three, role, fixed by Init.  In every tab the client reads its tokens   *)
(* from local storage when the page loads and keeps them in memory from    *)
(* then on, while the profile a page shows follows local storage through   *)
(* events.                                                                 *)
(***************************************************************************)
EXTENDS AuthService

CONSTANT Tab

ASSUME TabAssumption == NULL \notin Tab

VARIABLES
  role,      \* whose client this is
  row,       \* row[a]: the account's row
  pair,      \* pair[k]: a token pair and its database row
  stored,    \* tokens and profile in local storage
  memory,    \* memory[t]: the pair the tab's client holds
  shown,     \* shown[t]: the profile the tab's pages show
  notified,  \* the tabs a storage event is on its way to
  request    \* request[t]: the tab's request to an auth endpoint

vars == <<role, row, pair, stored, memory, shown, notified, request>>
tables == <<role, row, pair>>
browser == <<stored, memory, shown, notified>>

Step == {"idle", "sent", "passed", "accepted", "refused"}
Op == {"login", "register", "claim", "refresh"}
ASSUME OpAssumption == NULL \notin Op

Idle == [step |-> "idle", op |-> NULL, who |-> NULL, token |-> NULL]
SignedOut == [token |-> NULL, profile |-> NULL]

TypeOK ==
  /\ role \in Role
  /\ row \in [Account -> AccountRow[role]]
  /\ pair \in [Token -> Pair]
  /\ stored \in [token: Token \cup {NULL}, profile: Account \cup {NULL}]
  /\ memory \in [Tab -> Token \cup {NULL}]
  /\ shown \in [Tab -> Account \cup {NULL}]
  /\ notified \in SUBSET Tab
  /\ request \in [Tab -> [step: Step, who: Account \cup {NULL},
                          op: Op \cup {NULL}, token: Token \cup {NULL}]]

Init ==
  /\ role \in Role
  /\ row = [a \in Account |-> FirstRow[role]]
  /\ pair = [k \in Token |-> NoPair]
  /\ stored = SignedOut
  /\ memory = [t \in Tab |-> NULL] /\ shown = [t \in Tab |-> NULL]
  /\ notified = {}
  /\ request = [t \in Tab |-> Idle]

-----------------------------------------------------------------------------
(***************************************************************************)
(* The browser.                                                            *)
(***************************************************************************)
Goto(t, step) == request' = [request EXCEPT ![t].step = step]
At(t, step) == request[t].step = step

\* An error answer reaches the page.  A form only shows it; a refresh has
\* consequences, so its answer is a step of its own (Turned).
Refuse(t, req) ==
  request' = [request EXCEPT ![t] =
    IF req.op = "refresh" THEN [req EXCEPT !.step = "refused"] ELSE Idle]

\* A request meets the rate limiter, which may turn it away at any time.
Send(t, req) ==
  \/ request' = [request EXCEPT ![t] = [req EXCEPT !.step = "sent"]]
  \/ Refuse(t, req)

\* The client's attempt to renew the tokens it has in memory.
RefreshOf(t) ==
  [Idle EXCEPT !.op = "refresh", !.who = pair[memory[t]].owner, !.token = memory[t]]

\* A 401 answer, also to a login: a client that holds tokens tries to refresh
\* them first.  (Should it succeed, it sends the form once more.)
Deny(t) ==
  IF memory[t] = NULL THEN Refuse(t, request[t]) ELSE Send(t, RefreshOf(t))

\* A form sends one request and is disabled until it is answered.
Submit(t, op, a) ==
  /\ At(t, "idle")
  /\ Send(t, [Idle EXCEPT !.op = op, !.who = a])
  /\ UNCHANGED <<tables, browser>>

HostLoginForm(t) == role = "host" /\ \E a \in Account : Submit(t, "login", a)
GuestLoginForm(t) == role = "guest" /\ \E a \in Account : Submit(t, "login", a)
AdminLoginForm(t) == role = "admin" /\ \E a \in Account : Submit(t, "login", a)
HostRegisterPage(t) == role = "host" /\ \E a \in Account : Submit(t, "register", a)
GuestRegisterPage(t) == role = "guest" /\ \E a \in Account : Submit(t, "register", a)

\* A page's call is answered 401: the client tries to refresh its tokens.
Unauthorized(t) ==
  /\ At(t, "idle") /\ memory[t] # NULL /\ ~Authenticates(memory[t], pair)
  /\ Send(t, RefreshOf(t))
  /\ UNCHANGED <<tables, browser>>

\* Writing local storage notifies the other tabs.
NotifyOthers(t) == notified' = notified \cup (Tab \ {t})

\* setTokens and set...Profile: one synchronous piece of script.  The
\* answer to a refresh replaces the tokens and not the profile.
Accepted(t) ==
  LET new == request[t] IN
    /\ At(t, "accepted")
    /\ memory' = [memory EXCEPT ![t] = new.token]
    /\ IF new.op = "refresh"
         THEN /\ stored' = [stored EXCEPT !.token = new.token]
              /\ UNCHANGED shown
         ELSE /\ stored' = [token |-> new.token, profile |-> new.who]
              /\ shown' = [shown EXCEPT ![t] = new.who]
    /\ NotifyOthers(t)
    /\ request' = [request EXCEPT ![t] = Idle]
    /\ UNCHANGED <<tables>>

\* An error answer to a refresh makes the client drop its tokens, in memory
\* and in local storage.
Turned(t) ==
  /\ At(t, "refused")
  /\ memory' = [memory EXCEPT ![t] = NULL]
  /\ stored' = [stored EXCEPT !.token = NULL]
  /\ NotifyOthers(t)
  /\ request' = [request EXCEPT ![t] = Idle]
  /\ UNCHANGED <<tables, shown>>

\* Signing out forgets the session in this browser; no endpoint is called.
\* clear...Session, then the page's own listener.
\* (First a mutant that leaves it to the storage event to refresh the page
\* itself.)
ClearSessionElsewhere(t) ==
  /\ memory' = [memory EXCEPT ![t] = NULL]
  /\ stored' = SignedOut
  /\ NotifyOthers(t)
  /\ UNCHANGED shown

ClearSession(t) ==
  /\ memory' = [memory EXCEPT ![t] = NULL]
  /\ stored' = SignedOut
  /\ shown' = [shown EXCEPT ![t] = NULL]
  /\ NotifyOthers(t)

SignOut(t) ==
  /\ shown[t] # NULL
  /\ ClearSession(t)
  /\ UNCHANGED <<tables, request>>

GuestSignOut(t) == role = "guest" /\ SignOut(t)
HostSignOut(t) == role = "host" /\ SignOut(t)
AdminSignOut(t) == role = "admin" /\ SignOut(t)

\* The storage event: the page shows what local storage holds now.  The
\* client's tokens are not looked at.
StorageEvent(t) ==
  /\ t \in notified
  /\ shown' = [shown EXCEPT ![t] = stored.profile]
  /\ notified' = notified \ {t}
  /\ UNCHANGED <<tables, stored, memory, request>>

\* A page load builds the client anew; what was in flight is abandoned.
Load(t) ==
  /\ memory' = [memory EXCEPT ![t] = stored.token]
  /\ shown' = [shown EXCEPT ![t] = stored.profile]
  /\ notified' = notified \ {t}
  /\ request' = [request EXCEPT ![t] = Idle]
  /\ UNCHANGED <<tables, stored>>

-----------------------------------------------------------------------------
\* No answer: the API process died, or the network did.  The client keeps
\* what it has.
Unreachable(t) ==
  /\ request[t].step \in {"sent", "passed"}
  /\ request' = [request EXCEPT ![t] = Idle]
  /\ UNCHANGED <<tables, browser>>

-----------------------------------------------------------------------------
(***************************************************************************)
(* The auth services.  A login or registration reads the account's row,    *)
(* spends its time in bcrypt, and only then writes.                        *)
(***************************************************************************)
Serving(t, op, r) ==
  /\ role = r
  /\ At(t, "sent") /\ request[t].op = op

\* The password matches or it does not.  A suspended host is turned away;
\* so is a guest whose row has no password.
HostLogin(t) ==
  /\ Serving(t, "login", "host")
  /\ \/ row[request[t].who] = "active" /\ Goto(t, "passed")
     \/ Deny(t)
  /\ UNCHANGED <<tables, browser>>

GuestLogin(t) ==
  /\ Serving(t, "login", "guest")
  /\ \/ row[request[t].who] = "active" /\ Goto(t, "passed")
     \/ Deny(t)
  /\ UNCHANGED <<tables, browser>>

AdminLogin(t) ==
  /\ Serving(t, "login", "admin")
  /\ Goto(t, "passed") \/ Deny(t)
  /\ UNCHANGED <<tables, browser>>

HostRegister(t) ==
  /\ Serving(t, "register", "host")
  /\ IF row[request[t].who] = "none" THEN Goto(t, "passed") ELSE Refuse(t, request[t])
  /\ UNCHANGED <<tables, browser>>

\* A row left by a checkout is claimed: it will be updated, not created.
GuestRegister(t) ==
  /\ Serving(t, "register", "guest")
  /\ LET found == row[request[t].who] IN
       IF found = "active" THEN Refuse(t, request[t])
       ELSE request' = [request EXCEPT
              ![t].step = "passed",
              ![t].op = IF found = "checkout" THEN "claim" ELSE @]
  /\ UNCHANGED <<tables, browser>>

Held == {stored.token} \cup {request[t].token : t \in Tab}
          \cup {memory[t] : t \in Tab}
Unused(k) == ~pair[k].access /\ ~pair[k].live /\ k \notin Held

\* generateTokens and storeRefreshToken.
Issue(t, a, pairs) ==
  \E k \in Token :
    /\ Unused(k)
    /\ pair' = [pairs EXCEPT ![k] = NewPair(a)]
    /\ request' = [request EXCEPT ![t].step = "accepted", ![t].token = k]

IssueLogin(t) ==
  /\ At(t, "passed") /\ request[t].op = "login"
  /\ Issue(t, request[t].who, pair)
  /\ UNCHANGED <<role, row, browser>>

\* The row is created, or the unique index on the email refuses it.
CreateAccount(t) ==
  LET a == request[t].who IN
    /\ At(t, "passed") /\ request[t].op = "register"
    /\ \/ /\ row[a] = "none"
          /\ row' = [row EXCEPT ![a] = "active"]
          /\ Issue(t, a, pair)
       \/ /\ row[a] # "none"
          /\ Refuse(t, request[t])
          /\ UNCHANGED <<row, pair>>
    /\ UNCHANGED <<role, browser>>

ClaimAccount(t) ==
  /\ At(t, "passed") /\ request[t].op = "claim"
  /\ row' = [row EXCEPT ![request[t].who] = "active"]
  /\ Issue(t, request[t].who, pair)
  /\ UNCHANGED <<role, browser>>

\* The refresh endpoints: find the row, revoke it, issue a new pair.  The
\* account's own row is joined for its email, not for its state.
Rotate(t, r) ==
  LET k == request[t].token IN
    /\ Serving(t, "refresh", r)
    /\ IF FindsRow(k, pair)
         THEN Issue(t, pair[k].owner, [pair EXCEPT ![k].live = FALSE])
         ELSE Refuse(t, request[t]) /\ UNCHANGED pair
    /\ UNCHANGED <<role, row, browser>>

HostRefresh(t) == Rotate(t, "host")
GuestRefresh(t) == Rotate(t, "guest")
AdminRefresh(t) == Rotate(t, "admin")

\* Logging out at the API, which a client may do with any access token it
\* holds; the web pages never do.
Logout(a) ==
  /\ \E k \in Token : Authenticates(k, pair) /\ pair[k].owner = a
  /\ pair' = RevokeAll(a, pair)
  /\ UNCHANGED <<role, row, browser, request>>

\* A booking made without an account leaves a guest row.
\* (First a mutant that leaves one for every role.)
GuestCheckoutAnyRole(a) ==
  /\ row[a] = "none"
  /\ row' = [row EXCEPT ![a] = "checkout"]
  /\ UNCHANGED <<role, pair, browser, request>>

GuestCheckout(a) ==
  /\ role = "guest" /\ row[a] = "none"
  /\ row' = [row EXCEPT ![a] = "checkout"]
  /\ UNCHANGED <<role, pair, browser, request>>

SetHostActive(a, isActive) ==
  /\ role = "host" /\ row[a] # "none"
  /\ row' = [row EXCEPT ![a] = IF isActive THEN "active" ELSE "suspended"]
  /\ UNCHANGED <<role, pair, browser, request>>

\* An access token lives for minutes, its refresh token for thirty days.
AccessExpires(k) ==
  /\ pair[k].access
  /\ pair' = [pair EXCEPT ![k].access = FALSE]
  /\ UNCHANGED <<role, row, browser, request>>

RowExpires(k) ==
  /\ ~pair[k].access /\ pair[k].live
  /\ pair' = [pair EXCEPT ![k].live = FALSE]
  /\ UNCHANGED <<role, row, browser, request>>

-----------------------------------------------------------------------------
Page(t) ==
  \/ HostLoginForm(t) \/ GuestLoginForm(t) \/ AdminLoginForm(t)
  \/ HostRegisterPage(t) \/ GuestRegisterPage(t)
  \/ GuestSignOut(t) \/ HostSignOut(t) \/ AdminSignOut(t)
  \/ Load(t) \/ Unauthorized(t)

Script(t) == Accepted(t) \/ Turned(t) \/ StorageEvent(t)

Serve(t) ==
  \/ Unreachable(t) \/ HostLogin(t) \/ GuestLogin(t) \/ AdminLogin(t)
  \/ HostRegister(t) \/ GuestRegister(t)
  \/ IssueLogin(t) \/ CreateAccount(t) \/ ClaimAccount(t)
  \/ HostRefresh(t) \/ GuestRefresh(t) \/ AdminRefresh(t)

Next ==
  \/ \E t \in Tab : Page(t) \/ Script(t) \/ Serve(t)
  \/ \E a \in Account : Logout(a) \/ GuestCheckout(a)
  \/ \E a \in Account, isActive \in BOOLEAN : SetHostActive(a, isActive)
  \/ \E k \in Token : AccessExpires(k) \/ RowExpires(k)

\* Time passes and events are delivered; nobody has to sign in.
Fairness ==
  /\ \A t \in Tab : WF_vars(StorageEvent(t))
  /\ \A k \in Token : WF_vars(AccessExpires(k))

Spec == Init /\ [][Next]_vars /\ Fairness

-----------------------------------------------------------------------------
(***************************************************************************)
(* Properties.                                                             *)
(***************************************************************************)

\* The event handlers of the session hooks keep every tab up to date: again
\* and again it shows the profile local storage holds.
EveryTabFollows == \A t \in Tab : []<>(shown[t] = stored.profile)

\* A host who stays suspended ends up without a valid access token.  The
\* guards read no table and a refresh does not look at isActive, so this
\* holds only because no refresh ever finds its row.
SuspensionBites ==
  \A a \in Account :
    <>[](row[a] = "suspended")
      => <>[](\A k \in Token : ~(pair[k].owner = a /\ pair[k].access))
=============================================================================
