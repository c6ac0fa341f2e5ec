------------------------------ MODULE Sessions ------------------------------
(***************************************************************************)
(* The sessions of one GitHub user: login, refresh and logout of           *)
(*   server/internal/auth (auth_handler.go, auth_ucase.go, pgsql_user.go)  *)
(* over the row of the user, which keeps one refresh token, and the cookie *)
(* jars of the browsers, whose tabs may have several requests under way.   *)
(*                                                                         *)
(* A token is named by what its claims say: the account and the second it  *)
(* was issued in.  Two tokens of one account and second are the same text. *)
(* The access token issued with a refresh token has the same name.         *)
(***************************************************************************)
EXTENDS Integers

CONSTANTS
    Accounts,       \* ids of rows of the users table
    Browsers,
    Handlers,       \* requests served at a time
    MaxTime,        \* bound of the model: seconds
    None            \* "no token", "no account", "nobody"

ASSUME SessionsAssumption ==
    /\ MaxTime \in Nat \ {0}
    /\ None \notin Accounts \cup Browsers
    /\ None \notin Accounts \X (1..MaxTime)

VARIABLES
    now,            \* the clock, in seconds
    rows,           \* accounts stored for the GitHub user
    stored,         \* users.refresh_token of each account
    jar,            \* the cookies of each browser
    request,        \* requests in progress
    writer,         \* history: browser whose request wrote the row last
    sure            \* history: see InStep

vars == <<now, rows, stored, jar, request, writer, sure>>

Tokens == Accounts \X (1..MaxTime)

Jars == [access: Tokens \cup {None}, refresh: Tokens \cup {None}]

\* "solo": no other request of the browser was under way at any time;
\* "overtaken": the account was logged out after the token was compared.
Requests == [at: {"free", "lookup", "create", "compare", "mint", "store",
                  "answer"},
             kind: {"none", "login", "refresh", "logout"},
             browser: Browsers \cup {None},
             account: Accounts \cup {None},
             token: Tokens \cup {None},
             solo: BOOLEAN,
             overtaken: BOOLEAN]

Free == [at |-> "free", kind |-> "none", browser |-> None, account |-> None,
         token |-> None, solo |-> TRUE, overtaken |-> FALSE]

TypeOK ==
    /\ now \in 1..MaxTime
    /\ rows \subseteq Accounts
    /\ stored \in [Accounts -> Tokens \cup {None}]
    /\ \A a \in Accounts : stored[a] # None => stored[a][1] = a
    /\ jar \in [Browsers -> Jars]
    /\ request \in [Handlers -> Requests]
    /\ writer \in [Accounts -> Browsers \cup {None}]
    /\ sure \in [Browsers -> BOOLEAN]

Init ==
    /\ now = 1
    /\ rows = {}
    /\ stored = [a \in Accounts |-> None]
    /\ jar = [b \in Browsers |-> [access |-> None, refresh |-> None]]
    /\ request = [h \in Handlers |-> Free]
    /\ writer = [a \in Accounts |-> None]
    /\ sure = [b \in Browsers |-> TRUE]

Busy(b) == \E h \in Handlers : request[h].browser = b

\* Browser b sends request r: when another of its requests is under way,
\* none of them is solo.
Send(h, b, r) ==
    /\ request[h] = Free
    /\ request' = [g \in Handlers |->
                      IF g = h
                      THEN [r EXCEPT !.browser = b, !.solo = ~Busy(b)]
                      ELSE IF request[g].browser = b
                           THEN [request[g] EXCEPT !.solo = FALSE]
                           ELSE request[g]]
    /\ sure' = [sure EXCEPT ![b] = @ /\ ~Busy(b)]

End(h) == request' = [request EXCEPT ![h] = Free]

-----------------------------------------------------------------------------
(* Login: the callback of GitHub.                                          *)

Login(h, b) ==
    /\ Send(h, b, [Free EXCEPT !.at = "lookup", !.kind = "login"])
    /\ UNCHANGED <<now, rows, stored, jar, writer>>

\* GetProviderByID: one of the rows, if there are several.
LookUp(h) ==
    /\ request[h].at = "lookup"
    /\ \/ /\ rows = {}
          /\ request' = [request EXCEPT ![h].at = "create"]
       \/ \E a \in rows :
             request' = [request EXCEPT ![h].at = "mint", ![h].account = a]
    /\ UNCHANGED <<now, rows, stored, jar, writer, sure>>

\* Store: no unique index covers provider_id, two first logins make two rows.
Create(h) ==
    /\ request[h].at = "create"
    /\ \E a \in Accounts \ rows :
          /\ rows' = rows \cup {a}
          /\ request' = [request EXCEPT ![h].at = "mint", ![h].account = a]
    /\ UNCHANGED <<now, stored, jar, writer, sure>>

-----------------------------------------------------------------------------
(* Refresh and logout.                                                     *)

Refresh(h, b) ==
    LET t == jar[b].refresh
    IN  /\ t # None
        /\ Send(h, b, [Free EXCEPT !.at = "compare", !.kind = "refresh",
                                   !.account = t[1], !.token = t])
        /\ UNCHANGED <<now, rows, stored, jar, writer>>

\* Mistaken variant of Accepts: any token of the account will do.
AcceptsAny(r) == TRUE

\* The token is the one the row keeps.
Accepts(r) == stored[r.account] = r.token

Compare(h) ==
    /\ request[h].at = "compare"
    /\ IF Accepts(request[h])
       THEN request' = [request EXCEPT ![h].at = "mint"]
       ELSE End(h)
    /\ UNCHANGED <<now, rows, stored, jar, writer, sure>>

\* The access token names the account.
Logout(h, b) ==
    LET t == jar[b].access
    IN  /\ t # None
        /\ Send(h, b, [Free EXCEPT !.at = "store", !.kind = "logout",
                                   !.account = t[1]])
        /\ UNCHANGED <<now, rows, stored, jar, writer>>

-----------------------------------------------------------------------------
(* What they share.                                                        *)

\* generateTokens.
Minted(r) == [r EXCEPT !.at = "store", !.token = <<r.account, now>>]

Mint(h) ==
    /\ request[h].at = "mint"
    /\ request' = [request EXCEPT ![h] = Minted(request[h])]
    /\ UNCHANGED <<now, rows, stored, jar, writer, sure>>

\* Mistaken variant of Written: a refresh keeps the token it was given.
WrittenAtLogin(r) ==
    IF r.kind = "refresh" THEN stored[r.account] ELSE r.token

\* The token UpdateRefreshToken leaves in the row, none at logout.
Written(r) == r.token

\* The row is written unconditionally, whatever was compared before.
Store(h) ==
    LET r == request[h]
    IN  /\ r.at = "store"
        /\ stored' = [stored EXCEPT ![r.account] = Written(r)]
        /\ writer' = [writer EXCEPT ![r.account] = r.browser]
        /\ request' = [g \in Handlers |->
               IF g = h
               THEN [r EXCEPT !.at = "answer"]
               ELSE IF /\ r.kind = "logout"
                       /\ request[g].account = r.account
                       /\ request[g].at \in {"mint", "store"}
                    THEN [request[g] EXCEPT !.overtaken = TRUE]
                    ELSE request[g]]
        /\ UNCHANGED <<now, rows, jar, sure>>

\* The answer reaches the browser, which keeps both cookies or drops them.
Answer(h) ==
    LET r == request[h]
    IN  /\ r.at = "answer"
        /\ jar' = [jar EXCEPT ![r.browser] = [access |-> r.token,
                                              refresh |-> r.token]]
        /\ sure' = [sure EXCEPT ![r.browser] = r.solo]
        /\ End(h)
        /\ UNCHANGED <<now, rows, stored, writer>>

\* The answer is lost, or the process stops before it.
Lose(h) ==
    /\ request[h].at = "answer"
    /\ sure' = [sure EXCEPT ![request[h].browser] = FALSE]
    /\ End(h)
    /\ UNCHANGED <<now, rows, stored, jar, writer>>

\* GitHub or the database fails, or the process stops: the cookies stay.
Fail(h) ==
    /\ request[h].at \notin {"free", "answer"}
    /\ End(h)
    /\ UNCHANGED <<now, rows, stored, jar, writer, sure>>

Tick ==
    /\ now < MaxTime
    /\ now' = now + 1
    /\ UNCHANGED <<rows, stored, jar, request, writer, sure>>

\* A cookie has reached its age, the access token always before the other.
Expire(b) ==
    /\ jar[b] # [access |-> None, refresh |-> None]
    /\ jar' = [jar EXCEPT ![b] =
                  IF @.access # None
                  THEN [@ EXCEPT !.access = None]
                  ELSE [access |-> None, refresh |-> None]]
    /\ UNCHANGED <<now, rows, stored, request, writer, sure>>

-----------------------------------------------------------------------------
Next ==
    \/ Tick
    \/ \E b \in Browsers : Expire(b)
    \/ \E h \in Handlers :
          \/ LookUp(h) \/ Create(h) \/ Compare(h) \/ Mint(h) \/ Store(h)
          \/ Answer(h) \/ Lose(h) \/ Fail(h)
          \/ \E b \in Browsers : Login(h, b) \/ Refresh(h, b) \/ Logout(h, b)

Spec == Init /\ [][Next]_vars

-----------------------------------------------------------------------------
(* Properties.                                                             *)

\* A browser that wrote the row last, whose last answered request overlapped
\* no other of its own, is in step with the row: the token in its jar is the
\* one the row keeps, so its next refresh is accepted, whatever the requests
\* of other browsers do between its steps.  (Tabs that refresh at once, or a
\* lost answer, may leave a browser with a token that is refused.)
InStep ==
    \A a \in Accounts, b \in Browsers :
        writer[a] = b /\ sure[b] /\ ~Busy(b) =>
            \/ jar[b].refresh = None
            \/ jar[b].refresh[1] # a
            \/ jar[b].refresh = stored[a]

\* A logout lasts until the next login: a refresh gives an account a token
\* again only when it was compared before the logout.
LoggedOutStaysOut ==
    [][\A a \in Accounts :
          stored[a] = None /\ stored'[a] # None =>
              \E h \in Handlers :
                  /\ request[h].at = "store"
                  /\ request[h].account = a
                  /\ request[h].kind = "login" \/ request[h].overtaken]_vars
=============================================================================
