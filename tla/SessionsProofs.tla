--------------------------- MODULE SessionsProofs ---------------------------
(***************************************************************************)
(* Proofs about Sessions for any accounts, browsers, requests and time.    *)
(* The invariant follows one request: while it is the only one of its      *)
(* browser, the jar is in step with the row until the row is written, and  *)
(* the answer under way is what the row keeps from then on.                *)
(***************************************************************************)
EXTENDS Sessions, TLAPS

USE SessionsAssumption

RequestOK(r) ==
    /\ r.at = "free" => r = Free
    /\ r.at # "free" => r.browser \in Browsers
    /\ r.at \in {"lookup", "create"} => r.kind = "login"
    /\ r.at \in {"compare", "mint", "store", "answer"} => r.account \in Accounts
    /\ r.at = "compare" => r.kind = "refresh" /\ r.token \in Tokens
    /\ r.at = "mint" => r.kind \in {"login", "refresh"}
    /\ r.at \in {"store", "answer"} =>
          \/ r.kind = "logout" /\ r.token = None
          \/ /\ r.kind \in {"login", "refresh"}
             /\ r.token \in Tokens /\ r.token[1] = r.account

RequestInv == \A h \in Handlers : RequestOK(request[h])

\* A solo request is the only one of its browser, and a browser whose jar is
\* trusted has no other requests.
SoloInv ==
    /\ \A g, h \in Handlers :
          /\ g # h
          /\ request[h].browser \in Browsers
          /\ request[g].browser = request[h].browser
          => ~request[h].solo
    /\ \A b \in Browsers, h \in Handlers :
          sure[b] /\ request[h].browser = b => request[h].solo

Agrees(b, a) ==
    \/ jar[b].refresh = None
    \/ jar[b].refresh[1] # a
    \/ jar[b].refresh = stored[a]

Answering(b) ==
    \E h \in Handlers : request[h].at = "answer" /\ request[h].browser = b

\* Up to the write the jar agrees with the row, ...
JarInv ==
    \A a \in Accounts, b \in Browsers :
        writer[a] = b /\ sure[b] /\ ~Answering(b) => Agrees(b, a)

\* ... afterwards the answer does.
AnswerInv ==
    \A h \in Handlers :
        /\ request[h].at = "answer" /\ request[h].solo
        /\ writer[request[h].account] = request[h].browser
        => stored[request[h].account] = request[h].token

\* A refresh under way that no logout overtook finds the account logged in.
OvertakenInv ==
    \A h \in Handlers :
        /\ request[h].kind = "refresh" /\ request[h].at \in {"mint", "store"}
        /\ ~request[h].overtaken
        => stored[request[h].account] # None

IInv == /\ TypeOK /\ RequestInv /\ SoloInv /\ JarInv
        /\ AnswerInv /\ OvertakenInv

-----------------------------------------------------------------------------
LEMMA FreeType == Free \in Requests /\ RequestOK(Free)
BY DEF Free, Requests, RequestOK

LEMMA InitInv == Init => IInv
<1> SUFFICES ASSUME Init PROVE IInv
    OBVIOUS
<1>1. TypeOK
  <2>1. 1 \in 1..MaxTime
      OBVIOUS
  <2>2. [access |-> None, refresh |-> None] \in Jars
      BY DEF Jars
  <2> QED BY <2>1, <2>2, FreeType DEF Init, TypeOK
<1>2. RequestInv
    BY FreeType DEF Init, RequestInv
<1>3. SoloInv /\ JarInv /\ AnswerInv /\ OvertakenInv
    BY DEF Init, SoloInv, JarInv, AnswerInv, OvertakenInv, Agrees, Answering,
       Free
<1> QED BY <1>1, <1>2, <1>3 DEF IInv

-----------------------------------------------------------------------------
(* Steps of one request that write neither the row nor the jar.            *)

\* "r" is what the request becomes: nothing, or the same request elsewhere.
LEMMA Moves ==
    ASSUME IInv, NEW h \in Handlers, NEW r \in Requests,
           request' = [request EXCEPT ![h] = r],
           RequestOK(r),
           request[h].at # "answer", r.at # "answer",
           \/ r = Free
           \/ /\ r.browser = request[h].browser
              /\ r.solo <=> request[h].solo,
           /\ r.kind = "refresh" /\ r.at \in {"mint", "store"}
           /\ ~r.overtaken
           => stored[r.account] # None,
           UNCHANGED <<now, stored, jar, writer, sure>>,
           rows' \subseteq Accounts
    PROVE  IInv'
<1>1. request \in [Handlers -> Requests] /\ request' \in [Handlers -> Requests]
    BY DEF IInv, TypeOK
<1>2. request'[h] = r /\ \A g \in Handlers \ {h} : request'[g] = request[g]
    BY <1>1
<1>3. TypeOK'
    BY <1>1 DEF IInv, TypeOK
<1>4. RequestInv'
    BY <1>2 DEF IInv, RequestInv
<1>5. SoloInv'
    BY <1>2 DEF IInv, SoloInv, Free
<1>6. JarInv'
  <2>1. \A b \in Browsers : Answering(b)' <=> Answering(b)
      BY <1>2 DEF Answering
  <2> QED BY <2>1 DEF IInv, JarInv, Agrees
<1>7. AnswerInv'
    BY <1>2 DEF IInv, AnswerInv
<1>8. OvertakenInv'
    BY <1>2 DEF IInv, OvertakenInv
<1> QED BY <1>3, <1>4, <1>5, <1>6, <1>7, <1>8 DEF IInv

LEMMA EndInv ==
    ASSUME IInv, NEW h \in Handlers, request[h].at # "answer", End(h),
           UNCHANGED <<now, rows, stored, jar, writer, sure>>
    PROVE  IInv'
BY FreeType, Moves DEF End, Free, IInv, TypeOK

LEMMA LookUpInv ==
    ASSUME IInv, NEW h \in Handlers, LookUp(h) \/ Create(h)
    PROVE  IInv'
<1>1. /\ request[h] \in Requests /\ RequestOK(request[h])
      /\ request[h].at \in {"lookup", "create"}
      /\ UNCHANGED <<now, stored, jar, writer, sure>>
      /\ rows' \subseteq Accounts
    BY DEF IInv, TypeOK, RequestInv, LookUp, Create
<1>2. CASE request' = [request EXCEPT ![h].at = "create"]
  <2>1. PICK r : r = [request[h] EXCEPT !.at = "create"]
      OBVIOUS
  <2>2. r \in Requests /\ RequestOK(r)
      BY <1>1, <2>1 DEF Requests, RequestOK
  <2> QED BY <1>1, <1>2, <2>1, <2>2, Moves DEF Requests, IInv, TypeOK
<1>3. ASSUME NEW a \in Accounts,
             request' = [request EXCEPT ![h].at = "mint", ![h].account = a]
      PROVE  IInv'
  <2>1. PICK r : r = [request[h] EXCEPT !.at = "mint", !.account = a]
      OBVIOUS
  <2>2. r \in Requests /\ RequestOK(r)
      BY <1>1, <2>1 DEF Requests, RequestOK
  <2>3. /\ r.at = "mint" /\ r.kind = "login"
        /\ r.browser = request[h].browser /\ r.solo = request[h].solo
      BY <1>1, <2>1 DEF Requests, RequestOK
  <2>4. request' = [request EXCEPT ![h] = r]
      BY <1>1, <1>3, <2>1 DEF IInv, TypeOK, Requests
  <2> QED BY <1>1, <2>2, <2>3, <2>4, Moves
<1>4. rows \subseteq Accounts
    BY DEF IInv, TypeOK
<1> QED BY <1>2, <1>3, <1>4 DEF LookUp, Create

LEMMA CompareInv ==
    ASSUME IInv, NEW h \in Handlers, Compare(h)
    PROVE  IInv'
<1>1. /\ request[h] \in Requests /\ RequestOK(request[h])
      /\ request[h].at = "compare"
      /\ UNCHANGED <<now, rows, stored, jar, writer, sure>>
      /\ rows \subseteq Accounts
    BY DEF IInv, TypeOK, RequestInv, Compare
<1>2. CASE ~Accepts(request[h])
    BY <1>1, <1>2, EndInv DEF Compare
<1>3. CASE Accepts(request[h])
  <2>1. PICK r : r = [request[h] EXCEPT !.at = "mint"]
      OBVIOUS
  <2>2. request' = [request EXCEPT ![h] = r]
      BY <1>1, <1>3, <2>1 DEF Compare, IInv, TypeOK
  <2>3. /\ r.at = "mint" /\ r.account = request[h].account
        /\ r.browser = request[h].browser /\ r.solo = request[h].solo
      BY <1>1, <2>1 DEF Requests
  <2>4. r \in Requests /\ RequestOK(r)
      BY <1>1, <2>1 DEF Requests, RequestOK
  <2>5. stored[r.account] # None
    <3>1. stored[r.account] = request[h].token /\ request[h].token \in Tokens
        BY <1>1, <1>3, <2>3 DEF RequestOK, Accepts
    <3>2. None \notin Tokens
        BY DEF Tokens
    <3> QED BY <3>1, <3>2
  <2> QED BY <1>1, <2>2, <2>3, <2>4, <2>5, Moves
<1> QED BY <1>2, <1>3

LEMMA MintInv ==
    ASSUME IInv, NEW h \in Handlers, Mint(h)
    PROVE  IInv'
<1>1. /\ request[h] \in Requests /\ RequestOK(request[h])
      /\ request[h].at = "mint"
      /\ UNCHANGED <<now, rows, stored, jar, writer, sure>>
      /\ rows \subseteq Accounts
    BY DEF IInv, TypeOK, RequestInv, Mint
<1>2. PICK r : r = Minted(request[h])
    OBVIOUS
<1>3. request' = [request EXCEPT ![h] = r]
    BY <1>2 DEF Mint
<1>4. <<request[h].account, now>> \in Tokens
    BY <1>1 DEF IInv, TypeOK, Tokens, RequestOK
<1>5. /\ r.at = "store" /\ r.account = request[h].account
      /\ r.browser = request[h].browser /\ r.solo = request[h].solo
      /\ r.kind = request[h].kind /\ r.overtaken = request[h].overtaken
      /\ r.token = <<request[h].account, now>>
    BY <1>1, <1>2 DEF Requests, Minted
<1>6. r \in Requests
    BY <1>1, <1>2, <1>4 DEF Requests, Minted
<1>7. RequestOK(r)
    BY <1>1, <1>4, <1>5 DEF RequestOK
<1>8. /\ r.kind = "refresh" /\ ~r.overtaken
      => stored[r.account] # None
    BY <1>1, <1>5 DEF IInv, OvertakenInv
<1> QED BY <1>1, <1>3, <1>5, <1>6, <1>7, <1>8, Moves

LEMMA FailInv ==
    ASSUME IInv, NEW h \in Handlers, Fail(h)
    PROVE  IInv'
BY EndInv DEF Fail

-----------------------------------------------------------------------------
(* A request is sent.                                                      *)

LEMMA SendInv ==
    ASSUME IInv, NEW h \in Handlers, NEW b \in Browsers, NEW r \in Requests,
           Send(h, b, r), r.at \notin {"free", "mint", "answer"},
           RequestOK([r EXCEPT !.browser = b]),
           UNCHANGED <<now, rows, stored, jar, writer>>,
           r.at = "store" => r.kind = "logout"
    PROVE  IInv'
<1> DEFINE sent == [r EXCEPT !.browser = b, !.solo = ~Busy(b)]
<1>1. PICK s : s = sent
    OBVIOUS
<1>2. Busy(b) \in BOOLEAN
    BY DEF Busy
<1>3. /\ s \in Requests /\ s.browser = b /\ (s.solo <=> ~Busy(b))
      /\ s.at = r.at /\ s.kind = r.kind /\ s.token = r.token
      /\ s.account = r.account
  <2>1. ASSUME NEW q \in BOOLEAN
        PROVE  LET t == [r EXCEPT !.browser = b, !.solo = q]
               IN  /\ t \in Requests /\ t.browser = b /\ t.solo = q
                   /\ t.at = r.at /\ t.kind = r.kind /\ t.token = r.token
                   /\ t.account = r.account
      BY DEF Requests
  <2>2. (~Busy(b)) \in BOOLEAN
      BY <1>2
  <2> QED BY <1>1, <2>1, <2>2
<1>4. RequestOK(s)
  <2>1. PICK t : t = [r EXCEPT !.browser = b]
      OBVIOUS
  <2>2. /\ t.browser = b /\ t.at = r.at /\ t.kind = r.kind
        /\ t.token = r.token /\ t.account = r.account
      BY <2>1 DEF Requests
  <2> QED BY <1>3, <2>1, <2>2 DEF RequestOK
<1>5. /\ request \in [Handlers -> Requests] /\ RequestInv
      /\ request[h] = Free
    BY DEF IInv, TypeOK, Send
<1>6. request'[h] = s
    BY <1>1, <1>5 DEF Send
<1>7. ASSUME NEW g \in Handlers \ {h}
      PROVE  /\ request'[g] \in Requests
             /\ request'[g].at = request[g].at
             /\ request'[g].browser = request[g].browser
             /\ request'[g].kind = request[g].kind
             /\ request'[g].token = request[g].token
             /\ request'[g].account = request[g].account
             /\ request'[g].overtaken = request[g].overtaken
             /\ RequestOK(request'[g])
             /\ request'[g].solo =>
                   request[g].solo /\ request[g].browser # b
             /\ request[g].browser # b => request'[g].solo = request[g].solo
  <2>1. request[g] \in Requests /\ RequestOK(request[g])
      BY <1>5 DEF RequestInv
  <2>2. CASE request[g].browser = b
    <3>1. request'[g] = [request[g] EXCEPT !.solo = FALSE]
        BY <2>2 DEF Send
    <3>2. PICK q : q = [request[g] EXCEPT !.solo = FALSE]
        OBVIOUS
    <3>3. /\ q \in Requests /\ q.at = request[g].at
          /\ q.browser = request[g].browser
          /\ q.kind = request[g].kind /\ q.token = request[g].token
          /\ q.account = request[g].account
          /\ q.overtaken = request[g].overtaken /\ ~q.solo
        BY <2>1, <3>2 DEF Requests
    <3>4. RequestOK(q)
      <4>1. q.at # "free"
          BY <2>1, <2>2, <3>3 DEF RequestOK, Free
      <4> QED BY <2>1, <3>3, <4>1 DEF RequestOK
    <3> QED BY <2>2, <3>1, <3>2, <3>3, <3>4
  <2>3. CASE request[g].browser # b
    <3>1. request'[g] = request[g]
        BY <2>3 DEF Send
    <3> QED BY <2>1, <2>3, <3>1
  <2> QED BY <2>2, <2>3
<1>8. /\ sure' \in [Browsers -> BOOLEAN]
      /\ sure'[b] => sure[b] /\ ~Busy(b)
      /\ \A c \in Browsers \ {b} : sure'[c] = sure[c]
    BY <1>2 DEF Send, IInv, TypeOK
<1>9. TypeOK'
  <2>1. request' \in [Handlers -> Requests]
    <3>1. /\ DOMAIN request' = Handlers
          /\ request' = [g \in Handlers |-> request'[g]]
        BY DEF Send
    <3> QED BY <1>3, <1>6, <1>7, <3>1
  <2> QED BY <1>8, <2>1 DEF IInv, TypeOK
<1>10. RequestInv'
    BY <1>4, <1>6, <1>7 DEF RequestInv
<1>11. SoloInv'
  <2>1. ASSUME NEW g \in Handlers, NEW k \in Handlers, g # k,
               request'[k].browser \in Browsers,
               request'[g].browser = request'[k].browser
        PROVE  ~request'[k].solo
    <3>1. CASE k = h
      <4>1. g # h /\ request[g].browser = b
          BY <1>3, <1>6, <1>7, <2>1, <3>1
      <4> QED BY <1>3, <1>6, <3>1, <4>1 DEF Busy
    <3>2. CASE k # h /\ g = h
        BY <1>3, <1>6, <1>7, <2>1, <3>2
    <3>3. CASE k # h /\ g # h
        BY <1>7, <2>1, <3>3 DEF IInv, SoloInv
    <3> QED BY <3>1, <3>2, <3>3
  <2>2. ASSUME NEW c \in Browsers, NEW g \in Handlers,
               sure'[c], request'[g].browser = c
        PROVE  request'[g].solo
    <3>1. CASE g = h
        BY <1>3, <1>6, <1>8, <2>2, <3>1
    <3>2. CASE g # h
      <4>1. c # b
          BY <1>7, <1>8, <2>2, <3>2 DEF Busy
      <4> QED BY <1>7, <1>8, <2>2, <3>2, <4>1 DEF IInv, SoloInv
    <3> QED BY <3>1, <3>2
  <2> QED BY <2>1, <2>2 DEF SoloInv
<1>12. JarInv'
  <2>1. \A c \in Browsers : Answering(c)' <=> Answering(c)
      BY <1>3, <1>5, <1>6, <1>7 DEF Answering, Free
  <2>2. \A c \in Browsers : sure'[c] => sure[c]
      BY <1>8
  <2> QED BY <2>1, <2>2 DEF IInv, JarInv, Agrees
<1>13. AnswerInv'
    BY <1>3, <1>6, <1>7 DEF IInv, AnswerInv
<1>14. OvertakenInv'
    BY <1>3, <1>6, <1>7 DEF IInv, OvertakenInv
<1> QED BY <1>9, <1>10, <1>11, <1>12, <1>13, <1>14 DEF IInv

LEMMA LoginInv ==
    ASSUME IInv, NEW h \in Handlers, NEW b \in Browsers, Login(h, b)
    PROVE  IInv'
<1>1. PICK r : r = [Free EXCEPT !.at = "lookup", !.kind = "login"]
    OBVIOUS
<1>2. r \in Requests /\ r.at = "lookup" /\ RequestOK([r EXCEPT !.browser = b])
    BY <1>1 DEF Free, Requests, RequestOK
<1> QED BY <1>1, <1>2, SendInv DEF Login

LEMMA RefreshInv ==
    ASSUME IInv, NEW h \in Handlers, NEW b \in Browsers, Refresh(h, b)
    PROVE  IInv'
<1> DEFINE t == jar[b].refresh
<1>1. PICK r : r = [Free EXCEPT !.at = "compare", !.kind = "refresh",
                                !.account = t[1], !.token = t]
    OBVIOUS
<1>2. t \in Tokens /\ t[1] \in Accounts
    BY DEF Refresh, IInv, TypeOK, Jars, Tokens
<1>3. r \in Requests /\ r.at = "compare" /\ RequestOK([r EXCEPT !.browser = b])
    BY <1>1, <1>2 DEF Free, Requests, RequestOK
<1> QED BY <1>1, <1>3, SendInv DEF Refresh

LEMMA LogoutInv ==
    ASSUME IInv, NEW h \in Handlers, NEW b \in Browsers, Logout(h, b)
    PROVE  IInv'
<1> DEFINE t == jar[b].access
<1>1. PICK r : r = [Free EXCEPT !.at = "store", !.kind = "logout",
                                !.account = t[1]]
    OBVIOUS
<1>2. t \in Tokens /\ t[1] \in Accounts
    BY DEF Logout, IInv, TypeOK, Jars, Tokens
<1>3. /\ r \in Requests /\ r.at = "store" /\ r.kind = "logout"
      /\ RequestOK([r EXCEPT !.browser = b])
    BY <1>1, <1>2 DEF Free, Requests, RequestOK
<1> QED BY <1>1, <1>3, SendInv DEF Logout

-----------------------------------------------------------------------------
(* The row is written, the answer arrives or is lost.                      *)

LEMMA StoreInv ==
    ASSUME IInv, NEW h \in Handlers, Store(h)
    PROVE  IInv'
<1> DEFINE r == request[h]
<1>1. /\ r \in Requests /\ RequestOK(r) /\ r.at = "store"
      /\ r.account \in Accounts /\ r.browser \in Browsers
      /\ \/ r.kind = "logout" /\ r.token = None
         \/ r.token \in Tokens /\ r.token[1] = r.account
    BY DEF IInv, TypeOK, RequestInv, RequestOK, Store
<1>2. /\ stored' = [stored EXCEPT ![r.account] = r.token]
      /\ writer' = [writer EXCEPT ![r.account] = r.browser]
      /\ UNCHANGED <<now, rows, jar, sure>>
    BY DEF Store, Written
<1>3. /\ request'[h] \in Requests /\ request'[h].at = "answer"
      /\ request'[h].browser = r.browser /\ request'[h].solo = r.solo
      /\ request'[h].kind = r.kind /\ request'[h].token = r.token
      /\ request'[h].account = r.account
  <2>1. PICK q : q = [r EXCEPT !.at = "answer"]
      OBVIOUS
  <2>2. request'[h] = q
      BY <2>1 DEF Store
  <2> QED BY <1>1, <2>1, <2>2 DEF Requests
<1>4. ASSUME NEW g \in Handlers \ {h}
      PROVE  /\ request'[g] \in Requests
             /\ request'[g].at = request[g].at
             /\ request'[g].browser = request[g].browser
             /\ request'[g].solo = request[g].solo
             /\ request'[g].kind = request[g].kind
             /\ request'[g].token = request[g].token
             /\ request'[g].account = request[g].account
             /\ request'[g].overtaken \/ ~request[g].overtaken
             /\ \/ r.kind # "logout" \/ request[g].account # r.account
                \/ request[g].at \notin {"mint", "store"}
                \/ request'[g].overtaken
             /\ request'[g].overtaken
                \/ request'[g].overtaken = request[g].overtaken
  <2>1. request[g] \in Requests
      BY DEF IInv, TypeOK
  <2>2. CASE /\ r.kind = "logout" /\ request[g].account = r.account
             /\ request[g].at \in {"mint", "store"}
    <3>1. request'[g] = [request[g] EXCEPT !.overtaken = TRUE]
        BY <2>2 DEF Store
    <3>2. PICK q : q = [request[g] EXCEPT !.overtaken = TRUE]
        OBVIOUS
    <3>3. /\ q \in Requests /\ q.at = request[g].at
          /\ q.browser = request[g].browser /\ q.solo = request[g].solo
          /\ q.kind = request[g].kind /\ q.token = request[g].token
          /\ q.account = request[g].account /\ q.overtaken
        BY <2>1, <3>2 DEF Requests
    <3> QED BY <3>1, <3>2, <3>3
  <2>3. CASE ~(/\ r.kind = "logout" /\ request[g].account = r.account
               /\ request[g].at \in {"mint", "store"})
    <3>1. request'[g] = request[g]
        BY <2>3 DEF Store
    <3> QED BY <2>1, <2>3, <3>1
  <2> QED BY <2>2, <2>3
<1>5. ASSUME NEW g \in Handlers \ {h}
      PROVE  RequestOK(request'[g])
  <2>1. RequestOK(request[g])
      BY DEF IInv, RequestInv
  <2>2. CASE request[g].at = "free"
    <3>1. request[g] = Free
        BY <2>1, <2>2 DEF RequestOK
    <3>2. request'[g] = request[g]
        BY <2>2 DEF Store
    <3> QED BY <2>1, <3>2
  <2>3. CASE request[g].at # "free"
      BY <1>4, <2>1, <2>3 DEF RequestOK
  <2> QED BY <2>2, <2>3
<1>6. TypeOK'
  <2>1. request' \in [Handlers -> Requests]
    <3>1. request' = [g \in Handlers |-> request'[g]]
        BY DEF Store
    <3> QED BY <1>3, <1>4, <3>1
  <2>2. stored' \in [Accounts -> Tokens \cup {None}]
      BY <1>1, <1>2 DEF IInv, TypeOK
  <2>3. \A a \in Accounts : stored'[a] # None => stored'[a][1] = a
      BY <1>1, <1>2 DEF IInv, TypeOK
  <2>4. writer' \in [Accounts -> Browsers \cup {None}]
      BY <1>1, <1>2 DEF IInv, TypeOK
  <2> QED BY <1>2, <2>1, <2>2, <2>3, <2>4 DEF IInv, TypeOK
<1>7. RequestInv'
  <2>1. RequestOK(request'[h])
      BY <1>1, <1>3 DEF RequestOK
  <2> QED BY <1>5, <2>1 DEF RequestInv
<1>8. \A g \in Handlers : /\ request'[g].browser = request[g].browser
                          /\ request'[g].solo = request[g].solo
    BY <1>3, <1>4
<1>9. SoloInv'
    BY <1>2, <1>8 DEF IInv, SoloInv
<1>10. JarInv'
  <2>1. ASSUME NEW a \in Accounts, NEW b \in Browsers,
               writer'[a] = b, sure'[b], ~Answering(b)'
        PROVE  Agrees(b, a)'
    <3>1. b # r.browser
        BY <1>3, <2>1 DEF Answering
    <3>2. a # r.account /\ writer[a] = b /\ stored'[a] = stored[a]
        BY <1>1, <1>2, <2>1, <3>1 DEF IInv, TypeOK
    <3>3. ~Answering(b)
        BY <1>3, <1>4, <2>1 DEF Answering
    <3> QED BY <1>2, <2>1, <3>2, <3>3 DEF IInv, JarInv, Agrees
  <2> QED BY <2>1 DEF JarInv
<1>11. AnswerInv'
  <2>1. ASSUME NEW g \in Handlers,
               request'[g].at = "answer", request'[g].solo,
               writer'[request'[g].account] = request'[g].browser
        PROVE  stored'[request'[g].account] = request'[g].token
    <3>1. CASE g = h
        BY <1>1, <1>2, <1>3, <3>1 DEF IInv, TypeOK
    <3>2. CASE g # h /\ request[g].account = r.account
      <4>1. request[g].browser = r.browser
          BY <1>1, <1>2, <1>4, <2>1, <3>2 DEF IInv, TypeOK
      <4>2. ~request[g].solo
          BY <1>1, <3>2, <4>1 DEF IInv, SoloInv
      <4> QED BY <1>4, <2>1, <3>2, <4>2
    <3>3. CASE g # h /\ request[g].account # r.account
      <4>1. request[g].account \in Accounts
          BY <1>4, <2>1, <3>3 DEF IInv, RequestInv, RequestOK
      <4> QED BY <1>1, <1>2, <1>4, <2>1, <3>3, <4>1
              DEF IInv, TypeOK, AnswerInv
    <3> QED BY <3>1, <3>2, <3>3
  <2> QED BY <2>1 DEF AnswerInv
<1>12. OvertakenInv'
  <2>1. ASSUME NEW g \in Handlers, request'[g].kind = "refresh",
               request'[g].at \in {"mint", "store"}, ~request'[g].overtaken
        PROVE  stored'[request'[g].account] # None
    <3>1. /\ g # h /\ request[g].account \in Accounts
          /\ stored[request[g].account] # None
          /\ request'[g].account = request[g].account
      <4>1. g # h
          BY <1>3, <2>1
      <4>2. request[g].account \in Accounts
          BY <1>4, <2>1, <4>1 DEF IInv, RequestInv, RequestOK
      <4> QED BY <1>4, <2>1, <4>1, <4>2 DEF IInv, OvertakenInv
    <3>2. CASE request[g].account # r.account
        BY <1>1, <1>2, <3>1, <3>2 DEF IInv, TypeOK
    <3>3. CASE request[g].account = r.account
      <4>1. r.kind # "logout"
          BY <1>4, <2>1, <3>1, <3>3
      <4>2. r.token # None
          BY <1>1, <4>1 DEF Tokens
      <4> QED BY <1>1, <1>2, <3>1, <3>3, <4>2 DEF IInv, TypeOK
    <3> QED BY <3>2, <3>3
  <2> QED BY <2>1 DEF OvertakenInv
<1> QED BY <1>6, <1>7, <1>9, <1>10, <1>11, <1>12 DEF IInv

\* The end of a request that was answered, up to the browser's jar.
LEMMA AnswerEnds ==
    ASSUME IInv, NEW h \in Handlers, request[h].at = "answer", End(h),
           UNCHANGED <<now, rows, stored, writer>>,
           NEW b \in Browsers, b = request[h].browser,
           jar' \in [Browsers -> Jars],
           \A c \in Browsers \ {b} : jar'[c] = jar[c],
           NEW s \in BOOLEAN, sure' = [sure EXCEPT ![b] = s],
           s => /\ request[h].solo
                /\ \A a \in Accounts : writer[a] = b => Agrees(b, a)'
    PROVE  IInv'
<1>1. request'[h] = Free /\ \A g \in Handlers \ {h} : request'[g] = request[g]
    BY DEF IInv, TypeOK, End
<1>2. /\ sure'[b] = s
      /\ \A c \in Browsers \ {b} : sure'[c] = sure[c]
    BY DEF IInv, TypeOK
<1>3. TypeOK'
    BY FreeType DEF IInv, TypeOK, End
<1>4. RequestInv'
    BY <1>1, FreeType DEF IInv, RequestInv
<1>5. SoloInv'
  <2>1. \A g, k \in Handlers :
            /\ g # k /\ request'[k].browser \in Browsers
            /\ request'[g].browser = request'[k].browser
            => ~request'[k].solo
      BY <1>1 DEF IInv, SoloInv, Free
  <2>2. ASSUME NEW c \in Browsers, NEW g \in Handlers,
               sure'[c], request'[g].browser = c
        PROVE  request'[g].solo
    <3>1. g # h /\ request[g].browser = c
        BY <1>1, <2>2 DEF Free
    <3>2. c # b
        BY <1>2, <2>2, <3>1 DEF IInv, SoloInv
    <3> QED BY <1>1, <1>2, <2>2, <3>1, <3>2 DEF IInv, SoloInv
  <2> QED BY <2>1, <2>2 DEF SoloInv
<1>6. JarInv'
  <2>1. ASSUME NEW a \in Accounts, NEW c \in Browsers,
               writer'[a] = c, sure'[c], ~Answering(c)'
        PROVE  Agrees(c, a)'
    <3>1. CASE c = b
        BY <1>2, <2>1, <3>1
    <3>2. CASE c # b
      <4>1. ~Answering(c)
          BY <1>1, <2>1, <3>2 DEF Answering
      <4> QED BY <1>2, <2>1, <3>2, <4>1 DEF IInv, JarInv, Agrees
    <3> QED BY <3>1, <3>2
  <2> QED BY <2>1 DEF JarInv
<1>7. AnswerInv' /\ OvertakenInv'
    BY <1>1 DEF IInv, AnswerInv, OvertakenInv, Free
<1> QED BY <1>3, <1>4, <1>5, <1>6, <1>7 DEF IInv

LEMMA AnswerStep ==
    ASSUME IInv, NEW h \in Handlers, Answer(h)
    PROVE  IInv'
<1> DEFINE r == request[h]
<1>1. /\ r \in Requests /\ r.at = "answer" /\ r.browser \in Browsers
      /\ r.account \in Accounts
      /\ \/ r.token = None
         \/ r.token \in Tokens /\ r.token[1] = r.account
    BY DEF IInv, TypeOK, RequestInv, RequestOK, Answer
<1>2. PICK b \in Browsers : b = r.browser
    BY <1>1
<1>3. PICK s \in BOOLEAN : s = r.solo
    BY <1>1 DEF Requests
<1>4. /\ jar' = [jar EXCEPT ![b] = [access |-> r.token, refresh |-> r.token]]
      /\ sure' = [sure EXCEPT ![b] = s]
      /\ End(h) /\ UNCHANGED <<now, rows, stored, writer>>
    BY <1>2, <1>3 DEF Answer
<1>5. [access |-> r.token, refresh |-> r.token] \in Jars
    BY <1>1 DEF Jars
<1>6. jar' \in [Browsers -> Jars] /\ jar'[b].refresh = r.token
    BY <1>4, <1>5 DEF IInv, TypeOK
<1>7. \A c \in Browsers \ {b} : jar'[c] = jar[c]
    BY <1>4 DEF IInv, TypeOK
<1>8. ASSUME s, NEW a \in Accounts, writer[a] = b
      PROVE  Agrees(b, a)'
  <2>1. a = r.account => stored[a] = r.token
      BY <1>1, <1>2, <1>3, <1>8 DEF IInv, AnswerInv
  <2> QED BY <1>1, <1>4, <1>6, <2>1 DEF Agrees
<1> QED BY <1>1, <1>2, <1>3, <1>4, <1>6, <1>7, <1>8, AnswerEnds

LEMMA LoseInv ==
    ASSUME IInv, NEW h \in Handlers, Lose(h)
    PROVE  IInv'
<1>1. request[h].browser \in Browsers
    BY DEF IInv, RequestInv, RequestOK, Lose
<1>2. PICK b \in Browsers : b = request[h].browser
    BY <1>1
<1>3. /\ request[h].at = "answer" /\ End(h)
      /\ sure' = [sure EXCEPT ![b] = FALSE]
      /\ UNCHANGED <<now, rows, stored, jar, writer>>
    BY <1>2 DEF Lose
<1> QED BY <1>2, <1>3, AnswerEnds DEF IInv, TypeOK

-----------------------------------------------------------------------------
(* The clock and the cookies.                                              *)

LEMMA TickInv ==
    ASSUME IInv, Tick
    PROVE  IInv'
<1>1. now' \in 1..MaxTime
    BY DEF IInv, TypeOK, Tick
<1> QED BY <1>1 DEF Tick, IInv, TypeOK, RequestInv, SoloInv, JarInv, Agrees,
                Answering, AnswerInv, OvertakenInv

\* A cookie that expires only makes it easier to agree.
LEMMA ExpireInv ==
    ASSUME IInv, NEW b \in Browsers, Expire(b)
    PROVE  IInv'
<1>1. UNCHANGED <<now, rows, stored, request, writer, sure>>
    BY DEF Expire
<1>2. PICK j : j = IF jar[b].access # None
                   THEN [jar[b] EXCEPT !.access = None]
                   ELSE [access |-> None, refresh |-> None]
    OBVIOUS
<1>3. j \in Jars /\ (j.refresh = None \/ j.refresh = jar[b].refresh)
    BY <1>2 DEF IInv, TypeOK, Jars
<1>4. jar' = [jar EXCEPT ![b] = j]
    BY <1>2 DEF Expire, IInv, TypeOK
<1>5. TypeOK'
    BY <1>1, <1>3, <1>4 DEF IInv, TypeOK
<1>6. \A c \in Browsers, a \in Accounts : Agrees(c, a) => Agrees(c, a)'
    BY <1>1, <1>3, <1>4 DEF IInv, TypeOK, Agrees
<1>7. JarInv'
    BY <1>1, <1>6 DEF IInv, JarInv, Answering
<1>8. (RequestInv /\ SoloInv /\ AnswerInv /\ OvertakenInv)'
    BY <1>1 DEF IInv, RequestInv, SoloInv, AnswerInv, OvertakenInv
<1> QED BY <1>5, <1>7, <1>8 DEF IInv

LEMMA StepInv == IInv /\ [Next]_vars => IInv'
<1> SUFFICES ASSUME IInv, [Next]_vars PROVE IInv'
    OBVIOUS
<1>1. CASE UNCHANGED vars
    BY <1>1 DEF vars, IInv, TypeOK, RequestInv, SoloInv, JarInv, Agrees,
       Answering, AnswerInv, OvertakenInv
<1>2. CASE Next
    BY <1>2, TickInv, ExpireInv, LookUpInv, CompareInv, MintInv, StoreInv,
       AnswerStep, LoseInv, FailInv, LoginInv, RefreshInv, LogoutInv DEF Next
<1> QED BY <1>1, <1>2

-----------------------------------------------------------------------------
(* The theorems.                                                           *)

\* In every reachable state jars, answers and rows are related as above
\* (auth_handler.go, auth_ucase.go).
THEOREM Inductive == Spec => []IInv
BY InitInv, StepInv, PTL DEF Spec

\* The variables keep their types; a row keeps tokens of its own account
\* (generateTokens, UpdateRefreshToken).
THEOREM TypeCorrect == Spec => []TypeOK
<1>1. IInv => TypeOK
    BY DEF IInv
<1> QED BY <1>1, Inductive, PTL

\* The browser that wrote the row last is in step with it, unless its own
\* requests overlapped or an answer was lost (Refresh of auth_handler.go).
THEOREM BrowsersInStep == Spec => []InStep
<1>1. IInv => InStep
    BY DEF IInv, InStep, JarInv, Agrees, Answering, Busy
<1> QED BY <1>1, Inductive, PTL

\* Only a login, or a refresh that was compared before, ends a logout
\* (RefreshToken and Logout of auth_ucase.go).
THEOREM LogoutLasts == Spec => LoggedOutStaysOut
<1> DEFINE Step ==
        \A a \in Accounts :
            stored[a] = None /\ stored'[a] # None =>
                \E h \in Handlers :
                    /\ request[h].at = "store"
                    /\ request[h].account = a
                    /\ request[h].kind = "login" \/ request[h].overtaken
<1>1. IInv /\ [Next]_vars => Step
  <2> SUFFICES ASSUME IInv, [Next]_vars, NEW a \in Accounts,
                      stored[a] = None, stored'[a] # None
               PROVE  \E h \in Handlers :
                          /\ request[h].at = "store"
                          /\ request[h].account = a
                          /\ request[h].kind = "login" \/ request[h].overtaken
      OBVIOUS
  <2>1. PICK h \in Handlers : Store(h)
      BY DEF Next, vars, Tick, Expire, LookUp, Create, Compare, Mint, Answer,
         Lose, Fail, Login, Refresh, Logout
  <2>2. /\ request[h].at = "store" /\ RequestOK(request[h])
        /\ stored' = [stored EXCEPT ![request[h].account] = request[h].token]
      BY <2>1 DEF Store, Written, IInv, RequestInv
  <2>3. request[h].account = a /\ request[h].token # None
      BY <2>2 DEF IInv, TypeOK
  <2>4. request[h].kind \in {"login", "refresh"}
      BY <2>2, <2>3 DEF RequestOK
  <2>5. request[h].kind = "refresh" => request[h].overtaken
      BY <2>2, <2>3 DEF IInv, OvertakenInv
  <2> QED BY <2>2, <2>3, <2>4, <2>5
<1>2. [][Step]_vars => LoggedOutStaysOut
    BY DEF LoggedOutStaysOut
<1> QED
  <2> HIDE DEF Step
  <2>1. Spec => [][Step]_vars
      BY <1>1, Inductive, PTL DEF Spec
  <2> QED BY <1>2, <2>1
=============================================================================
