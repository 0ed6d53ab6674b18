--------------------------- MODULE AccountsProofs ---------------------------
(***************************************************************************)
(* For any number of clients, names, addresses and secrets, any bounds and *)
(* any interleaving of the statements: accounts stay apart, who registered *)
(* can log in, and only who logged in is served.                           *)
(***************************************************************************)
EXTENDS Accounts, TLAPS

\* What a request has in hand at each place.
InHand ==
    \A c \in Clients :
        /\ request[c].pc \in {"lookup", "geocode", "create"} =>
              /\ request[c].name \in Names /\ request[c].email \in Emails
              /\ request[c].password \in Passwords
        /\ request[c].pc = "find" =>
              request[c].email \in Emails /\ request[c].password \in Passwords
        /\ request[c].pc \in {"check", "bad_credentials"} =>
              /\ request[c].email \in Emails /\ request[c].password \in Passwords
              /\ request[c].user \in Stored /\ users[request[c].user].email = request[c].email
        /\ request[c].pc = "bad_credentials" =>
              users[request[c].user].password # request[c].password
        /\ request[c].pc = "parse" => request[c].token \in logins \cup {None}
        /\ request[c].pc \in {"load", "served"} => request[c].token \in logins
        /\ request[c].pc = "served" => request[c].user = request[c].token.id

\* Rows come from the sequence and are never changed, and tokens are of logins.
Kept ==
    /\ \A i \in Stored : i < nextId
    /\ \A a \in created : a.id \in Stored
    /\ \A t \in logins :
          /\ t.id \in Stored /\ t.exp = t.at + Lifetime
          /\ users[t.id].email = t.email /\ users[t.id].password = t.password

\* The properties are not inductive: they say nothing of requests under way.
AccountInv == TypeOK /\ OneAccountEach /\ InHand /\ Kept

LEMMA InitInv == Init => AccountInv
<1> SUFFICES ASSUME Init PROVE AccountInv
  OBVIOUS
<1> USE AccountAssumption DEF Init, Idle, Stored, Ids
<1>1. TypeOK
  BY DEF TypeOK, Answers
<1>2. OneAccountEach /\ InHand /\ Kept
  BY DEF OneAccountEach, InHand, Kept, Answers
<1> QED
  BY <1>1, <1>2 DEF AccountInv

\* The requests of the type invariant.
Requests ==
    [pc : {"idle", "lookup", "geocode", "create", "find", "check", "parse", "load"} \cup Answers,
     name : Names \cup {None}, padded : BOOLEAN, email : Emails \cup {None},
     password : Passwords \cup {None}, user : Ids \cup {None}, token : Token \cup {None}]

\* A step that leaves the tables alone keeps the invariant if the request of its
\* client is in order afterwards.
LEMMA RequestStepInv ==
    ASSUME AccountInv, NoTables, faults' \in 0..MaxFaults, NoWorld,
           NEW c \in Clients, NEW q \in Requests, request' = [request EXCEPT ![c] = q],
           q.pc \in {"lookup", "geocode", "create"} =>
              q.name \in Names /\ q.email \in Emails /\ q.password \in Passwords,
           q.pc = "find" => q.email \in Emails /\ q.password \in Passwords,
           q.pc \in {"check", "bad_credentials"} =>
              /\ q.email \in Emails /\ q.password \in Passwords
              /\ q.user \in Stored /\ users[q.user].email = q.email,
           q.pc = "bad_credentials" => users[q.user].password # q.password,
           q.pc = "parse" => q.token \in logins \cup {None},
           q.pc \in {"load", "served"} => q.token \in logins,
           q.pc = "served" => q.user = q.token.id
    PROVE  AccountInv'
<1>1. TypeOK'
  BY DEF AccountInv, TypeOK, NoTables, NoWorld, Requests
<1>2. Stored' = Stored
  BY DEF NoTables, Stored
<1>3. OneAccountEach' /\ Kept'
  BY <1>2 DEF AccountInv, OneAccountEach, Kept, NoTables
<1>4. InHand'
  BY <1>2 DEF AccountInv, InHand, TypeOK, NoTables
<1> QED
  BY <1>1, <1>3, <1>4 DEF AccountInv

\* An answer other than that of the handlers and 401 for the password.
LEMMA AnswerInv ==
    ASSUME AccountInv, NoTables, faults' \in 0..MaxFaults, NoWorld,
           NEW c \in Clients, NEW code \in Answers \ {"bad_credentials", "served"},
           Answer(c, code)
    PROVE  AccountInv'
<1> DEFINE q == [request[c] EXCEPT !.pc = code, !.name = None, !.padded = FALSE]
<1>1. request[c] \in Requests
  BY DEF AccountInv, TypeOK, Requests
<1>2. q \in Requests /\ q.pc = code
  BY <1>1 DEF Requests
<1>3. request' = [request EXCEPT ![c] = q]
  BY <1>1 DEF Answer, AccountInv, TypeOK
<1> HIDE DEF q
<1> QED
  BY <1>2, <1>3, RequestStepInv DEF Answers

\* A request that goes on as it is.
LEMMA GoToInv ==
    ASSUME AccountInv, NoTables, faults' \in 0..MaxFaults, NoWorld,
           NEW c \in Clients, NEW pc, GoTo(c, pc),
           \/ request[c].pc \in {"lookup", "geocode"} /\ pc \in {"geocode", "create"}
           \/ request[c].pc = "parse" /\ pc = "load" /\ request[c].token # None
    PROVE  AccountInv'
<1> DEFINE q == [request[c] EXCEPT !.pc = pc]
<1>1. request[c] \in Requests
  BY DEF AccountInv, TypeOK, Requests
<1>2. /\ q \in Requests /\ q.pc = pc
      /\ q.name = request[c].name /\ q.email = request[c].email
      /\ q.password = request[c].password /\ q.token = request[c].token
  BY <1>1 DEF Requests
<1>3. request' = [request EXCEPT ![c] = q]
  BY <1>1 DEF GoTo, AccountInv, TypeOK
<1>4. /\ request[c].pc \in {"lookup", "geocode"} =>
            /\ request[c].name \in Names /\ request[c].email \in Emails
            /\ request[c].password \in Passwords
      /\ request[c].pc = "parse" /\ request[c].token # None => request[c].token \in logins
  BY DEF AccountInv, InHand
<1> HIDE DEF q
<1> QED
  BY <1>2, <1>3, <1>4, RequestStepInv

\* The faults stay within their bound.
LEMMA FaultType ==
    ASSUME AccountInv, UNCHANGED faults \/ DbError
    PROVE  faults' \in 0..MaxFaults
BY AccountAssumption DEF AccountInv, TypeOK, DbError

\* A client's next request.
LEMMA NewRequestInv ==
    ASSUME AccountInv, NEW c \in Clients, Register(c) \/ Login(c) \/ Call(c)
    PROVE  AccountInv'
<1>0. NoTables /\ NoWorld /\ faults' \in 0..MaxFaults
  BY FaultType DEF Register, Login, Call
<1>1. CASE Register(c)
  <2>1. PICK n \in Names, p \in BOOLEAN, e \in Emails, pw \in Passwords :
            request' = [request EXCEPT ![c] =
                [Idle EXCEPT !.pc = "lookup", !.name = n, !.padded = p,
                             !.email = e, !.password = pw]]
    BY <1>1 DEF Register
  <2> DEFINE q == [Idle EXCEPT !.pc = "lookup", !.name = n, !.padded = p,
                               !.email = e, !.password = pw]
  <2>2. q \in Requests /\ q.pc = "lookup" /\ q.name = n /\ q.email = e /\ q.password = pw
    BY DEF Idle, Requests
  <2> HIDE DEF q
  <2>3. request' = [request EXCEPT ![c] = q]
    BY <2>1 DEF q
  <2> QED
    BY <1>0, <2>2, <2>3, RequestStepInv
<1>2. CASE Login(c)
  <2>1. PICK e \in Emails, pw \in Passwords :
            request' = [request EXCEPT ![c] =
                [Idle EXCEPT !.pc = "find", !.email = e, !.password = pw]]
    BY <1>2 DEF Login
  <2> DEFINE q == [Idle EXCEPT !.pc = "find", !.email = e, !.password = pw]
  <2>2. q \in Requests /\ q.pc = "find" /\ q.email = e /\ q.password = pw
    BY DEF Idle, Requests
  <2>3. request' = [request EXCEPT ![c] = q]
    BY <2>1
  <2> HIDE DEF q
  <2> QED
    BY <1>0, <2>2, <2>3, RequestStepInv
<1>3. CASE Call(c)
  <2>1. PICK t \in logins \cup {None} :
            request' = [request EXCEPT ![c] = [Idle EXCEPT !.pc = "parse", !.token = t]]
    BY <1>3 DEF Call
  <2> DEFINE q == [Idle EXCEPT !.pc = "parse", !.token = t]
  <2>2. q \in Requests /\ q.pc = "parse" /\ q.token = t
    BY DEF Idle, Requests, AccountInv, TypeOK
  <2>3. request' = [request EXCEPT ![c] = q]
    BY <2>1
  <2> HIDE DEF q
  <2> QED
    BY <1>0, <2>2, <2>3, RequestStepInv
<1> QED
  BY <1>1, <1>2, <1>3

LEMMA LookUpNameInv ==
    ASSUME AccountInv, NEW c \in Clients, LookUpName(c) \/ GeocodeLocation(c)
    PROVE  AccountInv'
<1>1. NoTables /\ NoWorld /\ faults' \in 0..MaxFaults
  BY FaultType DEF LookUpName, GeocodeLocation
<1>2. \/ \E code \in {"conflict", "error", "bad_location"} : Answer(c, code)
      \/ request[c].pc = "lookup" /\ GoTo(c, "geocode")
      \/ request[c].pc = "geocode" /\ GoTo(c, "create")
  BY DEF LookUpName, GeocodeLocation
<1>3. {"conflict", "error", "bad_location"} \subseteq Answers \ {"bad_credentials", "served"}
  BY DEF Answers
<1> QED
  BY <1>1, <1>2, <1>3, AnswerInv, GoToInv

LEMMA FindUserInv ==
    ASSUME AccountInv, NEW c \in Clients, FindUser(c)
    PROVE  AccountInv'
<1>1. NoTables /\ NoWorld /\ faults' \in 0..MaxFaults
  BY FaultType DEF FindUser
<1>2. ASSUME NEW i \in Stored, users[i].email = request[c].email,
             request' = [request EXCEPT ![c].pc = "check", ![c].user = i]
      PROVE  AccountInv'
  <2> DEFINE q == [request[c] EXCEPT !.pc = "check", !.user = i]
  <2>1. request[c] \in Requests
    BY DEF AccountInv, TypeOK, Requests
  <2>2. /\ q \in Requests /\ q.pc = "check" /\ q.user = i
        /\ q.email = request[c].email /\ q.password = request[c].password
    BY <2>1 DEF Requests, Stored
  <2>3. request' = [request EXCEPT ![c] = q]
    BY <1>2, <2>1 DEF AccountInv, TypeOK
  <2>4. request[c].email \in Emails /\ request[c].password \in Passwords
    BY DEF AccountInv, InHand, FindUser
  <2> HIDE DEF q
  <2> QED
    BY <1>1, <1>2, <2>2, <2>3, <2>4, RequestStepInv
<1>3. ASSUME Answer(c, "not_found") PROVE AccountInv'
  BY <1>1, <1>3, AnswerInv DEF Answers
<1> QED
  BY <1>2, <1>3 DEF FindUser

LEMMA DenyPasswordInv ==
    ASSUME AccountInv, NEW c \in Clients, DenyPassword(c)
    PROVE  AccountInv'
<1>1. NoTables /\ NoWorld /\ faults' \in 0..MaxFaults
  BY FaultType DEF DenyPassword
<1> DEFINE q == [request[c] EXCEPT !.pc = "bad_credentials", !.name = None, !.padded = FALSE]
<1>2. request[c] \in Requests
  BY DEF AccountInv, TypeOK, Requests
<1>3. /\ q \in Requests /\ q.pc = "bad_credentials" /\ q.user = request[c].user
      /\ q.email = request[c].email /\ q.password = request[c].password
  BY <1>2 DEF Requests, Answers
<1>4. request' = [request EXCEPT ![c] = q]
  BY <1>2 DEF DenyPassword, Answer, AccountInv, TypeOK
<1>5. /\ request[c].email \in Emails /\ request[c].password \in Passwords
      /\ request[c].user \in Stored /\ users[request[c].user].email = request[c].email
      /\ users[request[c].user].password # request[c].password
  BY DEF AccountInv, InHand, DenyPassword, PasswordMatches
<1> HIDE DEF q
<1> QED
  BY <1>1, <1>3, <1>4, <1>5, RequestStepInv

LEMMA CallInv ==
    ASSUME AccountInv, NEW c \in Clients, ParseToken(c) \/ LoadUser(c)
    PROVE  AccountInv'
<1>1. NoTables /\ NoWorld /\ faults' \in 0..MaxFaults
  BY FaultType DEF ParseToken, LoadUser
<1>2. CASE ParseToken(c)
  <2>1. \/ request[c].pc = "parse" /\ request[c].token # None /\ GoTo(c, "load")
        \/ Answer(c, "unauthorized")
    BY <1>2 DEF ParseToken, Acceptable
  <2> QED
    BY <1>1, <2>1, GoToInv, AnswerInv DEF Answers
<1>3. CASE LoadUser(c)
  <2>1. CASE \E code \in {"unauthorized", "error"} : Answer(c, code)
    BY <1>1, <2>1, AnswerInv DEF Answers
  <2>2. CASE /\ request[c].token.id \in Stored
             /\ request' = [request EXCEPT ![c].pc = "served", ![c].user = request[c].token.id]
    <3> DEFINE q == [request[c] EXCEPT !.pc = "served", !.user = request[c].token.id]
    <3>1. request[c] \in Requests
      BY DEF AccountInv, TypeOK, Requests
    <3>2. /\ q \in Requests /\ q.pc = "served"
          /\ q.user = request[c].token.id /\ q.token = request[c].token
      BY <2>2, <3>1 DEF Requests, Stored, Answers
    <3>3. request' = [request EXCEPT ![c] = q]
      BY <2>2, <3>1 DEF AccountInv, TypeOK
    <3>4. request[c].token \in logins
      BY <1>3 DEF AccountInv, InHand, LoadUser
    <3> HIDE DEF q
    <3> QED
      BY <1>1, <3>2, <3>3, <3>4, RequestStepInv
  <2> QED
    BY <1>3, <2>1, <2>2 DEF LoadUser
<1> QED
  BY <1>2, <1>3

\* What an answer leaves in the request of its client.
LEMMA AnswerShape ==
    ASSUME AccountInv, NEW c \in Clients, NEW code \in Answers \ {"bad_credentials"},
           Answer(c, code)
    PROVE  \E q \in Requests : q.pc = code /\ request' = [request EXCEPT ![c] = q]
<1> DEFINE q == [request[c] EXCEPT !.pc = code, !.name = None, !.padded = FALSE]
<1>1. request[c] \in Requests
  BY DEF AccountInv, TypeOK, Requests
<1>2. q \in Requests /\ q.pc = code
  BY <1>1 DEF Requests
<1>3. request' = [request EXCEPT ![c] = q]
  BY <1>1 DEF Answer, AccountInv, TypeOK
<1> QED
  BY <1>2, <1>3

\* The insert, with or without the row, and whatever the client is told.
LEMMA CreateUserInv ==
    ASSUME AccountInv, NEW c \in Clients, CreateUser(c)
    PROVE  AccountInv'
<1> USE AccountAssumption
<1>1. NoWorld /\ faults' \in 0..MaxFaults /\ UNCHANGED logins
  BY FaultType DEF CreateUser
<1>2. nextId \in Ids /\ nextId' = nextId + 1 /\ nextId' \in 1..MaxId + 1 /\ nextId \notin Stored
  BY DEF AccountInv, TypeOK, Kept, Ids, CreateUser
<1>3. NewRow(c) \in Row /\ NewRow(c) # None
  BY DEF AccountInv, InHand, NewRow, Row, CreateUser
<1>4. PICK q \in Requests : q.pc \in {"created", "error"} /\ request' = [request EXCEPT ![c] = q]
  BY AnswerShape DEF CreateUser, Answers
<1>5. ASSUME UNCHANGED <<users, created>> PROVE AccountInv'
  <2>1. TypeOK'
    BY <1>1, <1>2, <1>4, <1>5 DEF AccountInv, TypeOK, NoWorld, Requests
  <2>2. Stored' = Stored
    BY <1>5 DEF Stored
  <2>3. OneAccountEach'
    BY <1>5, <2>2 DEF AccountInv, OneAccountEach
  <2>4. InHand'
    BY <1>1, <1>4, <1>5, <2>2 DEF AccountInv, TypeOK, InHand
  <2>5. Kept'
    BY <1>1, <1>2, <1>5, <2>2 DEF AccountInv, TypeOK, Kept, Stored, Ids
  <2> QED
    BY <2>1, <2>3, <2>4, <2>5 DEF AccountInv
<1>6. ASSUME Unique(c), Store(c),
             created' \in {created, created \cup {[id |-> nextId, row |-> NewRow(c)]}}
      PROVE  AccountInv'
  <2>1. users' = [users EXCEPT ![nextId] = NewRow(c)]
    BY <1>6 DEF Store
  <2>2. Stored' = Stored \cup {nextId} /\ users'[nextId] = NewRow(c)
    BY <1>2, <1>3, <2>1 DEF Stored, AccountInv, TypeOK
  <2>3. \A i \in Stored : users'[i] = users[i]
    BY <1>2, <2>1 DEF Stored, AccountInv, TypeOK
  <2>4. TypeOK'
    <3>1. created' \subseteq [id : Ids, row : Row]
      BY <1>2, <1>3, <1>6 DEF AccountInv, TypeOK
    <3> QED
      BY <1>1, <1>2, <1>3, <1>4, <2>1, <3>1 DEF AccountInv, TypeOK, NoWorld, Requests
  <2>5. OneAccountEach'
    <3>1. \A i \in Stored : users[i].name # NewRow(c).name /\ users[i].email # NewRow(c).email
      BY <1>6 DEF Unique, NewRow
    <3>2. \A a \in created' : a \in created \/ (a.id = nextId /\ a.row = NewRow(c))
      BY <1>6
    <3>3. \A a \in created : a.id \in Stored /\ users[a.id] = a.row
      BY DEF AccountInv, OneAccountEach, Kept
    <3>4. \A a \in created' : users'[a.id] = a.row
      BY <2>2, <2>3, <3>2, <3>3
    <3>5. \A i, j \in Stored' :
              users'[i].name = users'[j].name \/ users'[i].email = users'[j].email => i = j
      BY <2>2, <2>3, <3>1 DEF AccountInv, OneAccountEach
    <3> QED
      BY <3>4, <3>5 DEF OneAccountEach
  <2>6. InHand'
    BY <1>1, <1>4, <2>2, <2>3 DEF AccountInv, TypeOK, InHand
  <2>7. Kept'
    <3>1. \A i \in Stored' : i < nextId'
      BY <1>2, <2>2 DEF AccountInv, TypeOK, Kept, Stored, Ids
    <3>2. \A a \in created' : a.id \in Stored'
      BY <1>6, <2>2 DEF AccountInv, Kept
    <3> QED
      BY <1>1, <2>2, <2>3, <3>1, <3>2 DEF AccountInv, Kept
  <2> QED
    BY <2>4, <2>5, <2>6, <2>7 DEF AccountInv
<1> QED
  BY <1>5, <1>6 DEF CreateUser

LEMMA SignTokenInv ==
    ASSUME AccountInv, NEW c \in Clients, SignToken(c)
    PROVE  AccountInv'
<1> USE AccountAssumption
<1>1. NoWorld /\ UNCHANGED <<users, nextId, created, faults>> /\ faults' \in 0..MaxFaults
  BY FaultType DEF SignToken
<1>2. CASE Answer(c, "error") /\ UNCHANGED logins
  <2>1. NoTables
    BY <1>1, <1>2 DEF NoTables
  <2> QED
    BY <1>1, <1>2, <2>1, AnswerInv DEF Answers
<1>3. CASE secret # None /\ Answer(c, "token")
           /\ logins' = logins \cup {[id |-> request[c].user, exp |-> Expiry, secret |-> secret,
                  email |-> request[c].email, password |-> request[c].password, at |-> now]}
  <2> DEFINE t == [id |-> request[c].user, exp |-> Expiry, secret |-> secret,
                   email |-> request[c].email, password |-> request[c].password, at |-> now]
  <2>1. /\ request[c].user \in Stored /\ request[c].email \in Emails /\ request[c].password \in Passwords
        /\ users[request[c].user].email = request[c].email
        /\ users[request[c].user].password = request[c].password
    BY DEF AccountInv, InHand, SignToken, PasswordMatches
  <2>2. /\ t \in Token /\ t.id \in Stored /\ t.exp = t.at + Lifetime
        /\ users[t.id].email = t.email /\ users[t.id].password = t.password
    BY <1>3, <2>1 DEF AccountInv, TypeOK, Token, Expiry, Stored
  <2> HIDE DEF t
  <2>3. logins' = logins \cup {t}
    BY <1>3 DEF t
  <2>4. PICK q \in Requests : q.pc = "token" /\ request' = [request EXCEPT ![c] = q]
    BY <1>3, AnswerShape DEF Answers
  <2>5. TypeOK'
    BY <1>1, <2>2, <2>3, <2>4 DEF AccountInv, TypeOK, NoWorld, Requests
  <2>6. Stored' = Stored
    BY <1>1 DEF Stored
  <2>7. OneAccountEach' /\ Kept'
    BY <1>1, <2>2, <2>3, <2>6 DEF AccountInv, OneAccountEach, Kept
  <2>8. InHand'
    BY <1>1, <2>3, <2>4, <2>6 DEF AccountInv, TypeOK, InHand
  <2> QED
    BY <2>5, <2>7, <2>8 DEF AccountInv
<1> QED
  BY <1>2, <1>3 DEF SignToken

LEMMA WorldInv ==
    ASSUME AccountInv, Tick \/ Restart
    PROVE  AccountInv'
<1> USE AccountAssumption
<1>1. UNCHANGED <<users, nextId, created, logins, faults>>
  BY DEF Tick, Restart, NoTables
<1>2. now' \in 0..MaxTime /\ restarts' \in 0..MaxRestarts /\ secret' \in Secrets \cup {None}
  BY DEF Tick, Restart, AccountInv, TypeOK
<1>3. Idle \in Requests /\ Idle.pc = "idle"
  BY DEF Idle, Requests
<1>4. request' = request \/ request' = [c \in Clients |-> Idle]
  BY DEF Tick, Restart
<1>5. Stored' = Stored
  BY <1>1 DEF Stored
<1>6. TypeOK'
  BY <1>1, <1>2, <1>3, <1>4 DEF AccountInv, TypeOK, Requests
<1>7. OneAccountEach' /\ Kept'
  BY <1>1, <1>5 DEF AccountInv, OneAccountEach, Kept
<1>8. InHand'
  BY <1>1, <1>3, <1>4, <1>5 DEF AccountInv, InHand
<1> QED
  BY <1>6, <1>7, <1>8 DEF AccountInv

LEMMA NextInv == AccountInv /\ [Next]_vars => AccountInv'
<1> SUFFICES ASSUME AccountInv, [Next]_vars PROVE AccountInv'
  OBVIOUS
<1>1. CASE UNCHANGED vars
  BY <1>1 DEF vars, AccountInv, TypeOK, OneAccountEach, InHand, Kept, Stored
<1>2. CASE Next
  BY <1>2, NewRequestInv, LookUpNameInv, CreateUserInv, FindUserInv, DenyPasswordInv,
     SignTokenInv, CallInv, WorldInv
     DEF Next, RegisterStep, LoginStep, CallStep
<1> QED
  BY <1>1, <1>2

LEMMA Inductive == Spec => []AccountInv
  BY InitInv, NextInv, PTL DEF Spec

-----------------------------------------------------------------------------
(* Theorems *)

\* Every variable keeps its type: no row, request or token lacks a part the next
\* statement of UserRegistration, UserLogin or AuthCheckingMiddleware reads.
THEOREM TypeCorrect == Spec => []TypeOK
<1>1. AccountInv => TypeOK
  BY DEF AccountInv
<1> QED
  BY <1>1, Inductive, PTL

\* A name and an address have one account each, and a registration answered 201
\* has its account, however registrations race (UserRegistration).
THEOREM OneAccountEachHolds == Spec => []OneAccountEach
<1>1. AccountInv => OneAccountEach
  BY DEF AccountInv
<1> QED
  BY <1>1, Inductive, PTL

\* Who was answered 201 is never told that the password is wrong (UserLogin).
THEOREM CreatedCanLoginHolds == Spec => []CreatedCanLogin
<1>1. AccountInv => CreatedCanLogin
  <2> SUFFICES ASSUME AccountInv, NEW c \in Clients, request[c].pc = "bad_credentials",
                      NEW a \in created, a.row.email = request[c].email,
                      a.row.password = request[c].password
               PROVE  FALSE
    BY DEF CreatedCanLogin
  <2>1. request[c].user \in Stored /\ users[request[c].user].email = request[c].email
        /\ users[request[c].user].password # request[c].password
    BY DEF AccountInv, InHand
  <2>2. a.id \in Stored /\ users[a.id] = a.row
    BY DEF AccountInv, OneAccountEach, Kept
  <2>3. a.id = request[c].user
    BY <2>1, <2>2 DEF AccountInv, OneAccountEach
  <2> QED
    BY <2>1, <2>2, <2>3
<1> QED
  BY <1>1, Inductive, PTL

\* How a step can bring a client to "load" or to "served".
LEMMA ServingStep ==
    ASSUME AccountInv, [Next]_vars, NEW c \in Clients
    PROVE  \/ request'[c] = request[c]
           \/ request'[c].pc \notin {"load", "served"}
           \/ /\ request'[c].pc = "load" /\ request[c].pc = "parse"
              /\ request'[c].token = request[c].token /\ Acceptable(request[c].token)
           \/ /\ request'[c].pc = "served" /\ request[c].pc = "load" /\ users' = users
              /\ request'[c].token = request[c].token
              /\ request'[c].user = request[c].token.id
<1> DEFINE Goal ==
           \/ request'[c] = request[c]
           \/ request'[c].pc \notin {"load", "served"}
           \/ /\ request'[c].pc = "load" /\ request[c].pc = "parse"
              /\ request'[c].token = request[c].token /\ Acceptable(request[c].token)
           \/ /\ request'[c].pc = "served" /\ request[c].pc = "load" /\ users' = users
              /\ request'[c].token = request[c].token
              /\ request'[c].user = request[c].token.id
<1>0. request \in [Clients -> Requests]
  BY DEF AccountInv, TypeOK, Requests
<1>1. ASSUME NEW d \in Clients, NEW code \in Answers \ {"served"}, Answer(d, code) PROVE Goal
  BY <1>0, <1>1 DEF Answer, Requests, Answers
<1>2. ASSUME NEW d \in Clients, NEW pc \in {"geocode", "create"}, GoTo(d, pc) PROVE Goal
  BY <1>0, <1>2 DEF GoTo, Requests
<1>3. ASSUME NEW d \in Clients, RegisterStep(d) PROVE Goal
  <2>1. CASE Register(d)
    BY <1>0, <2>1 DEF Register, Idle, Requests
  <2>2. CASE LookUpName(d) \/ GeocodeLocation(d)
    BY <1>1, <1>2, <2>2 DEF LookUpName, GeocodeLocation, Answers
  <2>3. CASE CreateUser(d)
    BY <1>1, <2>3 DEF CreateUser, Answers
  <2> QED
    BY <1>3, <2>1, <2>2, <2>3 DEF RegisterStep
<1>4. ASSUME NEW d \in Clients, LoginStep(d) PROVE Goal
  <2>1. CASE Login(d)
    BY <1>0, <2>1 DEF Login, Idle, Requests
  <2>2. CASE FindUser(d)
    <3>1. \/ Answer(d, "not_found")
          \/ \E i \in Stored : request' = [request EXCEPT ![d].pc = "check", ![d].user = i]
      BY <2>2 DEF FindUser
    <3> QED
      BY <1>0, <1>1, <3>1 DEF Requests, Answers
  <2>3. CASE DenyPassword(d) \/ SignToken(d)
    BY <1>1, <2>3 DEF DenyPassword, SignToken, Answers
  <2> QED
    BY <1>4, <2>1, <2>2, <2>3 DEF LoginStep
<1>5. ASSUME NEW d \in Clients, CallStep(d) PROVE Goal
  <2>1. CASE Call(d)
    BY <1>0, <2>1 DEF Call, Idle, Requests
  <2>2. CASE ParseToken(d)
    <3>1. CASE Answer(d, "unauthorized")
      BY <1>1, <3>1 DEF Answers
    <3>2. CASE request[d].pc = "parse" /\ Acceptable(request[d].token) /\ GoTo(d, "load")
      BY <1>0, <3>2 DEF GoTo, Requests
    <3> QED
      BY <2>2, <3>1, <3>2 DEF ParseToken
  <2>3. CASE LoadUser(d)
    <3>1. CASE \E code \in {"unauthorized", "error"} : Answer(d, code)
      BY <1>1, <3>1 DEF Answers
    <3>2. CASE /\ request[d].pc = "load" /\ users' = users
               /\ request' = [request EXCEPT ![d].pc = "served", ![d].user = request[d].token.id]
      BY <1>0, <3>2 DEF Requests
    <3> QED
      BY <2>3, <3>1, <3>2 DEF LoadUser, NoTables
  <2> QED
    BY <1>5, <2>1, <2>2, <2>3 DEF CallStep
<1>6. CASE Tick \/ Restart \/ UNCHANGED vars
  BY <1>6 DEF Tick, Restart, vars, Idle
<1> QED
  BY <1>3, <1>4, <1>5, <1>6 DEF Next

\* Who is served has logged in as that user, under the secret in force and less
\* than a token's lifetime ago (AuthCheckingMiddleware).
THEOREM ServedIsLoggedInHolds == Spec => ServedIsLoggedIn
<1> DEFINE Served ==
        \A c \in Clients :
            LET t == request'[c].token IN
            /\ request'[c].pc = "load" /\ request[c].pc # "load" =>
                   now - t.at < Lifetime /\ t.secret = secret
            /\ request'[c].pc = "served" =>
                   LET u == users[request'[c].user] IN u.email = t.email /\ u.password = t.password
<1>1. AccountInv /\ [Next]_vars => Served
  <2> SUFFICES ASSUME AccountInv, [Next]_vars, NEW c \in Clients
               PROVE  /\ request'[c].pc = "load" /\ request[c].pc # "load" =>
                             /\ now - request'[c].token.at < Lifetime
                             /\ request'[c].token.secret = secret
                      /\ request'[c].pc = "served" =>
                             /\ users[request'[c].user].email = request'[c].token.email
                             /\ users[request'[c].user].password = request'[c].token.password
    OBVIOUS
  <2>1. /\ request[c].pc \in {"load", "served"} => request[c].token \in logins
        /\ request[c].pc = "served" => request[c].user = request[c].token.id
        /\ request[c].pc = "parse" => request[c].token \in logins \cup {None}
    BY DEF AccountInv, InHand
  <2>2. \A t \in logins :
            /\ t \in Token /\ t.exp = t.at + Lifetime
            /\ users[t.id].email = t.email /\ users[t.id].password = t.password
    BY DEF AccountInv, TypeOK, Kept
  <2>3. \A t \in logins : Acceptable(t) => now - t.at < Lifetime /\ t.secret = secret
    BY <2>2, AccountAssumption DEF Acceptable, Token, AccountInv, TypeOK
  <2>4. ~Acceptable(None)
    BY DEF Acceptable
  <2> QED
    BY <2>1, <2>2, <2>3, <2>4, ServingStep
<1>2. AccountInv /\ [Next]_vars => [Served]_vars
  BY <1>1
<1> QED
  BY <1>2, Inductive, PTL DEF Spec, ServedIsLoggedIn

=============================================================================
