------------------------------ MODULE Accounts ------------------------------
(***************************************************************************)
(* Registration, login and the JWT middleware: UserRegistration and        *)
(* UserLogin (internal/api/auth/user_reg.go), GenerateAndSignJwtToken and  *)
(* AuthCheckingMiddleware.  Requests of several clients interleave at      *)
(* every database statement; the process may restart with another SECRET.  *)
(*                                                                         *)
(* A name has its stored, trimmed form; padded says that the client sent   *)
(* it with blanks around.  E-mail addresses are trimmed wherever they are  *)
(* used, so that there only the trimmed form matters.  bcrypt accepts the  *)
(* password that was hashed and no other.  Requests that fail validation   *)
(* are answered 400 before any state is read, and are left out.            *)
(***************************************************************************)
EXTENDS Integers, FiniteSets

CONSTANTS
    Clients, Names, Emails, Passwords, Secrets, None,
    Lifetime,       \* of a token: 24 hours
    MaxId,          \* bound on inserts
    MaxLogins,      \* bound on tokens
    MaxTime, MaxFaults, MaxRestarts

ASSUME AccountAssumption ==
    /\ {Lifetime, MaxId, MaxLogins, MaxTime, MaxFaults, MaxRestarts} \subseteq Nat
    /\ Lifetime > 0
    /\ None \notin Names \cup Emails \cup Passwords \cup Secrets
    /\ None \notin [name : Names, email : Emails, password : Passwords]

VARIABLES
    users,      \* the table: id -> row, or None
    nextId,     \* the sequence behind autoIncrement
    request,    \* the request each client has in progress
    logins,     \* tokens issued; email, password and at are ghosts
    secret,     \* the environment's SECRET; None is empty
    now,        \* hours
    created,    \* ghost: what was answered 201
    faults, restarts

vars == <<users, nextId, request, logins, secret, now, created, faults, restarts>>

Ids == 1..MaxId

Row == [name : Names, email : Emails, password : Passwords]

Token == [id : Ids, exp : Nat, secret : Secrets,
          email : Emails, password : Passwords, at : Nat]

Idle == [pc |-> "idle", name |-> None, padded |-> FALSE, email |-> None,
         password |-> None, user |-> None, token |-> None]

Init ==
    /\ users = [i \in Ids |-> None]
    /\ nextId = 1
    /\ request = [c \in Clients |-> Idle]
    /\ logins = {}
    /\ secret \in Secrets \cup {None}
    /\ now = 0
    /\ created = {}
    /\ faults = 0
    /\ restarts = 0

Stored == {i \in Ids : users[i] # None}

GoTo(c, pc) == request' = [request EXCEPT ![c].pc = pc]

Answers == {"created", "conflict", "bad_location", "not_found", "bad_credentials",
            "token", "unauthorized", "served", "error"}

\* The answer stays visible until the client's next request.
Answer(c, code) == request' = [request EXCEPT ![c].pc = code, ![c].name = None, ![c].padded = FALSE]

Ready(c) == request[c].pc \in {"idle"} \cup Answers

DbError == faults < MaxFaults /\ faults' = faults + 1

NoTables == UNCHANGED <<users, nextId, logins, created>>

NoWorld == UNCHANGED <<secret, now, restarts>>

-----------------------------------------------------------------------------
(* UserRegistration *)

Register(c) ==
    /\ Ready(c) /\ nextId <= MaxId
    /\ \E n \in Names, p \in BOOLEAN, e \in Emails, pw \in Passwords :
          request' = [request EXCEPT ![c] =
                [Idle EXCEPT !.pc = "lookup", !.name = n, !.padded = p,
                             !.email = e, !.password = pw]]
    /\ UNCHANGED faults /\ NoTables /\ NoWorld

\* The query compares the name as it was sent with names stored trimmed.
NameTaken(c) == ~request[c].padded /\ \E i \in Stored : users[i].name = request[c].name

LookUpName(c) ==
    /\ request[c].pc = "lookup"
    /\ \/ NameTaken(c) /\ Answer(c, "conflict") /\ UNCHANGED faults
       \/ ~NameTaken(c) /\ GoTo(c, "geocode") /\ UNCHANGED faults
       \/ DbError /\ Answer(c, "error")
    /\ NoTables /\ NoWorld

\* Hashing and CachedUserCords: both leave the tables alone.
GeocodeLocation(c) ==
    /\ request[c].pc = "geocode"
    /\ GoTo(c, "create") \/ Answer(c, "bad_location")
    /\ UNCHANGED faults /\ NoTables /\ NoWorld

\* Faulty variant: only the lookup keeps names apart.
UniqueEmail(c) == \A i \in Stored : users[i].email # request[c].email

\* Faulty variant: only names are unique.
UniqueName(c) == \A i \in Stored : users[i].name # request[c].name

\* The unique indexes on user_name and email.
Unique(c) == \A i \in Stored :
    users[i].name # request[c].name /\ users[i].email # request[c].email

\* Faulty variant: the hash does not reach the row.
NewRowUnhashed(c) == [name |-> request[c].name, email |-> request[c].email, password |-> None]

NewRow(c) == [name |-> request[c].name, email |-> request[c].email,
              password |-> request[c].password]

Store(c) == users' = [users EXCEPT ![nextId] = NewRow(c)]

\* The insert takes an id from the sequence, also when it fails: on an index, or
\* on an error of the database, which may have committed before its answer was lost.
CreateUser(c) ==
    /\ request[c].pc = "create" /\ nextId <= MaxId
    /\ nextId' = nextId + 1
    /\ \/ /\ Unique(c) /\ Store(c) /\ Answer(c, "created")
          /\ created' = created \cup {[id |-> nextId, row |-> NewRow(c)]}
          /\ UNCHANGED faults
       \/ ~Unique(c) /\ Answer(c, "error") /\ UNCHANGED <<users, created, faults>>
       \/ Unique(c) /\ Store(c) /\ DbError /\ Answer(c, "error") /\ UNCHANGED created
       \/ DbError /\ Answer(c, "error") /\ UNCHANGED <<users, created>>
    /\ UNCHANGED logins /\ NoWorld

-----------------------------------------------------------------------------
(* UserLogin *)

Login(c) ==
    /\ Ready(c)
    /\ \E e \in Emails, pw \in Passwords :
          request' = [request EXCEPT ![c] =
                [Idle EXCEPT !.pc = "find", !.email = e, !.password = pw]]
    /\ UNCHANGED faults /\ NoTables /\ NoWorld

\* First leaves the user empty when it fails, so that the test of user.ID answers
\* for errors as well, before lookup.Error is looked at.
FindUser(c) ==
    /\ request[c].pc = "find"
    /\ \/ /\ \E i \in Stored :
                /\ users[i].email = request[c].email
                /\ request' = [request EXCEPT ![c].pc = "check", ![c].user = i]
          /\ UNCHANGED faults
       \/ /\ \A i \in Stored : users[i].email # request[c].email
          /\ Answer(c, "not_found") /\ UNCHANGED faults
       \/ DbError /\ Answer(c, "not_found")
    /\ NoTables /\ NoWorld

\* Faulty variant: the comparison's result is not looked at.
AnyPassword(c) == TRUE

PasswordMatches(c) == users[request[c].user].password = request[c].password

DenyPassword(c) ==
    /\ request[c].pc = "check" /\ ~PasswordMatches(c)
    /\ Answer(c, "bad_credentials")
    /\ UNCHANGED faults /\ NoTables /\ NoWorld

\* Faulty variant: the expiry is set from the start of the service.
ExpiryFixed == 2 * Lifetime + MaxTime

Expiry == now + Lifetime

\* GenerateAndSignJwtToken refuses an empty secret.
SignToken(c) ==
    /\ request[c].pc = "check" /\ PasswordMatches(c)
    /\ \/ secret = None /\ Answer(c, "error") /\ UNCHANGED logins
       \/ /\ secret # None /\ Cardinality(logins) < MaxLogins
          /\ logins' = logins \cup {[id |-> request[c].user, exp |-> Expiry, secret |-> secret,
                 email |-> request[c].email, password |-> request[c].password, at |-> now]}
          /\ Answer(c, "token")
    /\ UNCHANGED <<users, nextId, created, faults>> /\ NoWorld

-----------------------------------------------------------------------------
(* AuthCheckingMiddleware *)

\* A call with a token of some login, or without one that parses.
Call(c) ==
    /\ Ready(c)
    /\ \E t \in logins \cup {None} :
          request' = [request EXCEPT ![c] = [Idle EXCEPT !.pc = "parse", !.token = t]]
    /\ UNCHANGED faults /\ NoTables /\ NoWorld

\* Faulty variant: the signature is not compared with the secret in force.
AcceptableAnySecret(t) == t # None /\ now < t.exp

\* Signature and expiry, which jwt.Parse checks and the middleware checks again.
Acceptable(t) == t # None /\ secret # None /\ t.secret = secret /\ now < t.exp

ParseToken(c) ==
    /\ request[c].pc = "parse"
    /\ IF Acceptable(request[c].token) THEN GoTo(c, "load") ELSE Answer(c, "unauthorized")
    /\ UNCHANGED faults /\ NoTables /\ NoWorld

\* The row may be gone for all the middleware knows: Find does not complain then.
LoadUser(c) ==
    /\ request[c].pc = "load"
    /\ LET id == request[c].token.id IN
       \/ /\ IF id \in Stored
             THEN request' = [request EXCEPT ![c].pc = "served", ![c].user = id]
             ELSE Answer(c, "unauthorized")
          /\ UNCHANGED faults
       \/ DbError /\ Answer(c, "error")
    /\ NoTables /\ NoWorld

-----------------------------------------------------------------------------
(* The world *)

Tick ==
    /\ now < MaxTime
    /\ now' = now + 1
    /\ UNCHANGED <<secret, restarts, request, faults>> /\ NoTables

\* The process dies with the requests in it and comes back with a SECRET.
Restart ==
    /\ restarts < MaxRestarts
    /\ restarts' = restarts + 1
    /\ request' = [c \in Clients |-> Idle]
    /\ secret' \in Secrets \cup {None}
    /\ UNCHANGED <<now, faults>> /\ NoTables

RegisterStep(c) == Register(c) \/ LookUpName(c) \/ GeocodeLocation(c) \/ CreateUser(c)

LoginStep(c) == Login(c) \/ FindUser(c) \/ DenyPassword(c) \/ SignToken(c)

CallStep(c) == Call(c) \/ ParseToken(c) \/ LoadUser(c)

Next ==
    \/ \E c \in Clients : RegisterStep(c) \/ LoginStep(c) \/ CallStep(c)
    \/ Tick
    \/ Restart

Spec == Init /\ [][Next]_vars

-----------------------------------------------------------------------------
(* Properties *)

TypeOK ==
    /\ users \in [Ids -> Row \cup {None}]
    /\ nextId \in 1..MaxId + 1
    /\ request \in [Clients ->
          [pc : {"idle", "lookup", "geocode", "create", "find", "check", "parse", "load"} \cup Answers,
           name : Names \cup {None}, padded : BOOLEAN, email : Emails \cup {None},
           password : Passwords \cup {None}, user : Ids \cup {None}, token : Token \cup {None}]]
    /\ logins \subseteq Token
    /\ secret \in Secrets \cup {None}
    /\ now \in 0..MaxTime
    /\ created \subseteq [id : Ids, row : Row]
    /\ faults \in 0..MaxFaults /\ restarts \in 0..MaxRestarts

\* However registrations of one name or address race, and whatever blanks they
\* carry, a name and an address have one account each, and whoever was answered
\* 201 has the account of that id (UserRegistration's lookup and insert).
OneAccountEach ==
    /\ \A i, j \in Stored :
          users[i].name = users[j].name \/ users[i].email = users[j].email => i = j
    /\ \A a \in created : users[a.id] = a.row

\* Who was told that the account exists is never told that its password is wrong
\* (UserLogin finds the row UserRegistration stored, and nobody else's).
CreatedCanLogin ==
    \A c \in Clients : request[c].pc = "bad_credentials" =>
        ~\E a \in created : /\ a.row.email = request[c].email
                            /\ a.row.password = request[c].password

\* Who is served as a user logged in with that user's address and password, under
\* the secret in force since the last start, less than Lifetime before the token
\* was looked at (GenerateAndSignJwtToken against AuthCheckingMiddleware).
ServedIsLoggedIn ==
    [][\A c \in Clients :
         LET t == request'[c].token IN
         /\ request'[c].pc = "load" /\ request[c].pc # "load" =>
                now - t.at < Lifetime /\ t.secret = secret
         /\ request'[c].pc = "served" =>
                LET u == users[request'[c].user] IN u.email = t.email /\ u.password = t.password]_vars

=============================================================================
