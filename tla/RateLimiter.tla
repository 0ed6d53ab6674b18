----------------------------- MODULE RateLimiter -----------------------------
(***************************************************************************)
(* The per-IP rate limiter, internal/api/auth/ratelimiterMiddleware.go: a  *)
(* map from addresses to limiters, filled by the requests and emptied of   *)
(* idle addresses by the cleanup goroutine.  The limiters themselves are   *)
(* golang.org/x/time/rate, modelled as lazily refilled buckets.            *)
(*                                                                         *)
(* Units and ticks are those of TokenBuckets.  A request that has looked   *)
(* up its limiter calls Allow within MaxStall ticks: inactiveAfter is      *)
(* seven days, and nothing but the scheduler lies between the two calls.   *)
(***************************************************************************)
EXTENDS Integers

CONSTANTS
    Ips, Requests, Limiters, None,
    Full,           \* TokenCap, in units
    Cost,           \* one token, in units
    InactiveAfter,  \* inactiveAfter, in ticks
    MaxStall,       \* bound on the time between GetLimiter and Allow
    MaxTime         \* bound on the clock

ASSUME LimiterAssumption ==
    /\ Cost \in Nat \ {0} /\ Full \in Nat /\ Full >= Cost
    /\ InactiveAfter \in Nat /\ MaxStall \in Nat /\ MaxTime \in Nat
    /\ InactiveAfter - MaxStall >= Full
    /\ None \notin Limiters

VARIABLES
    now,        \* the clock
    visitors,   \* the map Visitors: an address' limiter, or None
    limiter,    \* per limiter: LastSeen and the bucket (tokens at time last)
    request,    \* per request: where it is, its address, limiter and answer
    cleaner,    \* the cleanup goroutine and the time it has read
    window      \* ghost: the admissions of one address an observer counted

vars == <<now, visitors, limiter, request, cleaner, window>>

\* A request that is not in the middleware.
Idle == [pc |-> "idle", ip |-> None, lim |-> None, since |-> 0, answer |-> "none"]

NewWindow(ip) == [ip |-> ip, ticks |-> 0, count |-> 0]

\* rate.NewLimiter: a full bucket.
NewLimiter == [seen |-> now, tokens |-> Full, last |-> now]

Blank == [seen |-> 0, tokens |-> Full, last |-> 0]

Init ==
    /\ now = 0
    /\ visitors = [ip \in Ips |-> None]
    /\ limiter = [l \in Limiters |-> Blank]
    /\ request = [r \in Requests |-> Idle]
    /\ cleaner = [pc |-> "wait", at |-> 0]
    /\ \E ip \in Ips : window = NewWindow(ip)

-----------------------------------------------------------------------------
(* Requests *)

\* Faulty variant: limiters are reused while the map still holds them.
InUseHeldOnly == {request[r].lim : r \in Requests}

\* The limiters something still points to.
InUse == {visitors[ip] : ip \in Ips} \cup {request[r].lim : r \in Requests}

Visit(r, ip, l) ==
    request' = [request EXCEPT ![r] = [pc |-> "allow", ip |-> ip, lim |-> l,
                                       since |-> now, answer |-> "none"]]

\* Faulty variant: a returning visitor does not refresh LastSeen.
NotRefreshed(l) == limiter

Refreshed(l) == [limiter EXCEPT ![l].seen = now]

\* GetLimiter runs under the mutex: a first visit stores a new limiter, a later
\* one finds it; both set LastSeen.
GetLimiter(r, ip) ==
    /\ request[r].pc = "idle"
    /\ \/ /\ visitors[ip] = None
          /\ \E l \in Limiters \ InUse :
                /\ visitors' = [visitors EXCEPT ![ip] = l]
                /\ limiter' = [limiter EXCEPT ![l] = NewLimiter]
                /\ Visit(r, ip, l)
       \/ /\ visitors[ip] # None
          /\ limiter' = Refreshed(visitors[ip])
          /\ Visit(r, ip, visitors[ip])
          /\ UNCHANGED visitors
    /\ UNCHANGED <<now, cleaner, window>>

AtMost(bound, x) == IF x > bound THEN bound ELSE x

\* rate.Limiter.advance: what the bucket holds by now.
Available(l) ==
    AtMost(Full, limiter[l].tokens + (now - limiter[l].last))

\* Allow takes a token from the limiter the request looked up before, whatever
\* the map holds by now.
Admit(r) ==
    /\ request[r].pc = "allow" /\ Available(request[r].lim) >= Cost
    /\ limiter' = [limiter EXCEPT ![request[r].lim].tokens = Available(request[r].lim) - Cost,
                                  ![request[r].lim].last = now]
    /\ request' = [request EXCEPT ![r] = [Idle EXCEPT !.pc = "next", !.answer = "admitted"]]
    /\ window' = IF window.ip = request[r].ip THEN [window EXCEPT !.count = @ + 1] ELSE window
    /\ UNCHANGED <<now, visitors, cleaner>>

\* Faulty variant: the return behind the answer is forgotten.
AfterRefusalGoOn == "next"

AfterRefusal == "return"

\* Without a token the middleware writes 429 and returns.
Limit(r) ==
    /\ request[r].pc = "allow" /\ Available(request[r].lim) < Cost
    /\ request' = [request EXCEPT ![r] = [Idle EXCEPT !.pc = AfterRefusal, !.answer = "limited"]]
    /\ UNCHANGED <<now, visitors, limiter, cleaner, window>>

\* gin runs the rest of the chain: inside c.Next, or once the middleware has
\* returned, for nothing called Abort.  Then the request is over.
RunHandlers(r) ==
    /\ request[r].pc \in {"next", "return"}
    /\ request' = [request EXCEPT ![r] = Idle]
    /\ UNCHANGED <<now, visitors, limiter, cleaner, window>>

-----------------------------------------------------------------------------
(* Cleanup *)

\* The ticker fires and CleanUpNotActiveIps reads the clock, before the mutex.
\* It need not fire again: a cancelled context ends the loop here.
CleanupTick ==
    /\ cleaner.pc = "wait"
    /\ cleaner' = [pc |-> "evict", at |-> now]
    /\ UNCHANGED <<now, visitors, limiter, request, window>>

\* Faulty variant: a visitor is idle from half the time on.
ExpiredEarly(l) == cleaner.at - limiter[l].seen >= InactiveAfter \div 2

Expired(l) == cleaner.at - limiter[l].seen >= InactiveAfter

CleanUpNotActiveIps ==
    /\ cleaner.pc = "evict"
    /\ cleaner' = [pc |-> "wait", at |-> 0]
    /\ visitors' = [ip \in Ips |->
            IF visitors[ip] # None /\ Expired(visitors[ip]) THEN None ELSE visitors[ip]]
    /\ UNCHANGED <<now, request, window>>
    \* What nothing points to any more is garbage.
    /\ limiter' = [l \in Limiters |-> IF l \in InUse' THEN limiter[l] ELSE Blank]

-----------------------------------------------------------------------------
(* Time and the observer *)

Tick ==
    /\ now < MaxTime
    /\ \A r \in Requests : request[r].pc = "allow" => now - request[r].since < MaxStall
    /\ now' = now + 1
    /\ window' = [window EXCEPT !.ticks = @ + 1]
    /\ UNCHANGED <<visitors, limiter, request, cleaner>>

Watch(ip) ==
    /\ window' = NewWindow(ip)
    /\ UNCHANGED <<now, visitors, limiter, request, cleaner>>

RequestStep(r) ==
    \/ \E ip \in Ips : GetLimiter(r, ip)
    \/ Admit(r)
    \/ Limit(r)
    \/ RunHandlers(r)

Next ==
    \/ \E r \in Requests : RequestStep(r)
    \/ CleanupTick
    \/ CleanUpNotActiveIps
    \/ Tick
    \/ \E ip \in Ips : Watch(ip)

Spec == Init /\ [][Next]_vars

-----------------------------------------------------------------------------
(* Properties *)

\* Every variable keeps its type; inside c.Next there are the admitted requests
\* and behind the middleware's return the refused ones.
TypeOK ==
    /\ now \in 0..MaxTime
    /\ visitors \in [Ips -> Limiters \cup {None}]
    /\ limiter \in [Limiters -> [seen : 0..MaxTime, tokens : 0..Full, last : 0..MaxTime]]
    /\ request \in [Requests ->
            [pc : {"idle", "allow", "next", "return"}, ip : Ips \cup {None},
             lim : Limiters \cup {None}, since : 0..MaxTime,
             answer : {"none", "admitted", "limited"}]]
    /\ \A r \in Requests :
          /\ request[r].pc = "next" <=> request[r].answer = "admitted"
          /\ request[r].pc = "return" <=> request[r].answer = "limited"
    /\ cleaner \in [pc : {"wait", "evict"}, at : 0..MaxTime]
    /\ window \in [ip : Ips, ticks : 0..MaxTime, count : Nat]

\* A request takes its token from the bucket other requests of its address use:
\* eviction never splits an address over two limiters, nor do two addresses
\* share one (GetLimiter against CleanUpNotActiveIps).
HeldIsCurrent ==
    /\ \A r \in Requests : request[r].pc = "allow" => visitors[request[r].ip] = request[r].lim
    /\ \A i, j \in Ips : visitors[i] # None /\ visitors[i] = visitors[j] => i = j

\* A request that was answered 429 is not also handled
\* (RateLimitingMiddelware's return after writing the answer).
LimitedNotHandled ==
    [][\A r \in Requests : request[r].answer = "limited" => ~RunHandlers(r)]_vars

\* What the map stands for: an address that is not in it has a full bucket.
Level == [ip \in Ips |-> IF visitors[ip] = None THEN Full ELSE Available(visitors[ip])]

Reply == [r \in Requests |-> request[r].answer]

Buckets == INSTANCE TokenBuckets WITH level <- Level, reply <- Reply

\* The limiter with its map, lazy refills and eviction behaves like one bucket
\* per address that is never removed (ratelimiterMiddleware.go as a whole).
FollowsBuckets == Buckets!Spec

\* Any stretch of time admits at most a full bucket and its refill, also across
\* an eviction and a new limiter for the address.
WithinBudget == Buckets!WithinBudget

=============================================================================
