------------------------- MODULE RateLimiterProofs -------------------------
(***************************************************************************)
(* For any number of addresses, requests and limiters, any bucket and any  *)
(* idle time long enough for a bucket to fill: eviction is invisible.  The *)
(* map of limiters behaves like one bucket per address that is always      *)
(* there (TokenBuckets).                                                   *)
(***************************************************************************)
EXTENDS RateLimiter, TLAPS

\* What a request has in hand at each place.
Places ==
    \A r \in Requests :
        /\ request[r].pc \in {"idle", "allow"} => request[r].answer = "none"
        /\ request[r].pc \in {"next", "return"} => request[r].answer # "none"
        /\ request[r].pc # "allow" => request[r].lim = None
        /\ request[r].pc = "allow" => request[r].ip \in Ips /\ request[r].lim \in Limiters

\* A request keeps its limiter for MaxStall ticks at most, and nobody's visit is
\* forgotten meanwhile.
Held ==
    \A r \in Requests : request[r].pc = "allow" =>
        /\ request[r].since <= limiter[request[r].lim].seen
        /\ now - request[r].since <= MaxStall

\* Nothing lies in the future; a limiter is used soon after it was looked up.
Clocks ==
    /\ cleaner.at <= now /\ window.ticks <= now
    /\ \A l \in Limiters :
          /\ limiter[l].seen <= now /\ limiter[l].last <= now
          /\ limiter[l].last <= limiter[l].seen + MaxStall

\* HeldIsCurrent is not inductive: whether a limiter is evicted in use depends on
\* the times.
LimiterInv == TypeOK /\ HeldIsCurrent /\ Places /\ Held /\ Clocks

LEMMA InitInv == Init => LimiterInv
<1> SUFFICES ASSUME Init PROVE LimiterInv
  OBVIOUS
<1> USE LimiterAssumption DEF Init, Idle, Blank, NewWindow
<1>1. TypeOK
  BY DEF TypeOK
<1>2. HeldIsCurrent /\ Places /\ Held /\ Clocks
  BY DEF HeldIsCurrent, Places, Held, Clocks
<1> QED
  BY <1>1, <1>2 DEF LimiterInv

\* A bucket holds between nothing and Full.
LEMMA AvailableType ==
    ASSUME LimiterInv, NEW l \in Limiters
    PROVE  Available(l) \in 0..Full
BY LimiterAssumption DEF LimiterInv, TypeOK, Clocks, Available, AtMost

\* The cleanup does not evict what a request holds.
LEMMA HeldNotExpired ==
    ASSUME LimiterInv, NEW r \in Requests, request[r].pc = "allow"
    PROVE  ~Expired(request[r].lim)
<1> DEFINE l == request[r].lim
<1>1. l \in Limiters /\ limiter[l].seen \in Nat /\ request[r].since \in Nat
  BY DEF LimiterInv, TypeOK, Places
<1>2. request[r].since <= limiter[l].seen /\ now - request[r].since <= MaxStall
  BY DEF LimiterInv, Held
<1>3. cleaner.at <= now /\ cleaner.at \in Nat /\ now \in Nat
  BY DEF LimiterInv, TypeOK, Clocks
<1> QED
  BY <1>1, <1>2, <1>3, LimiterAssumption DEF Expired

\* What it evicts is full.
LEMMA ExpiredFull ==
    ASSUME LimiterInv, NEW l \in Limiters, Expired(l)
    PROVE  Available(l) = Full
<1>1. /\ limiter[l].seen \in Nat /\ limiter[l].last \in Nat /\ limiter[l].tokens \in 0..Full
      /\ cleaner.at \in Nat /\ now \in Nat
  BY DEF LimiterInv, TypeOK
<1>2. cleaner.at <= now /\ limiter[l].last <= limiter[l].seen + MaxStall
  BY DEF LimiterInv, Clocks
<1>3. now - limiter[l].last >= Full
  BY <1>1, <1>2, LimiterAssumption DEF Expired
<1> QED
  BY <1>1, <1>3, LimiterAssumption DEF Available, AtMost

-----------------------------------------------------------------------------
(* The inductive step *)

LEMMA GetLimiterInv ==
    ASSUME LimiterInv, NEW r \in Requests, NEW ip \in Ips, GetLimiter(r, ip)
    PROVE  LimiterInv'
<1> USE LimiterAssumption
<1>0. UNCHANGED <<now, cleaner, window>> /\ TypeOK /\ now \in 0..MaxTime /\ request[r].pc = "idle"
  BY DEF GetLimiter, LimiterInv, TypeOK
<1>1. ASSUME NEW l \in Limiters, l \notin InUse, visitors[ip] = None,
             visitors' = [visitors EXCEPT ![ip] = l],
             limiter' = [limiter EXCEPT ![l] = NewLimiter],
             Visit(r, ip, l)
      PROVE  LimiterInv'
  <2>1. \A i \in Ips : visitors[i] # l
    BY <1>1 DEF InUse
  <2>2. \A q \in Requests : request[q].lim # l
    BY <1>1 DEF InUse
  <2>3. TypeOK'
    BY <1>0, <1>1 DEF TypeOK, Visit, NewLimiter
  <2>4. HeldIsCurrent'
    BY <1>0, <1>1, <2>1 DEF LimiterInv, TypeOK, HeldIsCurrent, Places, Visit
  <2>5. Places'
    BY <1>0, <1>1 DEF LimiterInv, TypeOK, Places, Visit
  <2>6. Held'
    BY <1>0, <1>1, <2>2 DEF LimiterInv, TypeOK, Places, Held, Visit, NewLimiter
  <2>7. Clocks'
    BY <1>0, <1>1 DEF LimiterInv, TypeOK, Clocks, NewLimiter
  <2> QED
    BY <2>3, <2>4, <2>5, <2>6, <2>7 DEF LimiterInv
<1>2. ASSUME visitors[ip] # None, limiter' = Refreshed(visitors[ip]),
             Visit(r, ip, visitors[ip]), UNCHANGED visitors
      PROVE  LimiterInv'
  <2>1. visitors[ip] \in Limiters
    BY <1>0, <1>2 DEF TypeOK
  <2>2. TypeOK'
    BY <1>0, <1>2, <2>1 DEF TypeOK, Visit, Refreshed
  <2>3. HeldIsCurrent'
    BY <1>0, <1>2 DEF LimiterInv, TypeOK, HeldIsCurrent, Visit
  <2>4. Places'
    BY <1>0, <1>2, <2>1 DEF LimiterInv, TypeOK, Places, Visit
  <2>5. Held'
    BY <1>0, <1>2, <2>1 DEF LimiterInv, TypeOK, Places, Held, Clocks, Visit, Refreshed
  <2>6. Clocks'
    BY <1>0, <1>2, <2>1 DEF LimiterInv, TypeOK, Clocks, Refreshed
  <2> QED
    BY <2>2, <2>3, <2>4, <2>5, <2>6 DEF LimiterInv
<1> QED
  BY <1>1, <1>2 DEF GetLimiter

\* A request that has left the middleware, in whatever way.
LEMMA AnsweredType ==
    ASSUME NEW pc \in {"next", "return"}, NEW answer \in {"admitted", "limited"}
    PROVE  [Idle EXCEPT !.pc = pc, !.answer = answer] =
               [pc |-> pc, ip |-> None, lim |-> None, since |-> 0, answer |-> answer]
<1> DEFINE left == [Idle EXCEPT !.pc = pc, !.answer = answer]
<1>1. left \in [pc : {pc}, ip : {None}, lim : {None}, since : {0}, answer : {answer}]
  BY DEF Idle
<1> HIDE DEF left
<1>2. left = [pc |-> pc, ip |-> None, lim |-> None, since |-> 0, answer |-> answer]
  BY <1>1
<1> QED
  BY <1>2 DEF left

LEMMA AdmitInv ==
    ASSUME LimiterInv, NEW r \in Requests, Admit(r)
    PROVE  LimiterInv'
<1> DEFINE l == request[r].lim
<1> USE LimiterAssumption
<1>1. l \in Limiters /\ Available(l) \in 0..Full /\ Available(l) >= Cost /\ now \in 0..MaxTime
  BY AvailableType DEF LimiterInv, TypeOK, Places, Admit
<1>2. Available(l) - Cost \in 0..Full
  BY <1>1
<1>3. limiter' = [limiter EXCEPT ![l] = [limiter[l] EXCEPT !.tokens = Available(l) - Cost, !.last = now]]
  BY <1>1 DEF LimiterInv, TypeOK, Admit
<1>4. TypeOK'
  <2>1. limiter' \in [Limiters -> [seen : 0..MaxTime, tokens : 0..Full, last : 0..MaxTime]]
    BY <1>1, <1>2, <1>3 DEF LimiterInv, TypeOK
  <2>2. request' \in [Requests ->
            [pc : {"idle", "allow", "next", "return"}, ip : Ips \cup {None},
             lim : Limiters \cup {None}, since : 0..MaxTime,
             answer : {"none", "admitted", "limited"}]]
    <3>1. request' = [request EXCEPT ![r] = [pc |-> "next", ip |-> None, lim |-> None,
                                             since |-> 0, answer |-> "admitted"]]
      BY AnsweredType DEF Admit
    <3>2. 0 \in 0..MaxTime
      OBVIOUS
    <3> QED
      BY <3>1, <3>2 DEF LimiterInv, TypeOK
  <2>3. window' \in [ip : Ips, ticks : 0..MaxTime, count : Nat]
    BY DEF LimiterInv, TypeOK, Admit
  <2>4. \A q \in Requests :
            /\ request'[q].pc = "next" <=> request'[q].answer = "admitted"
            /\ request'[q].pc = "return" <=> request'[q].answer = "limited"
    BY AnsweredType DEF LimiterInv, TypeOK, Admit
  <2> QED
    BY <2>1, <2>2, <2>3, <2>4 DEF LimiterInv, TypeOK, Admit
<1>5. HeldIsCurrent' /\ Places'
  BY DEF LimiterInv, TypeOK, HeldIsCurrent, Places, Admit, Idle
<1>6. \A k \in Limiters : limiter'[k].seen = limiter[k].seen
  BY <1>3 DEF LimiterInv, TypeOK
<1>7. Held'
  BY <1>6 DEF LimiterInv, TypeOK, Held, Places, Admit, Idle
<1>8. Clocks'
  <2>1. limiter[l].seen \in Nat /\ request[r].since \in Nat
    BY <1>1 DEF LimiterInv, TypeOK
  <2>2. now <= limiter[l].seen + MaxStall
    BY <1>1, <2>1 DEF LimiterInv, Held, Admit
  <2>3. \A k \in Limiters : limiter'[k].last = IF k = l THEN now ELSE limiter[k].last
    BY <1>3 DEF LimiterInv, TypeOK
  <2>4. cleaner' = cleaner /\ now' = now /\ window'.ticks = window.ticks
    BY DEF LimiterInv, TypeOK, Admit
  <2> QED
    BY <1>1, <1>6, <2>2, <2>3, <2>4 DEF LimiterInv, Clocks
<1> QED
  BY <1>4, <1>5, <1>7, <1>8 DEF LimiterInv

LEMMA AnswerInv ==
    ASSUME LimiterInv, NEW r \in Requests, Limit(r) \/ RunHandlers(r)
    PROVE  LimiterInv'
<1> USE LimiterAssumption
<1>1. UNCHANGED <<now, visitors, limiter, cleaner, window>>
  BY DEF Limit, RunHandlers
<1>2. PICK pc \in {"idle", "return"}, answer \in {"none", "limited"} :
          /\ request' = [request EXCEPT ![r] = [pc |-> pc, ip |-> None, lim |-> None,
                                                since |-> 0, answer |-> answer]]
          /\ pc = "idle" <=> answer = "none"
  BY AnsweredType DEF Limit, AfterRefusal, RunHandlers, Idle
<1>3. TypeOK'
  BY <1>1, <1>2 DEF LimiterInv, TypeOK
<1>4. HeldIsCurrent' /\ Places' /\ Held' /\ Clocks'
  BY <1>1, <1>2 DEF LimiterInv, TypeOK, HeldIsCurrent, Places, Held, Clocks
<1> QED
  BY <1>3, <1>4 DEF LimiterInv

LEMMA CleanupInv ==
    ASSUME LimiterInv, CleanupTick \/ CleanUpNotActiveIps
    PROVE  LimiterInv'
<1> USE LimiterAssumption
<1>1. CASE CleanupTick
  BY <1>1 DEF LimiterInv, TypeOK, HeldIsCurrent, Places, Held, Clocks, CleanupTick
<1>2. CASE CleanUpNotActiveIps
  <2>1. \A r \in Requests : request[r].pc = "allow" =>
            /\ request[r].ip \in Ips /\ request[r].lim \in Limiters
            /\ ~Expired(request[r].lim) /\ visitors[request[r].ip] = request[r].lim
    BY HeldNotExpired DEF LimiterInv, Places, HeldIsCurrent
  <2>2. \A ip \in Ips : visitors'[ip] = visitors[ip] \/ visitors'[ip] = None
    BY <1>2 DEF CleanUpNotActiveIps
  <2>3. \A r \in Requests : request[r].pc = "allow" =>
            visitors'[request[r].ip] = request[r].lim /\ request[r].lim \in InUse'
    BY <1>2, <2>1 DEF CleanUpNotActiveIps, InUse
  <2>4. \A l \in Limiters : limiter'[l] = limiter[l] \/ limiter'[l] = Blank
    BY <1>2 DEF CleanUpNotActiveIps
  <2>5. \A l \in InUse' \cap Limiters : limiter'[l] = limiter[l]
    BY <1>2 DEF CleanUpNotActiveIps
  <2>6. UNCHANGED <<now, request, window>> /\ cleaner' = [pc |-> "wait", at |-> 0]
    BY <1>2 DEF CleanUpNotActiveIps
  <2>7. TypeOK'
    <3>1. visitors' \in [Ips -> Limiters \cup {None}]
      BY <1>2 DEF LimiterInv, TypeOK, CleanUpNotActiveIps
    <3>2. limiter' \in [Limiters -> [seen : 0..MaxTime, tokens : 0..Full, last : 0..MaxTime]]
      BY <1>2 DEF LimiterInv, TypeOK, CleanUpNotActiveIps, Blank
    <3> QED
      BY <2>6, <3>1, <3>2 DEF LimiterInv, TypeOK
  <2>8. HeldIsCurrent'
    BY <2>2, <2>3, <2>6 DEF LimiterInv, HeldIsCurrent
  <2>9. Places' /\ Held'
    BY <2>3, <2>5, <2>6 DEF LimiterInv, Places, Held
  <2>10. Clocks'
    BY <2>4, <2>6 DEF LimiterInv, TypeOK, Clocks, Blank
  <2> QED
    BY <2>7, <2>8, <2>9, <2>10 DEF LimiterInv
<1> QED
  BY <1>1, <1>2

LEMMA TimeInv ==
    ASSUME LimiterInv, Tick \/ \E ip \in Ips : Watch(ip)
    PROVE  LimiterInv'
<1> USE LimiterAssumption
<1>1. CASE Tick
  BY <1>1 DEF LimiterInv, TypeOK, HeldIsCurrent, Places, Held, Clocks, Tick
<1>2. CASE \E ip \in Ips : Watch(ip)
  BY <1>2 DEF LimiterInv, TypeOK, HeldIsCurrent, Places, Held, Clocks, Watch, NewWindow
<1> QED
  BY <1>1, <1>2

LEMMA NextInv == LimiterInv /\ [Next]_vars => LimiterInv'
<1> SUFFICES ASSUME LimiterInv, [Next]_vars PROVE LimiterInv'
  OBVIOUS
<1>1. CASE UNCHANGED vars
  BY <1>1 DEF vars, LimiterInv, TypeOK, HeldIsCurrent, Places, Held, Clocks
<1>2. CASE Next
  BY <1>2, GetLimiterInv, AdmitInv, AnswerInv, CleanupInv, TimeInv DEF Next, RequestStep
<1> QED
  BY <1>1, <1>2

LEMMA Inductive == Spec => []LimiterInv
  BY InitInv, NextInv, PTL DEF Spec

\* Every variable keeps its type: no bucket holds more than TokenCap, or less
\* than nothing, whatever was added lazily; whoever is inside c.Next was admitted.
THEOREM TypeCorrect == Spec => []TypeOK
<1>1. LimiterInv => TypeOK
  BY DEF LimiterInv
<1> QED
  BY <1>1, Inductive, PTL

\* Eviction never splits an address over two limiters (GetLimiter against
\* CleanUpNotActiveIps).
THEOREM HeldIsCurrentHolds == Spec => []HeldIsCurrent
<1>1. LimiterInv => HeldIsCurrent
  BY DEF LimiterInv
<1> QED
  BY <1>1, Inductive, PTL

-----------------------------------------------------------------------------
(* Refinement *)

LEMMA LevelType ==
    ASSUME LimiterInv
    PROVE  Level \in [Ips -> 0..Full]
BY AvailableType, LimiterAssumption DEF LimiterInv, TypeOK, Level

\* Looking a limiter up does not change what its bucket holds; a new one is full,
\* like the bucket of an address that is not in the map.
LEMMA GetLimiterKeeps ==
    ASSUME LimiterInv, NEW r \in Requests, NEW ip \in Ips, GetLimiter(r, ip)
    PROVE  Level' = Level /\ Reply' = Reply
<1> USE LimiterAssumption
<1>0. UNCHANGED now /\ TypeOK /\ now \in 0..MaxTime
  BY DEF GetLimiter, LimiterInv, TypeOK
<1>1. ASSUME NEW l \in Limiters, l \notin InUse, visitors[ip] = None,
             visitors' = [visitors EXCEPT ![ip] = l],
             limiter' = [limiter EXCEPT ![l] = NewLimiter]
      PROVE  \A i \in Ips : Level'[i] = Level[i]
  <2>1. \A i \in Ips : visitors[i] # l
    BY <1>1 DEF InUse
  <2>2. Available(l)' = Full
    BY <1>0, <1>1 DEF TypeOK, Available, AtMost, NewLimiter
  <2>3. \A k \in Limiters \ {l} : Available(k)' = Available(k)
    BY <1>0, <1>1 DEF TypeOK, Available
  <2>4. \A i \in Ips \ {ip} : visitors'[i] = visitors[i] /\ visitors[i] \in (Limiters \ {l}) \cup {None}
    BY <1>0, <1>1, <2>1 DEF TypeOK
  <2> QED
    BY <1>0, <1>1, <2>2, <2>3, <2>4 DEF TypeOK, Level
<1>2. ASSUME visitors[ip] # None, limiter' = Refreshed(visitors[ip]), UNCHANGED visitors
      PROVE  \A i \in Ips : Level'[i] = Level[i]
  <2>1. \A k \in Limiters : Available(k)' = Available(k)
    BY <1>0, <1>2 DEF TypeOK, Available, Refreshed
  <2> QED
    BY <1>0, <1>2, <2>1 DEF TypeOK, Level
<1>3. \A i \in Ips : Level'[i] = Level[i]
  BY <1>1, <1>2 DEF GetLimiter
<1>4. \A q \in Requests : request'[q].answer = request[q].answer
  BY <1>0 DEF GetLimiter, Visit, LimiterInv, TypeOK, Places
<1> QED
  BY <1>3, <1>4 DEF Level, Reply

\* Taking a token from the limiter in hand takes it from the address' bucket.
LEMMA AdmitTakes ==
    ASSUME LimiterInv, NEW r \in Requests, Admit(r)
    PROVE  Buckets!Admit(r, request[r].ip) /\ request[r].ip \in Ips
<1>1. PICK ip \in Ips, l \in Limiters :
          /\ ip = request[r].ip /\ l = request[r].lim
          /\ visitors[ip] = l /\ l # None /\ request[r].answer = "none"
  BY LimiterAssumption DEF LimiterInv, Places, HeldIsCurrent, Admit
<1>2. Level[ip] = Available(l) /\ Available(l) >= Cost /\ Available(l) \in 0..Full
  BY <1>1, AvailableType DEF Level, Admit
<1>3. limiter' = [limiter EXCEPT ![l] = [limiter[l] EXCEPT !.tokens = Available(l) - Cost, !.last = now]]
  BY <1>1 DEF LimiterInv, TypeOK, Admit
<1>4. Available(l)' = Available(l) - Cost
  BY <1>1, <1>2, <1>3, LimiterAssumption DEF LimiterInv, TypeOK, Available, AtMost, Admit
<1>5. \A k \in Limiters \ {l} : Available(k)' = Available(k)
  BY <1>3 DEF LimiterInv, TypeOK, Available, Admit
<1>6. \A i \in Ips \ {ip} : visitors[i] \in (Limiters \ {l}) \cup {None}
  BY <1>1 DEF LimiterInv, TypeOK, HeldIsCurrent
<1>7. \A i \in Ips : Level'[i] = IF i = ip THEN Level[i] - Cost ELSE Level[i]
  BY <1>1, <1>2, <1>4, <1>5, <1>6 DEF Level, Admit
<1>8. Level' = [Level EXCEPT ![ip] = @ - Cost]
  BY <1>7 DEF Level
<1>9. Reply[r] = "none" /\ Reply' = [Reply EXCEPT ![r] = "admitted"]
  <2>1. \A q \in Requests : request'[q].answer = IF q = r THEN "admitted" ELSE request[q].answer
    BY DEF LimiterInv, TypeOK, Admit, Idle
  <2> QED
    BY <1>1, <2>1 DEF Reply
<1> QED
  BY <1>1, <1>2, <1>8, <1>9 DEF Buckets!Admit, Admit

LEMMA LimitLimits ==
    ASSUME LimiterInv, NEW r \in Requests, Limit(r)
    PROVE  Buckets!Limit(r, request[r].ip) /\ request[r].ip \in Ips
<1>1. /\ request[r].ip \in Ips /\ visitors[request[r].ip] = request[r].lim
      /\ request[r].lim \in Limiters /\ request[r].lim # None /\ request[r].answer = "none"
  BY LimiterAssumption DEF LimiterInv, Places, HeldIsCurrent, Limit
<1>2. Level[request[r].ip] < Cost
  BY <1>1 DEF Level, Limit
<1>3. Level' = Level /\ window' = window
  BY DEF Limit, Level, Available
<1>4. \A q \in Requests : request'[q].answer = IF q = r THEN "limited" ELSE request[q].answer
  BY DEF LimiterInv, TypeOK, Limit, Idle
<1>5. Reply[r] = "none" /\ Reply' = [Reply EXCEPT ![r] = "limited"]
  BY <1>1, <1>4 DEF Reply
<1> QED
  BY <1>1, <1>2, <1>3, <1>5 DEF Buckets!Limit

LEMMA HandlersFinish ==
    ASSUME LimiterInv, NEW r \in Requests, RunHandlers(r)
    PROVE  Buckets!Finish(r)
<1>1. Level' = Level /\ window' = window
  BY DEF RunHandlers, Level, Available
<1>2. \A q \in Requests : request'[q].answer = IF q = r THEN "none" ELSE request[q].answer
  BY DEF LimiterInv, TypeOK, RunHandlers, Idle
<1>3. Reply[r] # "none" /\ Reply' = [Reply EXCEPT ![r] = "none"]
  BY <1>2 DEF Reply, LimiterInv, Places, RunHandlers
<1> QED
  BY <1>1, <1>3 DEF Buckets!Finish

\* Eviction is invisible: what goes is full, as is what will come in its place.
LEMMA CleanupKeeps ==
    ASSUME LimiterInv, CleanupTick \/ CleanUpNotActiveIps
    PROVE  UNCHANGED <<Level, Reply, window>>
<1>1. CASE CleanupTick
  BY <1>1 DEF CleanupTick, Level, Available, Reply
<1>2. CASE CleanUpNotActiveIps
  <2>1. \A ip \in Ips : visitors[ip] \in Limiters \cup {None}
    BY DEF LimiterInv, TypeOK
  <2>2. \A ip \in Ips : visitors[ip] # None /\ Expired(visitors[ip]) =>
            visitors'[ip] = None /\ Available(visitors[ip]) = Full
    BY <1>2, <2>1, ExpiredFull DEF CleanUpNotActiveIps
  <2>3. \A ip \in Ips : visitors[ip] # None /\ ~Expired(visitors[ip]) =>
            visitors'[ip] = visitors[ip] /\ limiter'[visitors[ip]] = limiter[visitors[ip]]
    BY <1>2, <2>1 DEF CleanUpNotActiveIps, InUse
  <2>4. \A ip \in Ips : visitors[ip] = None => visitors'[ip] = None
    BY <1>2 DEF CleanUpNotActiveIps
  <2>5. \A ip \in Ips : Level'[ip] = Level[ip]
    BY <1>2, <2>2, <2>3, <2>4 DEF Level, Available, CleanUpNotActiveIps
  <2> QED
    BY <1>2, <2>5 DEF Level, Reply, CleanUpNotActiveIps
<1> QED
  BY <1>1, <1>2

\* Lazy refills add up to a tick's refill of every bucket.
LEMMA TickTicks ==
    ASSUME LimiterInv, Tick
    PROVE  Buckets!Tick
<1> USE LimiterAssumption
<1>1. \A l \in Limiters : Available(l)' = Buckets!AtMost(Full, Available(l) + 1)
  BY DEF LimiterInv, TypeOK, Clocks, Available, AtMost, Buckets!AtMost, Tick
<1>2. \A ip \in Ips : visitors[ip] \in Limiters \cup {None}
  BY DEF LimiterInv, TypeOK
<1>3. \A ip \in Ips : Level'[ip] = Buckets!AtMost(Full, Level[ip] + 1)
  <2> TAKE ip \in Ips
  <2>1. CASE visitors[ip] = None
    BY <2>1 DEF Level, Buckets!AtMost, Tick
  <2>2. CASE visitors[ip] # None
    BY <1>1, <1>2, <2>2 DEF Level, Tick
  <2> QED
    BY <2>1, <2>2
<1>4. Level' = [ip \in Ips |-> Buckets!AtMost(Full, Level[ip] + 1)]
  BY <1>3 DEF Level
<1> QED
  BY <1>4 DEF Buckets!Tick, Reply, Tick

LEMMA StepRefines == LimiterInv /\ [Next]_vars => [Buckets!Next]_(Buckets!bucketVars)
<1> SUFFICES ASSUME LimiterInv, [Next]_vars
             PROVE  Buckets!Next \/ UNCHANGED <<Level, Reply, window>>
  BY DEF Buckets!bucketVars
<1>1. CASE UNCHANGED vars
  BY <1>1 DEF vars, Level, Available, Reply
<1>2. ASSUME NEW r \in Requests, RequestStep(r)
      PROVE  Buckets!Next \/ UNCHANGED <<Level, Reply, window>>
  <2>1. ASSUME NEW ip \in Ips, GetLimiter(r, ip) PROVE UNCHANGED <<Level, Reply, window>>
    BY <2>1, GetLimiterKeeps DEF GetLimiter
  <2>2. CASE Admit(r)
    BY <2>2, AdmitTakes DEF Buckets!Next
  <2>3. CASE Limit(r)
    BY <2>3, LimitLimits DEF Buckets!Next
  <2>4. CASE RunHandlers(r)
    BY <2>4, HandlersFinish DEF Buckets!Next
  <2> QED
    BY <1>2, <2>1, <2>2, <2>3, <2>4 DEF RequestStep
<1>3. CASE CleanupTick \/ CleanUpNotActiveIps
  BY <1>3, CleanupKeeps
<1>4. CASE Tick
  BY <1>4, TickTicks DEF Buckets!Next
<1>5. ASSUME NEW ip \in Ips, Watch(ip) PROVE Buckets!Next
  <2>1. UNCHANGED <<Level, Reply>>
    BY <1>5 DEF Watch, Level, Available, Reply
  <2> QED
    BY <1>5, <2>1 DEF Watch, NewWindow, Buckets!Watch, Buckets!NewWindow, Buckets!Next
<1> QED
  BY <1>1, <1>2, <1>3, <1>4, <1>5 DEF Next

LEMMA InitRefines == Init => Buckets!Init
BY DEF Init, Idle, NewWindow, Level, Reply, Buckets!Init, Buckets!NewWindow

\* The map of limiters with lazy refills and eviction implements one bucket per
\* address that is never removed (ratelimiterMiddleware.go as a whole).
THEOREM FollowsBucketsHolds == Spec => FollowsBuckets
BY InitRefines, StepRefines, Inductive, PTL DEF Spec, FollowsBuckets, Buckets!Spec

-----------------------------------------------------------------------------
(* The budget *)

\* What was admitted and what is left come from a full bucket and its refill.
Budget == window.count * Cost + Level[window.ip] <= Full + window.ticks

LEMMA BudgetStep ==
    ASSUME LimiterInv, Budget, [Buckets!Next]_(Buckets!bucketVars)
    PROVE  Budget'
<1> USE LimiterAssumption
<1>1. /\ window.ip \in Ips /\ window.ticks \in Nat /\ window.count \in Nat
      /\ Level \in [Ips -> 0..Full]
  BY LevelType DEF LimiterInv, TypeOK
<1>2. \A n \in Nat : n * Cost \in Nat /\ (n + 1) * Cost = n * Cost + Cost /\ 0 * Cost = 0
  BY SMT
<1>3. ASSUME NEW r \in Requests, NEW ip \in Ips, Buckets!Admit(r, ip) PROVE Budget'
  <2>1. CASE window.ip = ip
    <3>1. window' = [window EXCEPT !.count = window.count + 1] /\ Level'[ip] = Level[ip] - Cost
      BY <1>1, <1>3, <2>1 DEF Buckets!Admit
    <3>2. window'.ip = ip /\ window'.ticks = window.ticks /\ window'.count = window.count + 1
      BY <2>1, <3>1 DEF LimiterInv, TypeOK
    <3> QED
      BY <1>1, <1>2, <2>1, <3>1, <3>2 DEF Budget
  <2>2. CASE window.ip # ip
    BY <1>1, <1>3, <2>2 DEF Buckets!Admit, Budget
  <2> QED
    BY <2>1, <2>2
<1>4. ASSUME Buckets!Tick PROVE Budget'
  <2>1. Level'[window.ip] <= Level[window.ip] + 1
    BY <1>1, <1>4 DEF Buckets!Tick, Buckets!AtMost
  <2>2. window'.ip = window.ip /\ window'.ticks = window.ticks + 1 /\ window'.count = window.count
    BY <1>4 DEF Buckets!Tick, LimiterInv, TypeOK
  <2>3. Level'[window.ip] \in Int
    BY <1>1, <1>4 DEF Buckets!Tick, Buckets!AtMost
  <2> QED
    BY <1>1, <1>2, <2>1, <2>2, <2>3 DEF Budget
<1>5. ASSUME NEW ip \in Ips, Buckets!Watch(ip) PROVE Budget'
  BY <1>1, <1>2, <1>5 DEF Buckets!Watch, Buckets!NewWindow, Budget
<1>6. ASSUME UNCHANGED <<Level, window>> PROVE Budget'
  BY <1>6 DEF Budget
<1> QED
  BY <1>3, <1>4, <1>5, <1>6
     DEF Buckets!Next, Buckets!Limit, Buckets!Finish, Buckets!bucketVars

\* Over any stretch of time an address gets at most TokenCap requests and what
\* NoOfEventsPerSec refills, also across an eviction.
THEOREM WithinBudgetHolds == Spec => []WithinBudget
<1>1. Init => Budget
  <2> SUFFICES ASSUME Init PROVE Budget
    OBVIOUS
  <2>1. window.ip \in Ips /\ window.count = 0 /\ window.ticks = 0 /\ Level[window.ip] = Full
    BY DEF Init, NewWindow, Level
  <2> QED
    BY <2>1, LimiterAssumption DEF Budget
<1>2. LimiterInv /\ Budget => WithinBudget
  <2> SUFFICES ASSUME LimiterInv, Budget PROVE WithinBudget
    OBVIOUS
  <2>1. window.count \in Nat /\ window.ticks \in Nat /\ Level[window.ip] \in 0..Full
    BY LevelType DEF LimiterInv, TypeOK
  <2>2. window.count * Cost \in Nat
    BY <2>1, LimiterAssumption
  <2> QED
    BY <2>1, <2>2, LimiterAssumption DEF Budget, WithinBudget, Buckets!WithinBudget
<1>3. LimiterInv /\ [Next]_vars /\ Budget => Budget'
  BY StepRefines, BudgetStep
<1> QED
  BY <1>1, <1>2, <1>3, Inductive, PTL DEF Spec

=============================================================================
