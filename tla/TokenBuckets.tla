---------------------------- MODULE TokenBuckets ----------------------------
(***************************************************************************)
(* What the per-IP rate limiter promises: every address has one token      *)
(* bucket that is always there, starts full, and refills with time.  A     *)
(* request is admitted if its bucket holds a token and limited if not.     *)
(*                                                                         *)
(* Levels are in units of which a token is Cost, and a tick is the time in *)
(* which one unit is refilled: where Cost is more than 1, a bucket may     *)
(* hold a part of a token.                                                 *)
(***************************************************************************)
EXTENDS Integers

CONSTANTS Ips, Requests, Full, Cost

VARIABLES
    level,      \* what the bucket of an address holds
    reply,      \* "none", "admitted" or "limited", for each request in progress
    window      \* what an observer of one address has counted, since when

bucketVars == <<level, reply, window>>

AtMost(bound, x) == IF x > bound THEN bound ELSE x

NewWindow(ip) == [ip |-> ip, ticks |-> 0, count |-> 0]

Init ==
    /\ level = [ip \in Ips |-> Full]
    /\ reply = [r \in Requests |-> "none"]
    /\ \E ip \in Ips : window = NewWindow(ip)

Admit(r, ip) ==
    /\ reply[r] = "none" /\ level[ip] >= Cost
    /\ reply' = [reply EXCEPT ![r] = "admitted"]
    /\ level' = [level EXCEPT ![ip] = @ - Cost]
    /\ window' = IF window.ip = ip THEN [window EXCEPT !.count = @ + 1] ELSE window

Limit(r, ip) ==
    /\ reply[r] = "none" /\ level[ip] < Cost
    /\ reply' = [reply EXCEPT ![r] = "limited"]
    /\ UNCHANGED <<level, window>>

Finish(r) ==
    /\ reply[r] # "none"
    /\ reply' = [reply EXCEPT ![r] = "none"]
    /\ UNCHANGED <<level, window>>

Tick ==
    /\ level' = [ip \in Ips |-> AtMost(Full, level[ip] + 1)]
    /\ window' = [window EXCEPT !.ticks = @ + 1]
    /\ UNCHANGED reply

\* The observer starts to count afresh, for any address, whenever it likes.
Watch(ip) ==
    /\ window' = NewWindow(ip)
    /\ UNCHANGED <<level, reply>>

Next ==
    \/ \E r \in Requests, ip \in Ips : Admit(r, ip) \/ Limit(r, ip)
    \/ \E r \in Requests : Finish(r)
    \/ \E ip \in Ips : Watch(ip)
    \/ Tick

Spec == Init /\ [][Next]_bucketVars

-----------------------------------------------------------------------------
\* Over any stretch of time an address is admitted at most a full bucket and
\* what was refilled meanwhile (the rate and burst of NewRateLimiterMiddleware).
WithinBudget == window.count * Cost <= Full + window.ticks

=============================================================================
