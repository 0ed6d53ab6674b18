------------------------------ MODULE Geocoding ------------------------------
(***************************************************************************)
(* getLATLONGfromUserLocation, internal/utils/geocoding.go: one request to *)
(* the provider, a loop that scores its results, a loop that looks for the *)
(* best two, and the decision.                                             *)
(*                                                                         *)
(* Scores are whole numbers for the code's floating point ones.  Where a   *)
(* score or a difference equals a threshold exactly, rounding may put the  *)
(* code on either side of it, and so may Decide.                           *)
(***************************************************************************)
EXTENDS LocationMatch

CONSTANTS
    Words,              \* the strings that the first two properties are about
    Queries, Labels,    \* what users ask for; how the provider names places
    MinimumScore,       \* minimumLocationMatchScore
    MinimumDifference,  \* minimumMatchScoreDifference
    MaxResults          \* bound on the results of a response

ASSUME GeocodingAssumption ==
    /\ Words \subseteq Seq(Char) /\ Queries \subseteq Seq(Char) /\ Labels \subseteq Seq(Char)
    /\ MinimumScore \in 1..Unit /\ MinimumDifference \in 1..Unit
    /\ MaxResults \in Nat

\* The scores as tables: the query is normalised once, to be sent and matched.
Normal == [q \in Queries |-> normalizeLocation(q)]

Score == [n \in {Normal[q] : q \in Queries} |->
             [l \in Labels |-> locationMatchScore(n, l)]]

VARIABLES
    pc,
    query,
    results,        \* what the provider answered
    candidates,     \* its usable results: place (the result's index) and score
    next,           \* what the loop under way looks at next
    best,           \* index of the best candidate so far
    secondBest,     \* the code's secondBestScore
    outcome

vars == <<pc, query, results, candidates, next, best, secondBest, outcome>>

\* A result of the provider: whether its coordinates parse and are in range, and
\* those of name, display name and location name that are not empty.
Result == [valid : BOOLEAN, labels : SUBSET Labels]

Responses == UNION {[1..n -> Result] : n \in 0..MaxResults}

Init ==
    /\ pc = "ask"
    /\ query \in Queries
    /\ results = <<>> /\ candidates = <<>>
    /\ next = 0 /\ best = 0 /\ secondBest = 0
    /\ outcome = "none"

Finish(o) == pc' = "done" /\ outcome' = o

NoScan == UNCHANGED <<results, candidates, next, best, secondBest>>

MaxScore(q, labels) ==
    LET scores == {Score[Normal[q]][l] : l \in labels} \cup {0}
    IN CHOOSE s \in scores : \A t \in scores : t <= s

\* Faulty variant: coordinates that do not parse are not skipped.
PlaceScoreAlways(q, result) == MaxScore(q, result.labels)

\* 0 for a result that parseGeocodingCoordinates rejects: it is skipped as well.
PlaceScore(q, result) == IF result.valid THEN MaxScore(q, result.labels) ELSE 0

EmptyQuery ==
    /\ pc = "ask" /\ Normal[query] = <<>>
    /\ Finish("empty")
    /\ NoScan /\ UNCHANGED query

\* No connection, a timeout, a status other than 200, a body that is too long or
\* does not parse.
ProviderFails ==
    /\ pc = "ask" /\ Normal[query] # <<>>
    /\ Finish("provider_error")
    /\ NoScan /\ UNCHANGED query

Respond ==
    /\ pc = "ask" /\ Normal[query] # <<>>
    /\ results' \in Responses
    /\ \/ results' = <<>> /\ Finish("no_result") /\ UNCHANGED next
       \/ results' # <<>> /\ pc' = "collect" /\ next' = 1 /\ UNCHANGED outcome
    /\ UNCHANGED <<query, candidates, best, secondBest>>

\* Faulty variant: results that score nothing stay in.
UsableAlways(score) == TRUE

Usable(score) == score > 0

\* The first loop: one result at a time becomes a candidate or is skipped.
Collect ==
    /\ pc = "collect" /\ next <= Len(results)
    /\ next' = next + 1
    /\ candidates' =
            LET score == PlaceScore(query, results[next]) IN
            IF Usable(score) THEN Append(candidates, [place |-> next, score |-> score])
                             ELSE candidates
    /\ UNCHANGED <<pc, query, results, best, secondBest, outcome>>

StartScan ==
    /\ pc = "collect" /\ next > Len(results)
    /\ \/ candidates = <<>> /\ Finish("no_result") /\ UNCHANGED <<next, best>>
       \/ candidates # <<>> /\ pc' = "scan" /\ best' = 1 /\ next' = 2 /\ UNCHANGED outcome
    /\ UNCHANGED <<query, results, candidates, secondBest>>

ScoreOf(i) == candidates[i].score

\* Faulty variant: an overtaken best candidate is forgotten.
Forgotten == secondBest

Overtaken == ScoreOf(best)

\* The second loop.
Compare ==
    /\ pc = "scan" /\ next <= Len(candidates)
    /\ next' = next + 1
    /\ \/ /\ ScoreOf(next) > ScoreOf(best)
          /\ secondBest' = Overtaken /\ best' = next
       \/ /\ ScoreOf(next) <= ScoreOf(best)
          /\ secondBest' = IF ScoreOf(next) > secondBest THEN ScoreOf(next) ELSE secondBest
          /\ UNCHANGED best
    /\ UNCHANGED <<pc, query, results, candidates, outcome>>

MayBeBelow(x, bound) == x <= bound
MayReach(x, bound) == x >= bound

Ambiguous ==
    /\ MayReach(secondBest, MinimumScore)
    /\ MayBeBelow(ScoreOf(best) - secondBest, MinimumDifference)

\* Faulty variant: only the best score counts.
UnrivalledAlways == TRUE

Unrivalled ==
    \/ MayBeBelow(secondBest, MinimumScore)
    \/ MayReach(ScoreOf(best) - secondBest, MinimumDifference)

Decide ==
    /\ pc = "scan" /\ next > Len(candidates)
    /\ \/ MayBeBelow(ScoreOf(best), MinimumScore) /\ Finish("too_different")
       \/ MayReach(ScoreOf(best), MinimumScore) /\ Ambiguous /\ Finish("ambiguous")
       \/ MayReach(ScoreOf(best), MinimumScore) /\ Unrivalled /\ Finish("found")
    /\ NoScan /\ UNCHANGED query

Next == EmptyQuery \/ ProviderFails \/ Respond \/ Collect \/ StartScan \/ Compare \/ Decide

Spec == Init /\ [][Next]_vars

-----------------------------------------------------------------------------
(* Properties *)

TypeOK ==
    /\ pc \in {"ask", "collect", "scan", "done"}
    /\ query \in Queries
    /\ results \in Responses
    /\ candidates \in Seq([place : 1..MaxResults, score : 1..Unit])
    /\ best \in 0..Len(candidates) /\ next \in 0..MaxResults + 1
    /\ secondBest \in 0..Unit
    /\ outcome \in {"none", "empty", "provider_error", "no_result",
                    "too_different", "ambiguous", "found"}

\* Before anything is asked: normalizeLocation yields the canonical form of every
\* string, and leaves that alone, for a query is normalised before it is sent and
\* once more when it is matched.
NormalIsCanonical ==
    pc = "ask" => \A w \in Words :
        LET n == normalizeLocation(w) IN
        Canonical(n, w) /\ normalizeLocation(n) = n

\* The rolling rows of stringSimilarity compute the cost of a cheapest alignment.
DistanceIsCheapest ==
    pc = "ask" => \A s, t \in {normalizeLocation(w) : w \in Words} :
        editDistance(s, t) = CheapestAlignment(s, t)

\* At every point of the scan best is a best one of the candidates seen and
\* secondBest the greatest score of the others, in whatever order they come
\* (the second loop of getLATLONGfromUserLocation).
ScanSound ==
    pc = "scan" =>
        LET others == (1..next - 1) \ {best} IN
        /\ \A i \in others : ScoreOf(i) <= ScoreOf(best) /\ ScoreOf(i) <= secondBest
        /\ secondBest = 0 \/ \E i \in others : ScoreOf(i) = secondBest

\* What the place at p of the response scores.
Worth(p) == PlaceScore(query, results[p])

\* A place of the response that stands out: valid, alike enough, and no other
\* valid one comes close (loosely or strictly, at the thresholds themselves).
Clear(p) ==
    /\ Worth(p) >= MinimumScore
    /\ \A q \in DOMAIN results \ {p} :
          Worth(q) <= MinimumScore \/ Worth(p) - Worth(q) >= MinimumDifference

StrictlyClear(p) ==
    /\ Worth(p) > MinimumScore
    /\ \A q \in DOMAIN results \ {p} :
          Worth(q) < MinimumScore \/ Worth(p) - Worth(q) > MinimumDifference

\* A place is found only if it stands out, and not missed if it does, so that the
\* order of the provider's results does not matter
\* (getLATLONGfromUserLocation from the response to its return).
FoundIsClear ==
    pc = "done" =>
        /\ outcome = "found" =>
              results[candidates[best].place].valid /\ Clear(candidates[best].place)
        /\ \A p \in DOMAIN results :
              StrictlyClear(p) => outcome = "found" /\ candidates[best].place = p

=============================================================================
