---------------------------- MODULE LocationMatch ----------------------------
(***************************************************************************)
(* How alike two place names are: normalizeLocation, stringSimilarity and  *)
(* locationMatchScore of internal/utils/geocoding.go, with the reference   *)
(* definitions they are compared with.                                     *)
(*                                                                         *)
(* A string is a sequence of characters.  A score is a number of 0..Unit   *)
(* for the code's 0..1; where Unit is a multiple of every length and       *)
(* number of tokens that occurs, the divisions below are exact.            *)
(*                                                                         *)
(* A loop of the code is a recursive function: what it has computed after  *)
(* the first i characters, rows or tokens.                                 *)
(***************************************************************************)
EXTENDS Integers, Sequences, FiniteSetsExt

CONSTANTS
    Char,
    Plain,      \* letters and digits in lower case
    Lower,      \* strings.ToLower, character by character
    Blank,
    Unit

ASSUME CharAssumption ==
    /\ Plain \subseteq Char /\ Blank \in Char \ Plain
    /\ Lower \in [Char -> Char]
    /\ \A c \in Plain \cup {Blank} : Lower[c] = c
    /\ Unit \in Nat

-----------------------------------------------------------------------------
(* normalizeLocation *)

\* Faulty variant: a leading separator leaves a blank.
SeparateAlways(acc) == IF acc.spacePending THEN Append(acc.out, Blank) ELSE acc.out

Separate(acc) ==
    IF acc.spacePending /\ acc.out # <<>> THEN Append(acc.out, Blank) ELSE acc.out

AddChar(acc, char) ==
    IF char \in Plain
    THEN [out |-> Append(Separate(acc), char), spacePending |-> FALSE]
    ELSE [acc EXCEPT !.spacePending = TRUE]

Normalizing(s) ==
    LET acc[i \in 0..Len(s)] ==
            IF i = 0 THEN [out |-> <<>>, spacePending |-> FALSE]
                     ELSE AddChar(acc[i - 1], Lower[s[i]])
    IN acc

normalizeLocation(s) == Normalizing(s)[Len(s)].out

-----------------------------------------------------------------------------
(* stringSimilarity: the edit distance, one row of the table at a time *)

FirstRow(second) == [column \in 0..Len(second) |-> column]

\* Faulty variant: a replaced character costs nothing.
FreeCost(a, b) == 0

EditCost(a, b) == IF a = b THEN 0 ELSE 1

NextRow(previous, first, second, row) ==
    LET current[column \in 0..Len(second)] ==
            IF column = 0 THEN row
            ELSE Min({ current[column - 1] + 1,
                       previous[column] + 1,
                       previous[column - 1] + EditCost(first[row], second[column]) })
    IN current

Rows(first, second) ==
    LET rows[row \in 0..Len(first)] ==
            IF row = 0 THEN FirstRow(second)
                       ELSE NextRow(rows[row - 1], first, second, row)
    IN rows

editDistance(first, second) == Rows(first, second)[Len(first)][Len(second)]

stringSimilarity(first, second) ==
    CASE first = <<>> /\ second = <<>> -> Unit
      [] (first = <<>>) # (second = <<>>) -> 0
      [] OTHER -> Unit - (Unit * editDistance(first, second))
                            \div Max({Len(first), Len(second)})

-----------------------------------------------------------------------------
(* locationMatchScore *)

AddToToken(tokens, char) ==
    IF char = Blank THEN Append(tokens, <<>>)
    ELSE [tokens EXCEPT ![Len(tokens)] = Append(@, char)]

Splitting(s) ==
    LET tokens[i \in 0..Len(s)] ==
            IF i = 0 THEN << <<>> >> ELSE AddToToken(tokens[i - 1], s[i])
    IN tokens

\* strings.Fields of a normalised string that is not empty.
Fields(s) == Splitting(s)[Len(s)]

bestTokenScore(queryToken, tokens) ==
    Max({stringSimilarity(queryToken, tokens[k]) : k \in DOMAIN tokens})

Summing(queryTokens, tokens) ==
    LET sum[i \in 0..Len(queryTokens)] ==
            IF i = 0 THEN 0 ELSE sum[i - 1] + bestTokenScore(queryTokens[i], tokens)
    IN sum

tokenScore(queryTokens, tokens) ==
    Summing(queryTokens, tokens)[Len(queryTokens)] \div Len(queryTokens)

locationMatchScore(q, c) ==
    LET query == normalizeLocation(q)
        candidate == normalizeLocation(c) IN
    CASE query = <<>> \/ candidate = <<>> -> 0
      [] query # <<>> /\ query = candidate -> Unit
      [] OTHER -> Max({ tokenScore(Fields(query), Fields(candidate)),
                        stringSimilarity(query, candidate) })

-----------------------------------------------------------------------------
(* Reference definitions *)

\* n is the canonical form of w: it maps into w in order; it has every letter and
\* digit of w, in lower case, and one blank between two that do not adjoin.
Canonical(n, w) ==
    \E at \in [DOMAIN n -> DOMAIN w] :
        /\ \A i, k \in DOMAIN n : i < k => at[i] < at[k]
        /\ \A p \in DOMAIN w : Lower[w[p]] \in Plain => \E i \in DOMAIN n : at[i] = p
        /\ \A i \in DOMAIN n :
              IF Lower[w[at[i]]] \in Plain THEN n[i] = Lower[w[at[i]]]
              ELSE /\ n[i] = Blank
                   /\ {i - 1, i + 1} \subseteq DOMAIN n
                   /\ {n[i - 1], n[i + 1]} \subseteq Plain
        /\ \A i \in DOMAIN n : i + 1 \in DOMAIN n /\ {n[i], n[i + 1]} \subseteq Plain
                                   => at[i + 1] = at[i] + 1

\* An alignment: for each pair of P the character of s at the one position stands
\* over that of t at the other, in order; the others are deleted or inserted.
InOrder(P) == \A p, q \in P : p[1] < q[1] <=> p[2] < q[2]

Alignments(s, t) == {P \in SUBSET ((DOMAIN s) \X (DOMAIN t)) : InOrder(P)}

AlignmentCost(s, t, P) ==
    Len(s) + Len(t) - 2 * Cardinality(P) + Cardinality({p \in P : s[p[1]] # t[p[2]]})

CheapestAlignment(s, t) == Min({AlignmentCost(s, t, P) : P \in Alignments(s, t)})

=============================================================================
