-------------------------- MODULE GeocodingProofs --------------------------
(***************************************************************************)
(* For strings over any characters, of any length: normalizeLocation       *)
(* yields the canonical form, stringSimilarity the cost of a cheapest      *)
(* alignment, and every score lies between none and full.  With these      *)
(* scores, for any labels, thresholds and number of results: the two loops *)
(* keep the best two candidates, and whether a place is found depends on   *)
(* what the provider answered, not on the order of it.                     *)
(*                                                                         *)
(* An induction over a string is one over its positions, by a least        *)
(* counterexample.                                                         *)
(***************************************************************************)
EXTENDS Geocoding, WellFoundedInduction, FiniteSetTheorems, TLAPS

-----------------------------------------------------------------------------
(* Induction and loops *)

\* Induction up to n.
LEMMA UpTo ==
    ASSUME NEW n \in Nat, NEW S, 0 \in S,
           \A i \in 0..n : i < n /\ i \in S => i + 1 \in S
    PROVE  \A i \in 0..n : i \in S
<1> DEFINE bad == (0..n) \ S
<1>1. SUFFICES ASSUME bad # {} PROVE FALSE
  OBVIOUS
<1>2. bad \subseteq Nat
  OBVIOUS
<1>3. PICK b \in bad : \A a \in bad : ~(<<a, b>> \in OpToRel(<, Nat))
  <2> HIDE DEF bad
  <2> QED
    BY <1>1, <1>2, NatLessThanWellFounded, WFMin
<1>4. \A a \in bad : ~(a < b)
  <2> HIDE DEF bad
  <2> QED
    BY <1>2, <1>3 DEF OpToRel
<1>5. b \in 1..n /\ b - 1 \in 0..n /\ b - 1 < b /\ b - 1 < n /\ (b - 1) + 1 = b
  OBVIOUS
<1> QED
  BY <1>4, <1>5

\* Every step of a loop over 1..n stays in S.
Stays(n, S, step) == \A i \in 1..n : \A a \in S : step[i][a] \in S

\* f tells what the loop has computed after each step.
Run(n, S, first, step, f) ==
    f[0] = first /\ \A i \in 1..n : f[i - 1] \in S => f[i] = step[i][f[i - 1]]

\* Such an f exists, and is in S throughout.
LEMMA Loop ==
    ASSUME NEW n \in Nat, NEW S, NEW first \in S, NEW step, Stays(n, S, step)
    PROVE  /\ \E f \in [0..n -> S] : Run(n, S, first, step, f)
           /\ \A f : Run(n, S, first, step, f) => \A i \in 0..n : f[i] \in S
<1> USE DEF Stays
<1> DEFINE Runs(k, f) == /\ f \in [0..k -> S] /\ f[0] = first
                         /\ \A i \in 1..k : f[i] = step[i][f[i - 1]]
           reached == {k \in 0..n : \E f : Runs(k, f)}
<1>1. 0 \in reached
  <2> DEFINE f == [i \in 0..0 |-> first]
  <2>1. Runs(0, f)
    OBVIOUS
  <2> HIDE DEF Runs
  <2> QED
    BY <2>1
<1>2. ASSUME NEW k \in 0..n, k < n, k \in reached PROVE k + 1 \in reached
  <2>1. PICK f : Runs(k, f)
    BY <1>2
  <2> DEFINE g == [i \in 0..k + 1 |-> IF i = k + 1 THEN step[k + 1][f[k]] ELSE f[i]]
  <2>2. k \in 0..k /\ k + 1 \in 1..n /\ k + 1 \in 0..n /\ k + 1 \in 0..k + 1 /\ k # k + 1
    BY <1>2
  <2>3. f[k] \in S /\ step[k + 1][f[k]] \in S
    BY <2>1, <2>2
  <2>4. \A i \in 0..k + 1 : i # k + 1 => i \in 0..k
    BY <1>2
  <2>5. g \in [0..k + 1 -> S]
    BY <2>1, <2>3, <2>4
  <2>6. g[0] = first
    BY <1>2, <2>1
  <2>7. ASSUME NEW i \in 1..k + 1 PROVE g[i] = step[i][g[i - 1]]
    <3>1. i \in 0..k + 1 /\ i - 1 \in 0..k + 1 /\ i - 1 # k + 1 /\ (i = k + 1 \/ i \in 1..k)
      BY <1>2
    <3>2. i = k + 1 => i - 1 = k
      BY <1>2
    <3> QED
      BY <2>1, <3>1, <3>2
  <2>8. Runs(k + 1, g)
    <3> HIDE DEF g
    <3> QED
      BY <2>5, <2>6, <2>7
  <2> HIDE DEF Runs, g
  <2> QED
    BY <2>2, <2>8
<1>3. n \in reached
  <2> HIDE DEF reached
  <2>1. \A i \in 0..n : i \in reached
    BY <1>1, <1>2, UpTo
  <2> QED
    BY <2>1
<1>4. \E f \in [0..n -> S] : Run(n, S, first, step, f)
  <2>1. PICK f : Runs(n, f)
    BY <1>3
  <2> QED
    BY <2>1 DEF Run
<1>5. ASSUME NEW f, Run(n, S, first, step, f)
      PROVE  \A i \in 0..n : f[i] \in S
  <2> DEFINE inside == {i \in 0..n : f[i] \in S}
  <2>1. 0 \in inside
    BY <1>5 DEF Run
  <2>2. ASSUME NEW i \in 0..n, i < n, i \in inside PROVE i + 1 \in inside
    <3>1. i + 1 \in 1..n /\ (i + 1) - 1 = i /\ i + 1 \in 0..n /\ f[i] \in S
      BY <2>2
    <3>2. f[i + 1] = step[i + 1][f[i]]
      BY <1>5, <3>1 DEF Run
    <3>3. f[i + 1] \in S
      BY <3>1, <3>2
    <3> QED
      BY <3>1, <3>3
  <2>3. \A i \in 0..n : i \in inside
    <3> HIDE DEF inside
    <3> QED
      BY <2>1, <2>2, UpTo
  <2> QED
    BY <2>3
<1> QED
  BY <1>4, <1>5

-----------------------------------------------------------------------------
(* What the loops compute *)

\* normalizeLocation, one character at a time.
LEMMA NormalizingStep ==
    ASSUME NEW s \in Seq(Char)
    PROVE  /\ Normalizing(s)[0] = [out |-> <<>>, spacePending |-> FALSE]
           /\ \A i \in 1..Len(s) :
                 Normalizing(s)[i] = AddChar(Normalizing(s)[i - 1], Lower[s[i]])
           /\ \A i \in 0..Len(s) : Normalizing(s)[i] \in [out : Seq(Char), spacePending : BOOLEAN]
<1> DEFINE Acc   == [out : Seq(Char), spacePending : BOOLEAN]
           first == [out |-> <<>>, spacePending |-> FALSE]
           step  == [i \in 1..Len(s) |-> [acc \in Acc |-> AddChar(acc, Lower[s[i]])]]
           n     == Len(s)
<1>1. n \in Nat /\ first \in Acc /\ \A i \in 1..n : Lower[s[i]] \in Char
  BY CharAssumption
<1>2. ASSUME NEW acc \in Acc, NEW c \in Char PROVE AddChar(acc, c) \in Acc
  <2>1. Separate(acc) \in Seq(Char)
    BY CharAssumption DEF Separate
  <2>2. [acc EXCEPT !.spacePending = TRUE] \in Acc
    OBVIOUS
  <2>3. [out |-> Append(Separate(acc), c), spacePending |-> FALSE] \in Acc
    BY <2>1
  <2> HIDE DEF Acc
  <2> QED
    BY <2>2, <2>3 DEF AddChar
<1>3. Stays(n, Acc, step)
  <2> HIDE DEF Acc
  <2> QED
    BY <1>1, <1>2 DEF Stays
<1>4. \A a \in Acc, i \in 1..n : step[i][a] = AddChar(a, Lower[s[i]])
  <2> HIDE DEF Acc
  <2> QED
    OBVIOUS
<1> HIDE DEF Acc, first, step, n
<1>5. PICK f \in [0..n -> Acc] : Run(n, Acc, first, step, f)
  BY <1>1, <1>3, Loop
<1>6. f = [i \in 0..n |-> IF i = 0 THEN first ELSE AddChar(f[i - 1], Lower[s[i]])]
  <2>1. \A i \in 1..n : i \in 0..n /\ i - 1 \in 0..n /\ f[i] = AddChar(f[i - 1], Lower[s[i]])
    BY <1>1, <1>4, <1>5 DEF Run
  <2>2. \A i \in 0..n : i = 0 \/ i \in 1..n
    BY <1>1
  <2> QED
    BY <1>5, <2>1, <2>2 DEF Run
<1> DEFINE N == Normalizing(s)
<1>7. N = [i \in 0..n |-> IF i = 0 THEN first ELSE AddChar(N[i - 1], Lower[s[i]])]
  BY <1>6, Zenon DEF Normalizing, first, n
<1> HIDE DEF N
<1>8. N[0] = first /\ \A i \in 1..n : N[i] = AddChar(N[i - 1], Lower[s[i]])
  BY <1>1, <1>7
<1>9. Run(n, Acc, first, step, N)
  BY <1>1, <1>4, <1>8 DEF Run
<1>10. \A i \in 0..n : N[i] \in Acc
  BY <1>1, <1>3, <1>9, Loop
<1> QED
  BY <1>8, <1>10 DEF N, n, first, Acc

LEMMA Least ==
    ASSUME NEW a \in Nat, NEW b \in Nat, NEW c \in Nat
    PROVE  /\ Min({a, b, c}) \in {a, b, c}
           /\ Min({a, b, c}) <= a /\ Min({a, b, c}) <= b /\ Min({a, b, c}) <= c
<1>1. \E x \in {a, b, c} : \A y \in {a, b, c} : x <= y
  <2>1. CASE a <= b /\ a <= c
    BY <2>1
  <2>2. CASE b <= a /\ b <= c
    BY <2>2
  <2>3. CASE c <= a /\ c <= b
    BY <2>3
  <2> QED
    BY <2>1, <2>2, <2>3
<1> QED
  BY <1>1 DEF Min

\* The row after previous, one column at a time.
LEMMA NextRowStep ==
    ASSUME NEW s \in Seq(Char), NEW t \in Seq(Char), NEW row \in 1..Len(s),
           NEW previous \in [0..Len(t) -> Nat]
    PROVE  LET current == NextRow(previous, s, t, row) IN
           /\ current \in [0..Len(t) -> Nat]
           /\ current[0] = row
           /\ \A j \in 1..Len(t) :
                 current[j] = Min({ current[j - 1] + 1, previous[j] + 1,
                                    previous[j - 1] + EditCost(s[row], t[j]) })
<1> DEFINE n == Len(t)
           cell(x, j) == Min({ x + 1, previous[j] + 1,
                               previous[j - 1] + EditCost(s[row], t[j]) })
           step == [j \in 1..Len(t) |-> [x \in Nat |-> cell(x, j)]]
           C == NextRow(previous, s, t, row)
<1>1. n \in Nat /\ row \in Nat /\ \A j \in 1..n : previous[j] \in Nat /\ previous[j - 1] \in Nat
  OBVIOUS
<1>2. ASSUME NEW x \in Nat, NEW j \in 1..n PROVE cell(x, j) \in Nat
  <2>1. EditCost(s[row], t[j]) \in Nat
    BY DEF EditCost
  <2>2. x + 1 \in Nat /\ previous[j] + 1 \in Nat /\ previous[j - 1] + EditCost(s[row], t[j]) \in Nat
    BY <1>1, <2>1
  <2>3. \A a, b, c \in Nat : Min({a, b, c}) \in Nat
    BY Least
  <2> QED
    BY <2>2, <2>3
<1> HIDE DEF n, cell, C
<1>3. Stays(n, Nat, step)
  BY <1>2 DEF Stays, n
<1>4. \A x \in Nat, j \in 1..n : step[j][x] = cell(x, j)
  BY DEF n
<1> HIDE DEF step
<1>5. PICK f \in [0..n -> Nat] : Run(n, Nat, row, step, f)
  BY <1>1, <1>3, Loop
<1>6. f = [j \in 0..n |-> IF j = 0 THEN row ELSE cell(f[j - 1], j)]
  <2>0. \A j \in 1..n : j \in 0..n /\ j - 1 \in 0..n
    BY <1>1
  <2>1. \A j \in 1..n : f[j - 1] \in Nat /\ f[j] = cell(f[j - 1], j)
    BY <1>4, <1>5, <2>0 DEF Run
  <2>2. \A j \in 0..n : j = 0 \/ j \in 1..n
    BY <1>1
  <2> QED
    BY <1>5, <2>0, <2>1, <2>2 DEF Run
<1>7. C = [j \in 0..n |-> IF j = 0 THEN row ELSE cell(C[j - 1], j)]
  BY <1>6, Zenon DEF NextRow, C, cell, n
<1>8. C[0] = row /\ \A j \in 1..n : C[j] = cell(C[j - 1], j)
  BY <1>1, <1>7
<1>9. Run(n, Nat, row, step, C)
  BY <1>1, <1>4, <1>8 DEF Run
<1>10. \A j \in 0..n : C[j] \in Nat
  BY <1>1, <1>3, <1>9, Loop
<1>11. C \in [0..n -> Nat]
  BY <1>7, <1>10
<1> QED
  BY <1>8, <1>11 DEF C, cell, n

\* stringSimilarity: the whole table, of which the code keeps a row.
LEMMA Table ==
    ASSUME NEW s \in Seq(Char), NEW t \in Seq(Char)
    PROVE  LET D == Rows(s, t) IN
           /\ \A i \in 0..Len(s), j \in 0..Len(t) : D[i][j] \in Nat
           /\ \A j \in 0..Len(t) : D[0][j] = j
           /\ \A i \in 0..Len(s) : D[i][0] = i
           /\ \A i \in 1..Len(s), j \in 1..Len(t) :
                 D[i][j] = Min({ D[i][j - 1] + 1, D[i - 1][j] + 1,
                                 D[i - 1][j - 1] + EditCost(s[i], t[j]) })
<1> DEFINE m    == Len(s)
           Row  == [0..Len(t) -> Nat]
           step == [i \in 1..Len(s) |-> [p \in Row |-> NextRow(p, s, t, i)]]
           D    == Rows(s, t)
<1>1. m \in Nat /\ FirstRow(t) \in Row
  BY DEF FirstRow
<1>2. \A p \in Row, i \in 1..m : NextRow(p, s, t, i) \in Row
  BY NextRowStep
<1> HIDE DEF Row, D
<1>3. Stays(m, Row, step)
  BY <1>2 DEF Stays
<1>4. \A p \in Row, i \in 1..m : step[i][p] = NextRow(p, s, t, i)
  OBVIOUS
<1> HIDE DEF m, step
<1>5. PICK f \in [0..m -> Row] : Run(m, Row, FirstRow(t), step, f)
  BY <1>1, <1>3, Loop
<1>6. f = [i \in 0..m |-> IF i = 0 THEN FirstRow(t) ELSE NextRow(f[i - 1], s, t, i)]
  <2>1. \A i \in 1..m : i \in 0..m /\ i - 1 \in 0..m /\ f[i] = NextRow(f[i - 1], s, t, i)
    BY <1>1, <1>4, <1>5 DEF Run
  <2>2. \A i \in 0..m : i = 0 \/ i \in 1..m
    BY <1>1
  <2> QED
    BY <1>5, <2>1, <2>2 DEF Run
<1>7. D = [i \in 0..m |-> IF i = 0 THEN FirstRow(t) ELSE NextRow(D[i - 1], s, t, i)]
  BY <1>6, Zenon DEF Rows, D, m
<1>8. D[0] = FirstRow(t) /\ \A i \in 1..m : D[i] = NextRow(D[i - 1], s, t, i)
  BY <1>1, <1>7
<1>9. Run(m, Row, FirstRow(t), step, D)
  BY <1>1, <1>4, <1>8 DEF Run
<1>10. \A i \in 0..m : D[i] \in Row
  BY <1>1, <1>3, <1>9, Loop
<1>11. \A i \in 0..m, j \in 0..Len(t) : D[i][j] \in Nat
  BY <1>10 DEF Row
<1>12. \A j \in 0..Len(t) : D[0][j] = j
  BY <1>8 DEF FirstRow
<1>13. ASSUME NEW i \in 1..m
       PROVE  /\ D[i][0] = i
              /\ \A j \in 1..Len(t) :
                    D[i][j] = Min({ D[i][j - 1] + 1, D[i - 1][j] + 1,
                                    D[i - 1][j - 1] + EditCost(s[i], t[j]) })
  <2>1. i \in 1..Len(s) /\ D[i - 1] \in [0..Len(t) -> Nat] /\ D[i] = NextRow(D[i - 1], s, t, i)
    BY <1>1, <1>8, <1>10 DEF m, Row
  <2> QED
    BY <2>1, NextRowStep
<1>14. \A i \in 0..m : D[i][0] = i
  <2>1. 0 \in 0..Len(t) /\ \A i \in 0..m : i = 0 \/ i \in 1..m
    BY <1>1
  <2> QED
    BY <1>12, <1>13, <2>1
<1> QED
  BY <1>11, <1>12, <1>13, <1>14 DEF D, m

-----------------------------------------------------------------------------
(* The cheapest alignment *)

\* The alignments of the first i characters of one string and j of another.
Within(i, j) == {P \in SUBSET ((1..i) \X (1..j)) : InOrder(P)}

Replaced(s, t, P) == {p \in P : s[p[1]] # t[p[2]]}

PrefixCost(s, t, i, j, P) ==
    i + j - 2 * Cardinality(P) + Cardinality(Replaced(s, t, P))

LEMMA FiniteAlignment ==
    ASSUME NEW i \in Nat, NEW j \in Nat, NEW P \in Within(i, j), NEW s, NEW t
    PROVE  /\ IsFiniteSet(P) /\ Cardinality(P) \in Nat
           /\ IsFiniteSet(Replaced(s, t, P)) /\ Cardinality(Replaced(s, t, P)) \in Nat
           /\ PrefixCost(s, t, i, j, P) \in Int
<1>1. IsFiniteSet(1..i) /\ IsFiniteSet(1..j)
  BY FS_Interval
<1>2. IsFiniteSet((1..i) \X (1..j))
  BY <1>1, FS_Product
<1>3. IsFiniteSet(P)
  BY <1>2, FS_Subset DEF Within
<1>4. IsFiniteSet(Replaced(s, t, P))
  BY <1>3, FS_Subset DEF Replaced
<1>5. Cardinality(P) \in Nat /\ Cardinality(Replaced(s, t, P)) \in Nat
  BY <1>3, <1>4, FS_CardinalityType
<1> QED
  BY <1>3, <1>4, <1>5 DEF PrefixCost

\* One more pair at the end costs what the two characters do.
LEMMA AddPair ==
    ASSUME NEW i \in Nat \ {0}, NEW j \in Nat \ {0}, NEW s, NEW t,
           NEW R \in Within(i - 1, j - 1)
    PROVE  /\ R \cup {<<i, j>>} \in Within(i, j)
           /\ PrefixCost(s, t, i, j, R \cup {<<i, j>>})
                 = PrefixCost(s, t, i - 1, j - 1, R) + EditCost(s[i], t[j])
<1> DEFINE P == R \cup {<<i, j>>}
<1>0. i - 1 \in Nat /\ j - 1 \in Nat
  OBVIOUS
<1>1. /\ \A p \in R : /\ p \in (1..i) \X (1..j) /\ p[1] \in Nat /\ p[2] \in Nat
                      /\ p[1] < i /\ p[2] < j
      /\ \A p, q \in R : p[1] < q[1] <=> p[2] < q[2]
  BY DEF Within, InOrder
<1>2. <<i, j>> \notin R
  BY <1>1
<1>3. P \subseteq (1..i) \X (1..j)
  BY <1>1
<1>4. \A p, q \in P : p[1] < q[1] <=> p[2] < q[2]
  BY <1>1
<1>5. P \in Within(i, j)
  BY <1>3, <1>4 DEF Within, InOrder
<1>6. /\ IsFiniteSet(R) /\ Cardinality(R) \in Nat
      /\ IsFiniteSet(Replaced(s, t, R)) /\ Cardinality(Replaced(s, t, R)) \in Nat
  BY <1>0, FiniteAlignment
<1>7. Cardinality(P) = Cardinality(R) + 1
  BY <1>2, <1>6, FS_AddElement
<1>8. Cardinality(Replaced(s, t, P)) = Cardinality(Replaced(s, t, R)) + EditCost(s[i], t[j])
  <2>1. CASE s[i] = t[j]
    <3>1. Replaced(s, t, P) = Replaced(s, t, R)
      BY <2>1 DEF Replaced
    <3> QED
      BY <1>6, <2>1, <3>1 DEF EditCost
  <2>2. CASE s[i] # t[j]
    <3>1. Replaced(s, t, P) = Replaced(s, t, R) \cup {<<i, j>>}
      BY <2>2 DEF Replaced
    <3>2. <<i, j>> \notin Replaced(s, t, R)
      BY <1>2 DEF Replaced
    <3>3. Cardinality(Replaced(s, t, P)) = Cardinality(Replaced(s, t, R)) + 1
      BY <1>6, <3>1, <3>2, FS_AddElement
    <3> QED
      BY <2>2, <3>3 DEF EditCost
  <2> QED
    BY <2>1, <2>2
<1>9. EditCost(s[i], t[j]) \in Nat
  BY DEF EditCost
<1> HIDE DEF P
<1>10. PrefixCost(s, t, i, j, P) = PrefixCost(s, t, i - 1, j - 1, R) + EditCost(s[i], t[j])
  BY <1>6, <1>7, <1>8, <1>9 DEF PrefixCost
<1> QED
  BY <1>5, <1>10 DEF P

\* An alignment of two prefixes leaves the last character of one of them alone,
\* or ends in the pair of both.
LEMMA LastPair ==
    ASSUME NEW i \in Nat \ {0}, NEW j \in Nat \ {0}, NEW P \in Within(i, j)
    PROVE  \/ P \in Within(i - 1, j)
           \/ P \in Within(i, j - 1)
           \/ \E R \in Within(i - 1, j - 1) : P = R \cup {<<i, j>>}
<1>1. /\ \A p \in P : /\ p[1] \in 1..i /\ p[2] \in 1..j /\ p = <<p[1], p[2]>>
      /\ \A p, q \in P : p[1] < q[1] <=> p[2] < q[2]
  BY DEF Within, InOrder
<1>2. CASE \A p \in P : p[1] # i
  <2>1. \A p \in P : p \in (1..i - 1) \X (1..j)
    BY <1>1, <1>2
  <2> QED
    BY <1>1, <2>1 DEF Within, InOrder
<1>3. CASE \A p \in P : p[2] # j
  <2>1. \A p \in P : p \in (1..i) \X (1..j - 1)
    BY <1>1, <1>3
  <2> QED
    BY <1>1, <2>1 DEF Within, InOrder
<1>4. ASSUME NEW p \in P, p[1] = i, NEW q \in P, q[2] = j
      PROVE  \E R \in Within(i - 1, j - 1) : P = R \cup {<<i, j>>}
  <2>1. p[2] = j
    <3>1. ~(p[1] < q[1])
      BY <1>1, <1>4
    <3>2. ~(p[2] < q[2])
      BY <1>1, <3>1
    <3> QED
      BY <1>1, <1>4, <3>2
  <2>2. p = <<i, j>>
    BY <1>1, <1>4, <2>1
  <2> DEFINE R == P \ {<<i, j>>}
  <2>3. ASSUME NEW r \in R PROVE r[1] \in 1..i - 1 /\ r[2] \in 1..j - 1
    <3>1. r \in P /\ r # <<i, j>> /\ r = <<r[1], r[2]>> /\ r[1] \in 1..i /\ r[2] \in 1..j
      BY <1>1
    <3>2. (r[1] < i <=> r[2] < j)
      BY <1>1, <1>4, <2>1, <3>1
    <3> QED
      BY <3>1, <3>2
  <2>4. R \subseteq (1..i - 1) \X (1..j - 1)
    BY <1>1, <2>3
  <2>5. R \in Within(i - 1, j - 1)
    BY <1>1, <2>4 DEF Within, InOrder
  <2>6. P = R \cup {<<i, j>>}
    BY <2>2
  <2> QED
    BY <2>5, <2>6
<1> QED
  BY <1>2, <1>3, <1>4

\* d is the cost of a cheapest alignment of the prefixes.
Attains(s, t, i, j, d) ==
    /\ d \in Nat
    /\ \A P \in Within(i, j) : d <= PrefixCost(s, t, i, j, P)
    /\ \E P \in Within(i, j) : d = PrefixCost(s, t, i, j, P)

\* With an empty prefix there is nothing to align.
LEMMA EmptyPrefix ==
    ASSUME NEW s, NEW t, NEW i \in Nat, NEW j \in Nat, i = 0 \/ j = 0
    PROVE  Attains(s, t, i, j, i + j)
<1>1. Within(i, j) = {{}}
  <2>1. (1..i) \X (1..j) = {}
    OBVIOUS
  <2> QED
    BY <2>1 DEF Within, InOrder
<1>2. Replaced(s, t, {}) = {}
  BY DEF Replaced
<1>3. PrefixCost(s, t, i, j, {}) = i + j
  BY <1>2, FS_EmptySet DEF PrefixCost
<1> QED
  BY <1>1, <1>3 DEF Attains

\* A cell of the table is as cheap as can be if its three neighbours are.
LEMMA Cell ==
    ASSUME NEW s, NEW t, NEW i \in Nat \ {0}, NEW j \in Nat \ {0}, NEW a, NEW b, NEW c,
           Attains(s, t, i, j - 1, a), Attains(s, t, i - 1, j, b),
           Attains(s, t, i - 1, j - 1, c)
    PROVE  Attains(s, t, i, j, Min({ a + 1, b + 1, c + EditCost(s[i], t[j]) }))
<1> DEFINE e == EditCost(s[i], t[j])
           d == Min({ a + 1, b + 1, c + e })
<1>1. e \in Nat /\ a \in Nat /\ b \in Nat /\ c \in Nat
  BY DEF EditCost, Attains
<1>2. d \in {a + 1, b + 1, c + e} /\ d <= a + 1 /\ d <= b + 1 /\ d <= c + e
  <2>1. a + 1 \in Nat /\ b + 1 \in Nat /\ c + e \in Nat
    BY <1>1
  <2>2. \A x, y, z \in Nat : /\ Min({x, y, z}) \in {x, y, z}
                             /\ Min({x, y, z}) <= x /\ Min({x, y, z}) <= y
                             /\ Min({x, y, z}) <= z
    BY Least
  <2> HIDE DEF e
  <2> QED
    BY <2>1, <2>2
<1> HIDE DEF e, d
<1>3. i - 1 \in Nat /\ j - 1 \in Nat
  OBVIOUS
<1>4. /\ \A P \in Within(i, j - 1) :
            /\ P \in Within(i, j)
            /\ PrefixCost(s, t, i, j - 1, P) \in Int
            /\ PrefixCost(s, t, i, j, P) = PrefixCost(s, t, i, j - 1, P) + 1
      /\ \A P \in Within(i - 1, j) :
            /\ P \in Within(i, j)
            /\ PrefixCost(s, t, i - 1, j, P) \in Int
            /\ PrefixCost(s, t, i, j, P) = PrefixCost(s, t, i - 1, j, P) + 1
  <2>1. ASSUME NEW P \in Within(i, j - 1)
        PROVE  /\ P \in Within(i, j)
               /\ PrefixCost(s, t, i, j - 1, P) \in Int
               /\ PrefixCost(s, t, i, j, P) = PrefixCost(s, t, i, j - 1, P) + 1
    <3>1. Cardinality(P) \in Nat /\ Cardinality(Replaced(s, t, P)) \in Nat
      BY <1>3, FiniteAlignment
    <3>2. (1..i) \X (1..j - 1) \subseteq (1..i) \X (1..j)
      OBVIOUS
    <3> QED
      BY <3>1, <3>2 DEF Within, PrefixCost
  <2>2. ASSUME NEW P \in Within(i - 1, j)
        PROVE  /\ P \in Within(i, j)
               /\ PrefixCost(s, t, i - 1, j, P) \in Int
               /\ PrefixCost(s, t, i, j, P) = PrefixCost(s, t, i - 1, j, P) + 1
    <3>1. Cardinality(P) \in Nat /\ Cardinality(Replaced(s, t, P)) \in Nat
      BY <1>3, FiniteAlignment
    <3>2. (1..i - 1) \X (1..j) \subseteq (1..i) \X (1..j)
      OBVIOUS
    <3> QED
      BY <3>1, <3>2 DEF Within, PrefixCost
  <2> QED
    BY <2>1, <2>2
<1>5. \A R \in Within(i - 1, j - 1) :
          /\ R \cup {<<i, j>>} \in Within(i, j)
          /\ PrefixCost(s, t, i - 1, j - 1, R) \in Int
          /\ PrefixCost(s, t, i, j, R \cup {<<i, j>>}) = PrefixCost(s, t, i - 1, j - 1, R) + e
  BY <1>3, AddPair, FiniteAlignment DEF e
<1>6. ASSUME NEW P \in Within(i, j) PROVE d <= PrefixCost(s, t, i, j, P)
  <2>1. CASE P \in Within(i - 1, j)
    BY <1>1, <1>2, <1>4, <2>1 DEF Attains
  <2>2. CASE P \in Within(i, j - 1)
    BY <1>1, <1>2, <1>4, <2>2 DEF Attains
  <2>3. CASE \E R \in Within(i - 1, j - 1) : P = R \cup {<<i, j>>}
    BY <1>1, <1>2, <1>5, <2>3 DEF Attains
  <2> QED
    BY <2>1, <2>2, <2>3, LastPair
<1>7. \E P \in Within(i, j) : d = PrefixCost(s, t, i, j, P)
  BY <1>1, <1>2, <1>4, <1>5 DEF Attains
<1> QED
  BY <1>1, <1>2, <1>6, <1>7 DEF Attains, d, e

\* So every cell is.
LEMMA TableCheapest ==
    ASSUME NEW s \in Seq(Char), NEW t \in Seq(Char)
    PROVE  \A i \in 0..Len(s), j \in 0..Len(t) : Attains(s, t, i, j, Rows(s, t)[i][j])
<1> DEFINE m == Len(s)
           n == Len(t)
           D == Rows(s, t)
           rows == {i \in 0..m : \A j \in 0..n : Attains(s, t, i, j, D[i][j])}
<1>1. m \in Nat /\ n \in Nat
  OBVIOUS
<1>2. /\ \A j \in 0..n : D[0][j] = j
      /\ \A i \in 0..m : D[i][0] = i
      /\ \A i \in 1..m, j \in 1..n :
            D[i][j] = Min({ D[i][j - 1] + 1, D[i - 1][j] + 1,
                            D[i - 1][j - 1] + EditCost(s[i], t[j]) })
  BY Table
<1> HIDE DEF m, n, D
<1>3. 0 \in rows
  <2>1. ASSUME NEW j \in 0..n PROVE Attains(s, t, 0, j, D[0][j])
    <3>1. j \in Nat /\ D[0][j] = 0 + j
      BY <1>1, <1>2
    <3> QED
      BY <3>1, EmptyPrefix
  <2> QED
    BY <1>1, <2>1
<1>4. ASSUME NEW k \in 0..m, k < m, k \in rows PROVE k + 1 \in rows
  <2> DEFINE i == k + 1
             columns == {j \in 0..n : Attains(s, t, i, j, D[i][j])}
  <2>1. /\ i \in Nat \ {0} /\ i \in 1..m /\ i \in 0..m /\ i - 1 = k
        /\ \A j \in 0..n : Attains(s, t, k, j, D[k][j])
    BY <1>1, <1>4
  <2> HIDE DEF i, rows
  <2>2. 0 \in columns
    <3>1. D[i][0] = i + 0 /\ 0 \in 0..n /\ i \in Nat
      BY <1>1, <1>2, <2>1
    <3>2. Attains(s, t, i, 0, D[i][0])
      BY <3>1, EmptyPrefix
    <3> QED
      BY <3>1, <3>2
  <2>3. ASSUME NEW l \in 0..n, l < n, l \in columns PROVE l + 1 \in columns
    <3> DEFINE j == l + 1
    <3>1. j \in Nat \ {0} /\ j \in 1..n /\ j \in 0..n /\ j - 1 = l
      BY <1>1, <2>3
    <3> DEFINE a == D[i][j - 1]
               b == D[i - 1][j]
               c == D[i - 1][j - 1]
    <3>2. Attains(s, t, i, j - 1, a) /\ Attains(s, t, i - 1, j, b) /\ Attains(s, t, i - 1, j - 1, c)
      BY <2>1, <2>3, <3>1
    <3> HIDE DEF j
    <3>3. D[i][j] = Min({ a + 1, b + 1, c + EditCost(s[i], t[j]) })
      BY <1>2, <2>1, <3>1
    <3> HIDE DEF a, b, c
    <3>4. Attains(s, t, i, j, Min({ a + 1, b + 1, c + EditCost(s[i], t[j]) }))
      BY <2>1, <3>1, <3>2, Cell
    <3>5. Attains(s, t, i, j, D[i][j])
      BY <3>3, <3>4
    <3> QED
      BY <3>1, <3>5 DEF j
  <2>4. \A j \in 0..n : j \in columns
    <3> HIDE DEF columns
    <3> QED
      BY <1>1, <2>2, <2>3, UpTo
  <2> QED
    BY <2>1, <2>4 DEF rows, i
<1>5. \A i \in 0..m : i \in rows
  <2> HIDE DEF rows
  <2> QED
    BY <1>1, <1>3, <1>4, UpTo
<1> QED
  BY <1>5 DEF m, n, D

LEMMA EditDistance ==
    ASSUME NEW s \in Seq(Char), NEW t \in Seq(Char)
    PROVE  editDistance(s, t) = CheapestAlignment(s, t)
<1> DEFINE d == editDistance(s, t)
           costs == {AlignmentCost(s, t, P) : P \in Alignments(s, t)}
<1>1. Len(s) \in Nat /\ Len(t) \in Nat
  OBVIOUS
<1>2. Attains(s, t, Len(s), Len(t), d)
  <2>1. Len(s) \in 0..Len(s) /\ Len(t) \in 0..Len(t)
    BY <1>1
  <2> QED
    BY <2>1, TableCheapest DEF editDistance
<1>3. Alignments(s, t) = Within(Len(s), Len(t))
  BY DEF Alignments, Within
<1>4. \A P : AlignmentCost(s, t, P) = PrefixCost(s, t, Len(s), Len(t), P)
  BY DEF AlignmentCost, PrefixCost, Replaced
<1> HIDE DEF d
<1>5. costs \subseteq Int
  BY <1>1, <1>3, <1>4, FiniteAlignment
<1>6. d \in costs /\ \A x \in costs : d <= x
  BY <1>2, <1>3, <1>4 DEF Attains
<1>7. Min(costs) = d
  <2> HIDE DEF costs
  <2>1. Min(costs) \in costs /\ \A x \in costs : Min(costs) <= x
    BY <1>6 DEF Min
  <2>2. Min(costs) \in Int /\ d \in Int /\ Min(costs) <= d /\ d <= Min(costs)
    BY <1>5, <1>6, <2>1
  <2> QED
    BY <2>2
<1> QED
  BY <1>7 DEF CheapestAlignment, d
\* A set of numbers up to a bound has a greatest one.
LEMMA Greatest ==
    ASSUME NEW bound \in Nat, NEW S, S \subseteq 0..bound, S # {}
    PROVE  \E s \in S : \A t \in S : t <= s
<1> DEFINE gaps == {bound - s : s \in S}
<1>1. gaps \subseteq Nat /\ gaps # {}
  <2>1. \A s \in S : bound - s \in Nat
    OBVIOUS
  <2> QED
    BY <2>1
<1>2. PICK g \in gaps : \A h \in gaps : ~(<<h, g>> \in OpToRel(<, Nat))
  <2> HIDE DEF gaps
  <2> QED
    BY <1>1, NatLessThanWellFounded, WFMin
<1>3. \A h \in gaps : ~(h < g)
  <2> HIDE DEF gaps
  <2> QED
    BY <1>1, <1>2 DEF OpToRel
<1>4. PICK s \in S : g = bound - s
  OBVIOUS
<1>5. ASSUME NEW t \in S PROVE t <= s
  <2>1. bound - t \in gaps
    OBVIOUS
  <2>2. ~(bound - t < bound - s)
    BY <1>3, <1>4, <2>1
  <2> QED
    BY <2>2
<1> QED
  BY <1>5


LEMMA GreatestIn ==
    ASSUME NEW bound \in Nat, NEW S, S \subseteq 0..bound, S # {}
    PROVE  Max(S) \in 0..bound
<1>1. \E s \in S : \A t \in S : s >= t
  <2>1. PICK s \in S : \A t \in S : t <= s
    BY Greatest
  <2>2. \A t \in S : s \in Int /\ t \in Int
    OBVIOUS
  <2> QED
    BY <2>1, <2>2
<1> QED
  BY <1>1 DEF Max

\* The edit distance is at most the length of the longer string.
LEMMA DistanceBound ==
    ASSUME NEW s \in Seq(Char), NEW t \in Seq(Char), NEW longest \in Nat,
           Len(s) <= longest, Len(t) <= longest
    PROVE  editDistance(s, t) \in 0..longest
<1> DEFINE m == Len(s)
           n == Len(t)
           D == Rows(s, t)
           rows == {i \in 0..m : \A j \in 0..n : D[i][j] <= i \/ D[i][j] <= j}
<1>1. m \in Nat /\ n \in Nat
  OBVIOUS
<1>2. /\ \A i \in 0..m, j \in 0..n : D[i][j] \in Nat
      /\ \A j \in 0..n : D[0][j] = j
      /\ \A i \in 0..m : D[i][0] = i
      /\ \A i \in 1..m, j \in 1..n :
            D[i][j] = Min({ D[i][j - 1] + 1, D[i - 1][j] + 1,
                            D[i - 1][j - 1] + EditCost(s[i], t[j]) })
  BY Table
<1> HIDE DEF m, n, D
<1>3. 0 \in rows
  BY <1>1, <1>2
<1>4. ASSUME NEW k \in 0..m, k < m, k \in rows PROVE k + 1 \in rows
  <2> DEFINE i == k + 1
  <2>1. i \in 1..m /\ i \in 0..m /\ i - 1 = k /\ \A j \in 0..n : D[k][j] <= k \/ D[k][j] <= j
    BY <1>1, <1>4
  <2>2. ASSUME NEW j \in 1..n PROVE D[i][j] <= i \/ D[i][j] <= j
    <3> DEFINE e == EditCost(s[i], t[j])
               a == D[i][j - 1] + 1
               b == D[k][j] + 1
               c == D[k][j - 1] + e
    <3>1. j - 1 \in 0..n /\ j \in 0..n
      BY <1>1
    <3>2. e \in 0..1
      BY DEF EditCost
    <3>3. D[i][j] = Min({a, b, c})
      BY <1>2, <2>1
    <3> HIDE DEF i, e
    <3>4. a \in Nat /\ b \in Nat /\ c \in Nat /\ c <= D[k][j - 1] + 1
      <4>1. D[i][j - 1] \in Nat /\ D[k][j] \in Nat /\ D[k][j - 1] \in Nat
        BY <1>2, <2>1, <3>1
      <4>2. \A x, y, z \in Nat, f \in 0..1 :
                x + 1 \in Nat /\ y + 1 \in Nat /\ z + f \in Nat /\ z + f <= z + 1
        OBVIOUS
      <4> QED
        BY <3>2, <4>1, <4>2, Zenon
    <3> HIDE DEF a, b, c
    <3>5. D[i][j] <= c
      <4>1. Min({a, b, c}) <= c
        BY <3>4, Least
      <4> QED
        BY <3>3, <4>1
    <3>6. D[k][j - 1] <= k \/ D[k][j - 1] <= j - 1
      BY <2>1, <3>1
    <3>7. D[i][j] \in Nat /\ D[k][j - 1] \in Nat
      BY <1>2, <1>4, <2>1, <3>1
    <3>8. D[i][j] <= D[k][j - 1] + 1
      BY <3>4, <3>5, <3>7
    <3>9. i = k + 1 /\ k \in Nat /\ j \in Nat
      BY <1>1 DEF i
    <3> QED
      BY <3>6, <3>7, <3>8, <3>9
  <2>3. D[i][0] = i
    BY <1>2, <2>1
  <2>4. \A j \in 0..n : j = 0 \/ j \in 1..n
    BY <1>1
  <2>5. \A j \in 0..n : D[i][j] <= i \/ D[i][j] <= j
    <3> HIDE DEF i
    <3> QED
      BY <2>1, <2>2, <2>3, <2>4
  <2> QED
    BY <2>1, <2>5
<1>5. m \in rows
  <2> HIDE DEF rows
  <2>1. \A i \in 0..m : i \in rows
    BY <1>1, <1>3, <1>4, UpTo
  <2> QED
    BY <1>1, <2>1
<1>6. m \in 0..m /\ n \in 0..n /\ (D[m][n] <= m \/ D[m][n] <= n) /\ D[m][n] \in Nat
  BY <1>1, <1>2, <1>5
<1>7. m <= longest /\ n <= longest /\ editDistance(s, t) = D[m][n]
  BY DEF m, n, D, editDistance
<1> QED
  BY <1>1, <1>6, <1>7

LEMMA Quotient ==
    ASSUME NEW a \in Nat, NEW b \in Nat \ {0}, NEW x \in 0..a * b
    PROVE  x \div b \in 0..a
<1>1. x \in Nat /\ x <= a * b
  OBVIOUS
<1>2. x \div b \in Int /\ x \div b >= 0
  BY <1>1
<1>3. x \div b <= a
  BY <1>1
<1> QED
  BY <1>2, <1>3

LEMMA SimilarityType ==
    ASSUME NEW s \in Seq(Char), NEW t \in Seq(Char)
    PROVE  stringSimilarity(s, t) \in 0..Unit
<1>1. Unit \in Nat
  BY CharAssumption
<1>2. CASE s # <<>> /\ t # <<>>
  <2> DEFINE L == Max({Len(s), Len(t)})
             d == editDistance(s, t)
  <2>1. Len(s) \in Nat \ {0} /\ Len(t) \in Nat \ {0}
    BY <1>2
  <2>2. L \in {Len(s), Len(t)} /\ Len(s) <= L /\ Len(t) <= L
    <3>1. \E x \in {Len(s), Len(t)} : \A y \in {Len(s), Len(t)} : x >= y
      <4>1. CASE Len(s) >= Len(t)
        BY <2>1, <4>1
      <4>2. CASE Len(t) >= Len(s)
        BY <2>1, <4>2
      <4> QED
        BY <2>1, <4>1, <4>2
    <3>2. L \in {Len(s), Len(t)} /\ \A y \in {Len(s), Len(t)} : L >= y
      BY <3>1 DEF Max
    <3> QED
      BY <2>1, <3>2
  <2> HIDE DEF L
  <2>3. L \in Nat \ {0} /\ d \in 0..L
    BY <2>1, <2>2, DistanceBound
  <2> HIDE DEF d
  <2>4. Unit * d \in 0..Unit * L
    BY <1>1, <2>3
  <2>5. (Unit * d) \div L \in 0..Unit
    BY <1>1, <2>3, <2>4, Quotient
  <2>6. stringSimilarity(s, t) = Unit - (Unit * d) \div L
    BY <1>2 DEF stringSimilarity, L, d
  <2> QED
    BY <1>1, <2>5, <2>6
<1> QED
  BY <1>1, <1>2 DEF stringSimilarity

\* strings.Fields: at least one token.
LEMMA FieldsType ==
    ASSUME NEW s \in Seq(Char)
    PROVE  Fields(s) \in Seq(Seq(Char)) /\ Len(Fields(s)) \in Nat \ {0}
<1> DEFINE n      == Len(s)
           Tokens == {u \in Seq(Seq(Char)) : Len(u) # 0}
           first  == << <<>> >>
           step   == [i \in 1..Len(s) |-> [u \in Tokens |-> AddToToken(u, s[i])]]
           S      == Splitting(s)
<1>1. n \in Nat /\ \A i \in 1..n : s[i] \in Char
  OBVIOUS
<1>2. first \in Tokens
  OBVIOUS
<1>3. ASSUME NEW u \in Tokens, NEW c \in Char PROVE AddToToken(u, c) \in Tokens
  <2>1. u \in Seq(Seq(Char)) /\ Len(u) \in 1..Len(u) /\ u[Len(u)] \in Seq(Char)
    OBVIOUS
  <2>2. Append(u, <<>>) \in Tokens
    OBVIOUS
  <2>3. Append(u[Len(u)], c) \in Seq(Char)
    BY <2>1
  <2>4. [u EXCEPT ![Len(u)] = Append(@, c)] \in Tokens
    <3> DEFINE token == Append(u[Len(u)], c)
               String == Seq(Char)
    <3> HIDE DEF token, String
    <3>1. token \in String /\ u \in Seq(String) /\ Len(u) \in 1..Len(u)
      BY <2>1, <2>3 DEF token, String
    <3>2. [u EXCEPT ![Len(u)] = token] \in Seq(String)
      BY <3>1
    <3>3. Len([u EXCEPT ![Len(u)] = token]) = Len(u)
      BY <3>1
    <3> QED
      BY <3>2, <3>3 DEF token, String
  <2> HIDE DEF Tokens
  <2> QED
    BY <2>2, <2>4 DEF AddToToken
<1> HIDE DEF Tokens
<1>4. Stays(n, Tokens, step)
  BY <1>1, <1>3 DEF Stays
<1>5. \A u \in Tokens, i \in 1..n : step[i][u] = AddToToken(u, s[i])
  OBVIOUS
<1> HIDE DEF n, first, step, S
<1>6. PICK f \in [0..n -> Tokens] : Run(n, Tokens, first, step, f)
  BY <1>1, <1>2, <1>4, Loop
<1>7. f = [i \in 0..n |-> IF i = 0 THEN first ELSE AddToToken(f[i - 1], s[i])]
  <2>1. \A i \in 1..n : i \in 0..n /\ i - 1 \in 0..n /\ f[i] = AddToToken(f[i - 1], s[i])
    BY <1>1, <1>5, <1>6 DEF Run
  <2>2. \A i \in 0..n : i = 0 \/ i \in 1..n
    BY <1>1
  <2> QED
    BY <1>6, <2>1, <2>2 DEF Run
<1>8. S = [i \in 0..n |-> IF i = 0 THEN first ELSE AddToToken(S[i - 1], s[i])]
  BY <1>7, Zenon DEF Splitting, S, first, n
<1>9. S[0] = first /\ \A i \in 1..n : S[i] = AddToToken(S[i - 1], s[i])
  BY <1>1, <1>8
<1>10. Run(n, Tokens, first, step, S)
  BY <1>1, <1>5, <1>9 DEF Run
<1>11. \A i \in 0..n : S[i] \in Tokens
  BY <1>1, <1>2, <1>4, <1>10, Loop
<1>12. n \in 0..n
  BY <1>1
<1>13. S[n] \in Tokens
  BY <1>11, <1>12
<1> QED
  BY <1>13 DEF Fields, Tokens, S, n

LEMMA BestTokenScoreType ==
    ASSUME NEW token \in Seq(Char), NEW u \in Seq(Seq(Char)), Len(u) # 0
    PROVE  bestTokenScore(token, u) \in 0..Unit
<1> DEFINE scores == {stringSimilarity(token, u[k]) : k \in DOMAIN u}
<1>1. \A k \in DOMAIN u : u[k] \in Seq(Char)
  OBVIOUS
<1>2. scores \subseteq 0..Unit
  BY <1>1, SimilarityType
<1>3. scores # {}
  <2>1. 1 \in DOMAIN u
    OBVIOUS
  <2> QED
    BY <2>1
<1> HIDE DEF scores
<1> QED
  BY <1>2, <1>3, CharAssumption, GreatestIn DEF bestTokenScore, scores

\* The sum of as many scores as there are tokens, divided by their number.
LEMMA TokenScoreType ==
    ASSUME NEW q \in Seq(Seq(Char)), NEW u \in Seq(Seq(Char)), Len(q) # 0, Len(u) # 0
    PROVE  tokenScore(q, u) \in 0..Unit
<1> DEFINE n == Len(q)
           score(i) == bestTokenScore(q[i], u)
           step == [i \in 1..Len(q) |-> [x \in Nat |-> x + score(i)]]
           S == Summing(q, u)
<1>1. n \in Nat \ {0} /\ Unit \in Nat /\ \A i \in 1..n : q[i] \in Seq(Char)
  BY CharAssumption
<1> HIDE DEF score, S
<1>2. \A i \in 1..n : score(i) \in 0..Unit
  BY <1>1, BestTokenScoreType DEF score
<1>3. \A x \in Nat, i \in 1..n : x + score(i) \in Nat
  <2>1. \A i \in 1..n : score(i) \in Nat
    BY <1>1, <1>2
  <2> QED
    BY <2>1
<1>4. Stays(n, Nat, step)
  BY <1>3 DEF Stays
<1>5. \A x \in Nat, i \in 1..n : step[i][x] = x + score(i)
  OBVIOUS
<1> HIDE DEF n, step
<1>6. PICK f \in [0..n -> Nat] : Run(n, Nat, 0, step, f)
  BY <1>1, <1>4, Loop
<1>7. f = [i \in 0..n |-> IF i = 0 THEN 0 ELSE f[i - 1] + score(i)]
  <2>0. \A i \in 1..n : i \in 0..n /\ i - 1 \in 0..n
    BY <1>1
  <2>1. \A i \in 1..n : f[i - 1] \in Nat /\ f[i] = f[i - 1] + score(i)
    BY <1>5, <1>6, <2>0 DEF Run
  <2>2. \A i \in 0..n : i = 0 \/ i \in 1..n
    BY <1>1
  <2> QED
    BY <1>6, <2>0, <2>1, <2>2 DEF Run
<1>8. S = [i \in 0..n |-> IF i = 0 THEN 0 ELSE S[i - 1] + score(i)]
  BY <1>7, Zenon DEF Summing, S, score, n
<1>9. S[0] = 0 /\ \A i \in 1..n : S[i] = S[i - 1] + score(i)
  BY <1>1, <1>8
<1> DEFINE bounded == {i \in 0..n : S[i] \in 0..Unit * i}
<1>10. 0 \in bounded
  BY <1>1, <1>9
<1>11. ASSUME NEW i \in 0..n, i < n, i \in bounded PROVE i + 1 \in bounded
  <2>1. i \in Nat /\ i + 1 \in 1..n /\ i + 1 \in 0..n /\ S[i + 1] = S[i] + score(i + 1)
    BY <1>1, <1>9, <1>11
  <2>2. score(i + 1) \in 0..Unit /\ S[i] \in 0..Unit * i
    BY <1>2, <1>11, <2>1
  <2> DEFINE x == Unit * i
             y == Unit * (i + 1)
  <2>3. x \in Nat /\ y = x + Unit
    BY <1>1, <2>1
  <2> HIDE DEF x, y
  <2>4. S[i] \in 0..x
    BY <2>2 DEF x
  <2>5. score(i + 1) \in 0..Unit
    BY <2>2
  <2>6. S[i] + score(i + 1) \in 0..y
    <3>1. \A a, b, c \in Nat : \A k \in 0..a, l \in 0..b : c = a + b => k + l \in 0..c
      OBVIOUS
    <3>2. x \in Nat /\ Unit \in Nat /\ y \in Nat
      BY <1>1, <2>3
    <3> QED
      BY <2>3, <2>4, <2>5, <3>1, <3>2, Zenon
  <2> QED
    BY <2>1, <2>6 DEF y
<1>12. \A i \in 0..n : i \in bounded
  <2> HIDE DEF bounded
  <2> QED
    BY <1>1, <1>10, <1>11, UpTo
<1>13. S[n] \in 0..Unit * n
  BY <1>1, <1>12
<1>14. S[n] \div n \in 0..Unit
  BY <1>1, <1>13, Quotient
<1> QED
  BY <1>14 DEF tokenScore, S, n

LEMMA NormalType ==
    ASSUME NEW w \in Seq(Char)
    PROVE  normalizeLocation(w) \in Seq(Char)
<1>1. Len(w) \in 0..Len(w)
  OBVIOUS
<1> QED
  BY <1>1, NormalizingStep DEF normalizeLocation

\* Every two strings have a score of 0..Unit.
LEMMA MatchScoreType ==
    ASSUME NEW q \in Seq(Char), NEW c \in Seq(Char)
    PROVE  locationMatchScore(q, c) \in 0..Unit
<1> DEFINE query1 == normalizeLocation(q)
           candidate == normalizeLocation(c)
           scores == {tokenScore(Fields(query1), Fields(candidate)),
                      stringSimilarity(query1, candidate)}
<1>1. query1 \in Seq(Char) /\ candidate \in Seq(Char) /\ Unit \in Nat
  BY NormalType, CharAssumption
<1> HIDE DEF query1, candidate
<1>2. scores \subseteq 0..Unit /\ scores # {}
  <2>1. tokenScore(Fields(query1), Fields(candidate)) \in 0..Unit
    BY <1>1, FieldsType, TokenScoreType
  <2>2. stringSimilarity(query1, candidate) \in 0..Unit
    BY <1>1, SimilarityType
  <2> QED
    BY <2>1, <2>2
<1> HIDE DEF scores
<1>3. Max(scores) \in 0..Unit
  BY <1>1, <1>2, GreatestIn
<1>4. locationMatchScore(q, c) \in {0, Unit, Max(scores)}
  BY DEF locationMatchScore, query1, candidate, scores
<1> QED
  BY <1>1, <1>3, <1>4

-----------------------------------------------------------------------------
(* The canonical form *)

\* What one more character does to out and spacePending.
LEMMA AddCharStep ==
    ASSUME NEW acc \in [out : Seq(Char), spacePending : BOOLEAN], NEW c
    PROVE  /\ c \notin Plain => /\ AddChar(acc, c).out = acc.out
                                /\ AddChar(acc, c).spacePending
           /\ c \in Plain =>
                /\ ~AddChar(acc, c).spacePending
                /\ acc.spacePending /\ acc.out # <<>>
                      => AddChar(acc, c).out = Append(Append(acc.out, Blank), c)
                /\ ~acc.spacePending \/ acc.out = <<>>
                      => AddChar(acc, c).out = Append(acc.out, c)
<1>1. CASE c \notin Plain
  <2>1. AddChar(acc, c) = [acc EXCEPT !.spacePending = TRUE]
    BY <1>1 DEF AddChar
  <2>2. [acc EXCEPT !.spacePending = TRUE].out = acc.out
        /\ [acc EXCEPT !.spacePending = TRUE].spacePending
    OBVIOUS
  <2> QED
    BY <1>1, <2>1, <2>2
<1>2. CASE c \in Plain
  <2>1. AddChar(acc, c) = [out |-> Append(Separate(acc), c), spacePending |-> FALSE]
    BY <1>2 DEF AddChar
  <2>2. AddChar(acc, c).out = Append(Separate(acc), c) /\ ~AddChar(acc, c).spacePending
    BY <2>1
  <2>3. /\ acc.spacePending /\ acc.out # <<>> => Separate(acc) = Append(acc.out, Blank)
        /\ ~acc.spacePending \/ acc.out = <<>> => Separate(acc) = acc.out
    BY DEF Separate
  <2> QED
    BY <1>2, <2>2, <2>3
<1> QED
  BY <1>1, <1>2

\* at maps out into the first i characters of w as Canonical requires.
Follows(w, i, out, at) ==
    /\ at \in [DOMAIN out -> 1..i]
    /\ \A k, l \in DOMAIN out : k < l => at[k] < at[l]
    /\ \A p \in 1..i : Lower[w[p]] \in Plain => \E k \in DOMAIN out : at[k] = p
    /\ \A k \in DOMAIN out :
          /\ Lower[w[at[k]]] \in Plain => out[k] = Lower[w[at[k]]]
          /\ Lower[w[at[k]]] \notin Plain =>
                /\ out[k] = Blank
                /\ k - 1 \in DOMAIN out /\ out[k - 1] \in Plain
                /\ k + 1 \in DOMAIN out /\ out[k + 1] \in Plain
    /\ \A k \in DOMAIN out :
          k + 1 \in DOMAIN out /\ out[k] \in Plain /\ out[k + 1] \in Plain
             => at[k + 1] = at[k] + 1

\* Where the loop stands: out ends in a letter or digit, the last character of w
\* read unless that is a separator.
Ends(w, i, out, pending, at) ==
    /\ out # <<>> => out[Len(out)] \in Plain
    /\ ~pending => i = 0 \/ (out # <<>> /\ at[Len(out)] = i)
    /\ pending => i # 0 /\ Lower[w[i]] \notin Plain

\* A separator adds nothing.
LEMMA FollowsSeparator ==
    ASSUME NEW w, NEW i \in Nat, NEW out \in Seq(Char), NEW pending \in BOOLEAN, NEW at,
           Follows(w, i, out, at), Ends(w, i, out, pending, at), Lower[w[i + 1]] \notin Plain
    PROVE  Follows(w, i + 1, out, at) /\ Ends(w, i + 1, out, TRUE, at)
<1>1. \A p \in 1..i + 1 : p \in 1..i \/ p = i + 1
  OBVIOUS
<1>2. at \in [DOMAIN out -> 1..i + 1]
  BY DEF Follows
<1> QED
  BY <1>1, <1>2 DEF Follows, Ends

\* A letter or digit is added at the end.
LEMMA FollowsPlain ==
    ASSUME NEW w, NEW i \in Nat, NEW out \in Seq(Char), NEW pending \in BOOLEAN, NEW at,
           Follows(w, i, out, at), Ends(w, i, out, pending, at),
           ~pending \/ out = <<>>, NEW c \in Plain, c = Lower[w[i + 1]]
    PROVE  \E new : /\ Follows(w, i + 1, Append(out, c), new)
                    /\ Ends(w, i + 1, Append(out, c), FALSE, new)
<1> DEFINE L   == Len(out)
           o   == Append(out, c)
           new == [k \in 1..L + 1 |-> IF k = L + 1 THEN i + 1 ELSE at[k]]
<1>1. /\ L \in Nat /\ DOMAIN out = 1..L /\ DOMAIN o = 1..L + 1 /\ Len(o) = L + 1
      /\ o[L + 1] = c /\ \A k \in 1..L : o[k] = out[k]
      /\ o # <<>> /\ (out # <<>> => L # 0)
  BY CharAssumption
<1>2. new[L + 1] = i + 1 /\ \A k \in 1..L : new[k] = at[k]
  BY <1>1
<1>3. /\ \A k \in 1..L : at[k] \in 1..i
      /\ \A k, l \in 1..L : k < l => at[k] < at[l]
      /\ \A p \in 1..i : Lower[w[p]] \in Plain => \E k \in 1..L : at[k] = p
      /\ \A k \in 1..L :
            /\ Lower[w[at[k]]] \in Plain => out[k] = Lower[w[at[k]]]
            /\ Lower[w[at[k]]] \notin Plain =>
                  /\ out[k] = Blank
                  /\ k - 1 \in 1..L /\ out[k - 1] \in Plain
                  /\ k + 1 \in 1..L /\ out[k + 1] \in Plain
      /\ \A k \in 1..L :
            k + 1 \in 1..L /\ out[k] \in Plain /\ out[k + 1] \in Plain => at[k + 1] = at[k] + 1
  BY <1>1 DEF Follows
<1>4. L # 0 => at[L] = i
  BY <1>1, <1>3 DEF Ends
<1>5. \A k \in 1..L + 1 : k \in 1..L \/ k = L + 1
  BY <1>1
<1>6. new \in [DOMAIN o -> 1..i + 1]
  BY <1>1, <1>2, <1>3, <1>5
<1> HIDE DEF new, o, L
<1>7. \A k, l \in DOMAIN o : k < l => new[k] < new[l]
  BY <1>1, <1>2, <1>3, <1>5
<1>8. \A p \in 1..i + 1 : Lower[w[p]] \in Plain => \E k \in DOMAIN o : new[k] = p
  <2>1. \A p \in 1..i + 1 : p \in 1..i \/ p = i + 1
    OBVIOUS
  <2>2. L + 1 \in 1..L + 1 /\ \A k \in 1..L : k \in 1..L + 1
    BY <1>1
  <2> QED
    BY <1>1, <1>2, <1>3, <2>1, <2>2
<1>9. \A k \in DOMAIN o :
          /\ Lower[w[new[k]]] \in Plain => o[k] = Lower[w[new[k]]]
          /\ Lower[w[new[k]]] \notin Plain =>
                /\ o[k] = Blank
                /\ k - 1 \in DOMAIN o /\ o[k - 1] \in Plain
                /\ k + 1 \in DOMAIN o /\ o[k + 1] \in Plain
  <2>1. \A k \in 1..L : k \in 1..L + 1
    BY <1>1
  <2> QED
    BY <1>1, <1>2, <1>3, <1>5, <2>1
<1>10. \A k \in DOMAIN o : k + 1 \in DOMAIN o /\ o[k] \in Plain /\ o[k + 1] \in Plain
                              => new[k + 1] = new[k] + 1
  BY <1>1, <1>2, <1>3, <1>4, <1>5
<1>11. Follows(w, i + 1, o, new) /\ Ends(w, i + 1, o, FALSE, new)
  BY <1>1, <1>2, <1>6, <1>7, <1>8, <1>9, <1>10 DEF Follows, Ends
<1> QED
  BY <1>11 DEF o

\* So it is after a run of separators, behind a blank for the last of these.
LEMMA FollowsBlank ==
    ASSUME NEW w, NEW i \in Nat, NEW out \in Seq(Char), NEW at,
           Follows(w, i, out, at), Ends(w, i, out, TRUE, at), out # <<>>,
           NEW c \in Plain, c = Lower[w[i + 1]]
    PROVE  \E new : /\ Follows(w, i + 1, Append(Append(out, Blank), c), new)
                    /\ Ends(w, i + 1, Append(Append(out, Blank), c), FALSE, new)
<1> DEFINE L   == Len(out)
           o   == Append(Append(out, Blank), c)
           new == [k \in 1..L + 2 |-> IF k = L + 2 THEN i + 1
                                      ELSE IF k = L + 1 THEN i ELSE at[k]]
<1>1. /\ L \in Nat \ {0} /\ DOMAIN out = 1..L /\ DOMAIN o = 1..L + 2 /\ Len(o) = L + 2
      /\ o[L + 2] = c /\ o[L + 1] = Blank /\ \A k \in 1..L : o[k] = out[k]
      /\ o # <<>>
  BY CharAssumption
<1>2. new[L + 2] = i + 1 /\ new[L + 1] = i /\ \A k \in 1..L : new[k] = at[k]
  BY <1>1
<1>3. /\ \A k \in 1..L : at[k] \in 1..i
      /\ \A k, l \in 1..L : k < l => at[k] < at[l]
      /\ \A p \in 1..i : Lower[w[p]] \in Plain => \E k \in 1..L : at[k] = p
      /\ \A k \in 1..L :
            /\ Lower[w[at[k]]] \in Plain => out[k] = Lower[w[at[k]]]
            /\ Lower[w[at[k]]] \notin Plain =>
                  /\ out[k] = Blank
                  /\ k - 1 \in 1..L /\ out[k - 1] \in Plain
                  /\ k + 1 \in 1..L /\ out[k + 1] \in Plain
      /\ \A k \in 1..L :
            k + 1 \in 1..L /\ out[k] \in Plain /\ out[k + 1] \in Plain => at[k + 1] = at[k] + 1
  BY <1>1 DEF Follows
<1>4. Blank \notin Plain /\ i \in 1..i /\ Lower[w[i]] \notin Plain /\ out[L] \in Plain
  BY CharAssumption DEF Ends
<1>5. \A k \in 1..L : at[k] < i
  <2>1. at[L] # i /\ at[L] \in 1..i
    BY <1>1, <1>3, <1>4
  <2>2. \A k \in 1..L : at[k] \in 1..i /\ (k = L \/ at[k] < at[L])
    BY <1>1, <1>3
  <2> QED
    BY <2>1, <2>2
<1>6. \A k \in 1..L + 2 : k \in 1..L \/ k = L + 1 \/ k = L + 2
  BY <1>1
<1>7. new \in [DOMAIN o -> 1..i + 1]
  BY <1>1, <1>2, <1>3, <1>4, <1>6
<1> HIDE DEF new, o, L
<1>8. ASSUME NEW k \in DOMAIN o, NEW l \in DOMAIN o, k < l PROVE new[k] < new[l]
  <2>1. CASE l \in 1..L
    <3>1. k \in 1..L
      BY <1>1, <1>8, <2>1
    <3> QED
      BY <1>2, <1>3, <1>8, <2>1, <3>1
  <2>2. CASE l = L + 1
    <3>1. k \in 1..L
      BY <1>1, <1>8, <2>2
    <3> QED
      BY <1>2, <1>5, <2>2, <3>1
  <2>3. CASE l = L + 2
    <3>1. k \in 1..L \/ k = L + 1
      BY <1>1, <1>8, <2>3
    <3>2. \A x \in 1..L : at[x] \in 1..i
      BY <1>3
    <3> QED
      BY <1>2, <2>3, <3>1, <3>2
  <2> QED
    BY <1>1, <1>6, <2>1, <2>2, <2>3
<1>9. \A p \in 1..i + 1 : Lower[w[p]] \in Plain => \E k \in DOMAIN o : new[k] = p
  <2>1. \A p \in 1..i + 1 : p \in 1..i \/ p = i + 1
    OBVIOUS
  <2>2. L + 2 \in 1..L + 2 /\ \A k \in 1..L : k \in 1..L + 2
    BY <1>1
  <2> QED
    BY <1>1, <1>2, <1>3, <2>1, <2>2
<1>10. \A k \in DOMAIN o :
          /\ Lower[w[new[k]]] \in Plain => o[k] = Lower[w[new[k]]]
          /\ Lower[w[new[k]]] \notin Plain =>
                /\ o[k] = Blank
                /\ k - 1 \in DOMAIN o /\ o[k - 1] \in Plain
                /\ k + 1 \in DOMAIN o /\ o[k + 1] \in Plain
  <2>1. \A k \in 1..L : k \in 1..L + 2
    BY <1>1
  <2>2. ASSUME NEW k \in 1..L
        PROVE  /\ Lower[w[new[k]]] \in Plain => o[k] = Lower[w[new[k]]]
               /\ Lower[w[new[k]]] \notin Plain =>
                     /\ o[k] = Blank
                     /\ k - 1 \in DOMAIN o /\ o[k - 1] \in Plain
                     /\ k + 1 \in DOMAIN o /\ o[k + 1] \in Plain
    <3>1. new[k] = at[k] /\ o[k] = out[k]
      BY <1>1, <1>2
    <3> QED
      BY <1>1, <1>3, <2>1, <3>1
  <2>3. /\ (L + 1) - 1 \in DOMAIN o /\ o[(L + 1) - 1] \in Plain
        /\ (L + 1) + 1 \in DOMAIN o /\ o[(L + 1) + 1] \in Plain
    <3>1. (L + 1) - 1 = L /\ (L + 1) + 1 = L + 2 /\ L \in 1..L /\ L \in 1..L + 2
          /\ L + 2 \in 1..L + 2
      BY <1>1
    <3> QED
      BY <1>1, <1>4, <3>1
  <2>4. Lower[w[new[L + 1]]] \notin Plain /\ o[L + 1] = Blank
    BY <1>1, <1>2, <1>4
  <2>5. Lower[w[new[L + 2]]] \in Plain /\ o[L + 2] = Lower[w[new[L + 2]]]
    BY <1>1, <1>2
  <2> QED
    BY <1>1, <1>6, <2>2, <2>3, <2>4, <2>5
<1>11. \A k \in DOMAIN o : k + 1 \in DOMAIN o /\ o[k] \in Plain /\ o[k + 1] \in Plain
                              => new[k + 1] = new[k] + 1
  <2>1. ASSUME NEW k \in DOMAIN o, k + 1 \in DOMAIN o, o[k] \in Plain, o[k + 1] \in Plain
        PROVE  k \in 1..L /\ k + 1 \in 1..L
    <3>1. k # L + 1 /\ k + 1 # L + 1
      BY <1>1, <1>4, <2>1
    <3> QED
      BY <1>1, <2>1, <3>1
  <2>2. ASSUME NEW k \in 1..L, k + 1 \in 1..L, o[k] \in Plain, o[k + 1] \in Plain
        PROVE  new[k + 1] = new[k] + 1
    BY <1>1, <1>2, <1>3, <2>2
  <2> QED
    BY <2>1, <2>2
<1>12. Follows(w, i + 1, o, new) /\ Ends(w, i + 1, o, FALSE, new)
  BY <1>1, <1>2, <1>7, <1>8, <1>9, <1>10, <1>11 DEF Follows, Ends
<1> QED
  BY <1>12 DEF o

\* By induction over the characters read.
LEMMA NormalCanonical ==
    ASSUME NEW w \in Seq(Char)
    PROVE  Canonical(normalizeLocation(w), w)
<1> DEFINE n    == Len(w)
           A(i) == Normalizing(w)[i]
           good == {i \in 0..n : \E at : Follows(w, i, A(i).out, at)
                                         /\ Ends(w, i, A(i).out, A(i).spacePending, at)}
<1>1. n \in Nat
  OBVIOUS
<1>2. /\ A(0) = [out |-> <<>>, spacePending |-> FALSE]
      /\ \A i \in 1..n : A(i) = AddChar(A(i - 1), Lower[w[i]])
      /\ \A i \in 0..n : A(i) \in [out : Seq(Char), spacePending : BOOLEAN]
  BY NormalizingStep
<1> HIDE DEF n, A
<1>3. 0 \in good
  <2>1. A(0).out = <<>> /\ A(0).spacePending = FALSE
    BY <1>2
  <2>2. Follows(w, 0, A(0).out, <<>>) /\ Ends(w, 0, A(0).out, A(0).spacePending, <<>>)
    BY <2>1 DEF Follows, Ends
  <2> QED
    BY <1>1, <2>1, <2>2
<1>4. ASSUME NEW i \in 0..n, i < n, i \in good PROVE i + 1 \in good
  <2> DEFINE acc == A(i)
             new == A(i + 1)
             c   == Lower[w[i + 1]]
  <2>1. i \in Nat /\ i + 1 \in 1..n /\ i + 1 \in 0..n /\ (i + 1) - 1 = i
    BY <1>1, <1>4
  <2>2. PICK at : Follows(w, i, acc.out, at) /\ Ends(w, i, acc.out, acc.spacePending, at)
    BY <1>4
  <2>3. acc \in [out : Seq(Char), spacePending : BOOLEAN] /\ new = AddChar(acc, c)
    BY <1>2, <2>1
  <2>4. acc.out \in Seq(Char) /\ acc.spacePending \in BOOLEAN
    BY <2>3
  <2>5. new \in [out : Seq(Char), spacePending : BOOLEAN]
    BY <1>2, <2>1
  <2>6. new.spacePending \in BOOLEAN
    BY <2>5
  <2> HIDE DEF acc, new, good
  <2>7. SUFFICES \E f : Follows(w, i + 1, new.out, f)
                        /\ Ends(w, i + 1, new.out, new.spacePending, f)
    BY <2>1 DEF good, new
  <2>8. CASE c \notin Plain
    <3>1. new.out = acc.out /\ new.spacePending = TRUE
      BY <2>3, <2>6, <2>8, AddCharStep
    <3>2. Follows(w, i + 1, acc.out, at) /\ Ends(w, i + 1, acc.out, TRUE, at)
      BY <2>1, <2>2, <2>4, <2>8, FollowsSeparator
    <3> QED
      BY <3>1, <3>2
  <2>9. CASE c \in Plain /\ (~acc.spacePending \/ acc.out = <<>>)
    <3>1. new.out = Append(acc.out, c) /\ new.spacePending = FALSE
      BY <2>3, <2>6, <2>9, AddCharStep
    <3>2. \E f : /\ Follows(w, i + 1, Append(acc.out, c), f)
                 /\ Ends(w, i + 1, Append(acc.out, c), FALSE, f)
      BY <2>1, <2>2, <2>4, <2>9, FollowsPlain
    <3> QED
      BY <3>1, <3>2
  <2>10. CASE c \in Plain /\ acc.spacePending /\ acc.out # <<>>
    <3>1. new.out = Append(Append(acc.out, Blank), c) /\ new.spacePending = FALSE
      BY <2>3, <2>6, <2>10, AddCharStep
    <3>2. acc.spacePending = TRUE
      BY <2>4, <2>10
    <3>3. Ends(w, i, acc.out, TRUE, at)
      BY <2>2, <3>2
    <3>4. \E f : /\ Follows(w, i + 1, Append(Append(acc.out, Blank), c), f)
                 /\ Ends(w, i + 1, Append(Append(acc.out, Blank), c), FALSE, f)
      BY <2>1, <2>2, <2>4, <2>10, <3>3, FollowsBlank
    <3> QED
      BY <3>1, <3>4
  <2> QED
    BY <2>8, <2>9, <2>10
<1>5. n \in good
  <2> HIDE DEF good
  <2>1. \A i \in 0..n : i \in good
    BY <1>1, <1>3, <1>4, UpTo
  <2> QED
    BY <1>1, <2>1
<1>6. PICK at : Follows(w, n, A(n).out, at)
  BY <1>5
<1>7. normalizeLocation(w) = A(n).out /\ DOMAIN w = 1..n
  BY DEF normalizeLocation, A, n
<1> DEFINE o == A(n).out
<1> HIDE DEF o
<1>8. Follows(w, n, o, at)
  BY <1>6 DEF o
<1>9. Canonical(o, w)
  BY <1>7, <1>8 DEF Canonical, Follows
<1> QED
  BY <1>7, <1>9 DEF o

\* A string is tidy if its characters are letters, digits and single blanks between.
Tidy(n) ==
    \A k \in DOMAIN n :
        \/ n[k] \in Plain
        \/ /\ n[k] = Blank
           /\ k - 1 \in DOMAIN n /\ n[k - 1] \in Plain
           /\ k + 1 \in DOMAIN n /\ n[k + 1] \in Plain

LEMMA CanonicalTidy ==
    ASSUME NEW n, NEW w, Canonical(n, w)
    PROVE  Tidy(n)
<1>1. PICK at \in [DOMAIN n -> DOMAIN w] :
          \A i \in DOMAIN n :
              IF Lower[w[at[i]]] \in Plain THEN n[i] = Lower[w[at[i]]]
              ELSE /\ n[i] = Blank
                   /\ {i - 1, i + 1} \subseteq DOMAIN n
                   /\ {n[i - 1], n[i + 1]} \subseteq Plain
  BY DEF Canonical
<1> QED
  BY <1>1 DEF Tidy

\* One more character of a prefix.
LEMMA LongerPrefix ==
    ASSUME NEW n \in Seq(Char), NEW i \in 0..Len(n) - 1
    PROVE  Append(SubSeq(n, 1, i), n[i + 1]) = SubSeq(n, 1, i + 1)
OBVIOUS

\* The loop copies a tidy string; a blank it copies with the next character.
LEMMA NormalOfTidy ==
    ASSUME NEW n \in Seq(Char), Tidy(n)
    PROVE  normalizeLocation(n) = n
<1> DEFINE N    == Len(n)
           A(i) == Normalizing(n)[i]
           Copied(i) ==
               IF i = 0 \/ n[i] \in Plain
               THEN A(i).out = SubSeq(n, 1, i) /\ A(i).spacePending = FALSE
               ELSE A(i).out = SubSeq(n, 1, i - 1) /\ A(i).spacePending = TRUE
           good == {i \in 0..N : Copied(i)}
<1>1. N \in Nat /\ DOMAIN n = 1..N
  OBVIOUS
<1>2. /\ A(0) = [out |-> <<>>, spacePending |-> FALSE]
      /\ \A i \in 1..N : A(i) = AddChar(A(i - 1), Lower[n[i]])
      /\ \A i \in 0..N : A(i) \in [out : Seq(Char), spacePending : BOOLEAN]
  BY NormalizingStep
<1> HIDE DEF A
<1>3. /\ Blank \notin Plain
      /\ \A i \in 1..N :
            /\ Lower[n[i]] = n[i]
            /\ \/ n[i] \in Plain
               \/ /\ n[i] = Blank
                  /\ i - 1 \in 1..N /\ n[i - 1] \in Plain
                  /\ i + 1 \in 1..N /\ n[i + 1] \in Plain
  BY <1>1, CharAssumption DEF Tidy
<1>4. 0 \in good
  <2>1. SubSeq(n, 1, 0) = <<>>
    OBVIOUS
  <2>2. A(0).out = <<>> /\ A(0).spacePending = FALSE
    BY <1>2
  <2>3. Copied(0)
    BY <2>1, <2>2
  <2> HIDE DEF Copied
  <2> QED
    BY <1>1, <2>3
<1>5. ASSUME NEW i \in 0..N, i < N, i \in good PROVE i + 1 \in good
  <2> DEFINE acc == A(i)
             new == A(i + 1)
             c   == n[i + 1]
  <2>1. i \in Nat /\ i + 1 \in 1..N /\ i + 1 \in 0..N /\ (i + 1) - 1 = i /\ i + 1 # 0
        /\ i \in 0..N - 1
    BY <1>1, <1>5
  <2>2. acc \in [out : Seq(Char), spacePending : BOOLEAN] /\ new = AddChar(acc, c)
    BY <1>2, <1>3, <2>1
  <2>3. new \in [out : Seq(Char), spacePending : BOOLEAN]
    BY <1>2, <2>1
  <2>4. new.spacePending \in BOOLEAN
    BY <2>3
  <2>5. Copied(i)
    BY <1>5
  <2> HIDE DEF good, N
  <2>6. SUFFICES Copied(i + 1)
    BY <2>1 DEF good
  <2>7. CASE c \in Plain /\ (i = 0 \/ n[i] \in Plain)
    <3>1. acc.out = SubSeq(n, 1, i) /\ acc.spacePending = FALSE
      BY <2>5, <2>7
    <3> HIDE DEF acc, new
    <3>2. new.out = Append(acc.out, c) /\ new.spacePending = FALSE
      BY <2>2, <2>4, <2>7, <3>1, AddCharStep
    <3>3. new.out = SubSeq(n, 1, i + 1)
      BY <2>1, <3>1, <3>2, LongerPrefix DEF N
    <3> QED
      BY <2>7, <3>2, <3>3 DEF new
  <2>8. CASE c \in Plain /\ i # 0 /\ n[i] \notin Plain
    <3>1. acc.out = SubSeq(n, 1, i - 1) /\ acc.spacePending = TRUE
      BY <2>5, <2>8
    <3>2. n[i] = Blank /\ i - 1 \in 1..N /\ i \in 1..N /\ i - 1 \in 0..N - 1 /\ (i - 1) + 1 = i
      BY <1>1, <1>3, <2>1, <2>8 DEF N
    <3>3. SubSeq(n, 1, i - 1) # <<>>
      <4>1. Len(SubSeq(n, 1, i - 1)) = i - 1
        BY <3>2 DEF N
      <4>2. i - 1 # 0 /\ Len(<<>>) = 0
        BY <2>1, <3>2
      <4> QED
        BY <4>1, <4>2
    <3> HIDE DEF acc, new
    <3>4. new.out = Append(Append(acc.out, Blank), c) /\ new.spacePending = FALSE
      BY <2>2, <2>4, <2>8, <3>1, <3>3, AddCharStep
    <3>5. Append(SubSeq(n, 1, i - 1), Blank) = SubSeq(n, 1, i)
      BY <3>2, LongerPrefix DEF N
    <3>6. new.out = SubSeq(n, 1, i + 1)
      BY <2>1, <3>1, <3>4, <3>5, LongerPrefix DEF N
    <3> QED
      BY <2>8, <3>4, <3>6 DEF new
  <2>9. CASE c \notin Plain
    <3>1. i \in 1..N /\ n[i] \in Plain
      BY <1>3, <2>1, <2>9
    <3>2. acc.out = SubSeq(n, 1, i)
      BY <2>5, <3>1
    <3> HIDE DEF acc, new
    <3>3. new.out = acc.out /\ new.spacePending = TRUE
      BY <2>2, <2>4, <2>9, AddCharStep
    <3> QED
      BY <2>1, <2>9, <3>2, <3>3 DEF new
  <2> QED
    BY <2>7, <2>8, <2>9
<1>6. Copied(N)
  <2> HIDE DEF good
  <2>1. \A i \in 0..N : i \in good
    BY <1>1, <1>4, <1>5, UpTo
  <2> QED
    BY <1>1, <2>1 DEF good
<1>7. N = 0 \/ n[N] \in Plain
  BY <1>1, <1>3
<1>8. A(N).out = SubSeq(n, 1, N) /\ SubSeq(n, 1, N) = n
  BY <1>6, <1>7
<1> QED
  BY <1>8 DEF normalizeLocation, A

-----------------------------------------------------------------------------
(* The scores of the results *)

\* What the scan needs to know of the thresholds and of the scores.
LEMMA ScoresInRange ==
    /\ Unit \in Nat /\ MinimumScore \in 1..Unit /\ MinimumDifference \in 1..Unit
    /\ MaxResults \in Nat
    /\ \A q \in Queries, l \in Labels : Score[Normal[q]][l] \in 0..Unit
<1>1. /\ Unit \in Nat /\ MinimumScore \in 1..Unit /\ MinimumDifference \in 1..Unit
      /\ MaxResults \in Nat /\ Queries \subseteq Seq(Char) /\ Labels \subseteq Seq(Char)
  BY CharAssumption, GeocodingAssumption
<1>2. ASSUME NEW q \in Queries, NEW l \in Labels PROVE Score[Normal[q]][l] \in 0..Unit
  <2>1. q \in Seq(Char) /\ l \in Seq(Char)
    BY <1>1
  <2>2. Normal[q] = normalizeLocation(q) /\ Normal[q] \in {Normal[r] : r \in Queries}
    BY DEF Normal
  <2>3. Normal[q] \in Seq(Char)
    BY <2>1, <2>2, NormalType
  <2>4. Score[Normal[q]][l] = locationMatchScore(Normal[q], l)
    BY <2>2 DEF Score
  <2> QED
    BY <2>1, <2>3, <2>4, MatchScoreType
<1> QED
  BY <1>1, <1>2

\* The greatest score of the labels of a result.
LEMMA MaxScoreType ==
    ASSUME NEW q \in Queries, NEW labels \in SUBSET Labels
    PROVE  MaxScore(q, labels) \in 0..Unit
<1> DEFINE scores == {Score[Normal[q]][l] : l \in labels} \cup {0}
<1>1. scores \subseteq 0..Unit /\ scores # {} /\ Unit \in Nat
  BY ScoresInRange
<1>2. \E s \in scores : \A t \in scores : t <= s
  <2> HIDE DEF scores
  <2> QED
    BY <1>1, Greatest
<1> QED
  BY <1>1, <1>2 DEF MaxScore

LEMMA PlaceScoreType ==
    ASSUME NEW q \in Queries, NEW result \in Result
    PROVE  PlaceScore(q, result) \in 0..Unit /\ (PlaceScore(q, result) > 0 => result.valid)
BY MaxScoreType, ScoresInRange DEF PlaceScore, Result

\* A response is a sequence of at most MaxResults results.
LEMMA ResponseType ==
    ASSUME NEW r \in Responses
    PROVE  r \in Seq(Result) /\ Len(r) \in 0..MaxResults /\ DOMAIN r = 1..Len(r)
BY ScoresInRange DEF Responses

-----------------------------------------------------------------------------
(* The inductive invariant *)

\* How many results the first loop has seen.
Seen == IF pc = "collect" THEN next - 1 ELSE Len(results)

\* The candidates are the usable results seen, each once.
CandidatesSound ==
    /\ Len(candidates) <= Seen
    /\ \A i \in DOMAIN candidates :
          /\ candidates[i].place \in 1..Seen
          /\ candidates[i].score = Worth(candidates[i].place)
    /\ \A i, j \in DOMAIN candidates : candidates[i].place = candidates[j].place => i = j
    /\ \A p \in 1..Seen : Worth(p) > 0 =>
          \E i \in DOMAIN candidates : candidates[i].place = p

\* Where the loops stand.
Position ==
    /\ pc = "ask" => results = <<>> /\ candidates = <<>> /\ secondBest = 0
    /\ pc = "collect" => next \in 1..Len(results) + 1 /\ secondBest = 0 /\ best = 0
    /\ pc = "scan" => best \in 1..next - 1 /\ next \in 2..Len(candidates) + 1

ScanInv == TypeOK /\ CandidatesSound /\ Position /\ ScanSound /\ FoundIsClear

LEMMA InitInv == Init => ScanInv
<1> SUFFICES ASSUME Init PROVE ScanInv
  OBVIOUS
<1> USE ScoresInRange DEF Init
<1>1. <<>> \in Responses
  BY DEF Responses
<1>2. TypeOK
  BY <1>1 DEF TypeOK
<1>3. CandidatesSound /\ Position /\ ScanSound /\ FoundIsClear
  BY DEF CandidatesSound, Seen, Position, ScanSound, FoundIsClear
<1> QED
  BY <1>2, <1>3 DEF ScanInv

\* What the type invariant says of the two sequences.
LEMMA Sequences ==
    ASSUME TypeOK
    PROVE  /\ results \in Seq(Result) /\ Len(results) \in 0..MaxResults
           /\ DOMAIN results = 1..Len(results)
           /\ Len(candidates) \in Nat /\ DOMAIN candidates = 1..Len(candidates)
           /\ \A i \in 1..Len(candidates) :
                 candidates[i].place \in 1..MaxResults /\ candidates[i].score \in 1..Unit
           /\ \A p \in 1..Len(results) :
                 Worth(p) \in 0..Unit /\ (Worth(p) > 0 => results[p].valid)
<1>1. results \in Responses /\ query \in Queries
  BY DEF TypeOK
<1>2. results \in Seq(Result) /\ Len(results) \in 0..MaxResults /\ DOMAIN results = 1..Len(results)
  BY <1>1, ResponseType
<1>3. \A p \in 1..Len(results) : results[p] \in Result
  BY <1>2
<1>4. \A p \in 1..Len(results) : Worth(p) \in 0..Unit /\ (Worth(p) > 0 => results[p].valid)
  BY <1>1, <1>3, PlaceScoreType DEF Worth
<1> DEFINE Candidate == [place : 1..MaxResults, score : 1..Unit]
<1>5. candidates \in Seq(Candidate)
  BY DEF TypeOK
<1>6. /\ Len(candidates) \in Nat /\ DOMAIN candidates = 1..Len(candidates)
      /\ \A i \in 1..Len(candidates) : candidates[i] \in Candidate
  <2> HIDE DEF Candidate
  <2> QED
    BY <1>5
<1> QED
  BY <1>2, <1>4, <1>6

-----------------------------------------------------------------------------
(* The inductive step *)

\* No request, or one the provider fails.
LEMMA RefuseInv ==
    ASSUME ScanInv, EmptyQuery \/ ProviderFails
    PROVE  ScanInv'
<1>1. pc = "ask" /\ results = <<>> /\ candidates = <<>>
  BY DEF ScanInv, Position, EmptyQuery, ProviderFails
<1>2. /\ pc' = "done" /\ outcome' \in {"empty", "provider_error"}
      /\ UNCHANGED <<query, results, candidates, next, best, secondBest>>
  BY DEF EmptyQuery, ProviderFails, Finish, NoScan
<1>3. TypeOK'
  BY <1>2 DEF ScanInv, TypeOK
<1>4. CandidatesSound' /\ Position' /\ ScanSound' /\ FoundIsClear'
  BY <1>1, <1>2 DEF CandidatesSound, Seen, Position, ScanSound, FoundIsClear
<1> QED
  BY <1>3, <1>4 DEF ScanInv

LEMMA RespondInv ==
    ASSUME ScanInv, Respond
    PROVE  ScanInv'
<1> USE ScoresInRange
<1>1. /\ pc = "ask" /\ candidates = <<>> /\ results' \in Responses
      /\ UNCHANGED <<query, candidates, best, secondBest>>
  BY DEF ScanInv, Position, Respond
<1>2. Len(results') \in 0..MaxResults /\ DOMAIN results' = 1..Len(results')
  BY <1>1, ResponseType
<1>3. best = 0 /\ secondBest = 0
  BY <1>1 DEF ScanInv, TypeOK, Position
<1>4. CASE results' = <<>> /\ Finish("no_result") /\ UNCHANGED next
  <2>1. TypeOK'
    BY <1>1, <1>4 DEF ScanInv, TypeOK, Finish
  <2>2. CandidatesSound' /\ Position' /\ ScanSound' /\ FoundIsClear'
    BY <1>1, <1>4 DEF CandidatesSound, Seen, Position, ScanSound, FoundIsClear, Finish
  <2> QED
    BY <2>1, <2>2 DEF ScanInv
<1>5. CASE pc' = "collect" /\ next' = 1 /\ UNCHANGED outcome
  <2>1. TypeOK'
    BY <1>1, <1>5 DEF ScanInv, TypeOK
  <2>2. CandidatesSound' /\ ScanSound' /\ FoundIsClear'
    BY <1>1, <1>5 DEF CandidatesSound, Seen, ScanSound, FoundIsClear
  <2>3. Position'
    BY <1>1, <1>2, <1>3, <1>5 DEF Position
  <2> QED
    BY <2>1, <2>2, <2>3 DEF ScanInv
<1> QED
  BY <1>4, <1>5 DEF Respond

\* One result becomes the last candidate, or is skipped for it scores nothing.
LEMMA CollectInv ==
    ASSUME ScanInv, Collect
    PROVE  ScanInv'
<1> USE ScoresInRange
<1> DEFINE score == PlaceScore(query, results[next])
           new   == [place |-> next, score |-> score]
<1>1. /\ pc = "collect" /\ next \in 1..Len(results) /\ secondBest = 0 /\ best = 0
      /\ pc' = pc /\ next' = next + 1
      /\ UNCHANGED <<query, results, best, secondBest, outcome>>
  BY Sequences DEF ScanInv, Position, Collect
<1>2. /\ Len(results) \in 0..MaxResults /\ Len(candidates) \in Nat
      /\ DOMAIN candidates = 1..Len(candidates)
      /\ score = Worth(next) /\ score \in 0..Unit
  BY <1>1, Sequences DEF ScanInv, Worth
<1>3. next \in 1..MaxResults /\ next' \in 1..Len(results) + 1 /\ next' \in 0..MaxResults + 1
      /\ Seen = next - 1 /\ Seen' = next
  BY <1>1, <1>2 DEF Seen
<1>4. Position' /\ ScanSound' /\ FoundIsClear'
  BY <1>1, <1>3 DEF Position, ScanSound, FoundIsClear
<1>5. \A p : Worth(p)' = Worth(p)
  BY <1>1 DEF Worth
<1>6. CASE score > 0
  <2>1. candidates' = Append(candidates, new)
    BY <1>6 DEF Collect, Usable
  <2>2. candidates \in Seq([place : 1..MaxResults, score : 1..Unit])
    BY DEF ScanInv, TypeOK
  <2>3. new \in [place : 1..MaxResults, score : 1..Unit]
    BY <1>2, <1>3, <1>6
  <2> DEFINE Candidate == [place : 1..MaxResults, score : 1..Unit]
  <2>4. candidates' \in Seq(Candidate)
    <3> HIDE DEF new, Candidate
    <3> QED
      BY <2>1, <2>2, <2>3 DEF Candidate
  <2>5. /\ Len(candidates') = Len(candidates) + 1 /\ DOMAIN candidates' = 1..Len(candidates) + 1
        /\ \A i \in 1..Len(candidates) : candidates'[i] = candidates[i]
        /\ candidates'[Len(candidates) + 1] = new
    <3> HIDE DEF new, Candidate
    <3> QED
      BY <1>2, <2>1, <2>2, <2>3 DEF Candidate
  <2>6. TypeOK'
    BY <1>1, <1>2, <1>3, <2>4, <2>5 DEF ScanInv, TypeOK
  <2>7. CandidatesSound'
    <3> HIDE DEF new, score, Candidate
    <3>0. /\ \A i \in 1..Len(candidates) + 1 : i \in 1..Len(candidates) \/ i = Len(candidates) + 1
          /\ \A p \in 1..next - 1 : p \in 1..next /\ p # next
          /\ next \in 1..next
      BY <1>2, <1>3
    <3>1. \A i \in 1..Len(candidates) :
              /\ candidates'[i].place \in 1..next - 1
              /\ candidates'[i].score = Worth(candidates'[i].place)
      BY <1>2, <1>3, <2>5 DEF ScanInv, CandidatesSound
    <3>2. candidates'[Len(candidates) + 1].place = next
          /\ candidates'[Len(candidates) + 1].score = Worth(next)
      BY <1>2, <2>5 DEF new
    <3>3. \A i, j \in 1..Len(candidates) :
              candidates'[i].place = candidates'[j].place => i = j
      BY <1>2, <2>5 DEF ScanInv, CandidatesSound
    <3>4. \A p \in 1..next - 1 : Worth(p) > 0 =>
              \E i \in 1..Len(candidates) : candidates'[i].place = p
      BY <1>2, <1>3, <2>5 DEF ScanInv, CandidatesSound
    <3>5. \A i \in 1..Len(candidates) + 1 :
              /\ candidates'[i].place \in 1..next
              /\ candidates'[i].score = Worth(candidates'[i].place)
      BY <3>0, <3>1, <3>2
    <3>6. \A i, j \in 1..Len(candidates) + 1 :
              candidates'[i].place = candidates'[j].place => i = j
      BY <3>0, <3>1, <3>2, <3>3
    <3>7. \A p \in 1..next : Worth(p) > 0 =>
              \E i \in 1..Len(candidates) + 1 : candidates'[i].place = p
      BY <1>2, <1>3, <3>2, <3>4
    <3>8. Len(candidates) + 1 <= next
      BY <1>2, <1>3 DEF ScanInv, CandidatesSound
    <3> QED
      BY <1>3, <1>5, <2>5, <3>5, <3>6, <3>7, <3>8 DEF CandidatesSound
  <2> QED
    BY <1>4, <2>6, <2>7 DEF ScanInv
<1>7. CASE ~(score > 0)
  <2>1. candidates' = candidates
    BY <1>7 DEF Collect, Usable
  <2>2. TypeOK'
    BY <1>1, <1>3, <2>1 DEF ScanInv, TypeOK
  <2>3. CandidatesSound'
    BY <1>2, <1>3, <1>5, <1>7, <2>1 DEF ScanInv, CandidatesSound
  <2> QED
    BY <1>4, <2>2, <2>3 DEF ScanInv
<1> QED
  BY <1>6, <1>7

\* The scan starts with the first candidate as best, or there is none.
LEMMA StartScanInv ==
    ASSUME ScanInv, StartScan
    PROVE  ScanInv'
<1> USE ScoresInRange
<1>1. /\ pc = "collect" /\ next = Len(results) + 1 /\ Seen = Len(results) /\ secondBest = 0
      /\ UNCHANGED <<query, results, candidates, secondBest>>
  BY Sequences DEF ScanInv, Position, StartScan, Seen
<1>2. /\ Len(results) \in 0..MaxResults /\ DOMAIN results = 1..Len(results)
      /\ Len(candidates) \in Nat /\ DOMAIN candidates = 1..Len(candidates)
  BY Sequences DEF ScanInv
<1>3. pc' # "collect" /\ Seen' = Seen
  BY <1>1 DEF StartScan, Finish, Seen
<1>4. \A p : Worth(p)' = Worth(p)
  BY <1>1 DEF Worth
<1>5. CandidatesSound'
  BY <1>1, <1>3, <1>4 DEF ScanInv, CandidatesSound
<1>6. CASE candidates = <<>> /\ Finish("no_result") /\ UNCHANGED <<next, best>>
  <2>1. TypeOK'
    BY <1>1, <1>6 DEF ScanInv, TypeOK, Finish
  <2>2. Position' /\ ScanSound'
    BY <1>6 DEF Position, ScanSound, Finish
  <2>3. \A p \in DOMAIN results : ~(Worth(p) > 0)
    BY <1>1, <1>2, <1>6 DEF ScanInv, CandidatesSound
  <2>4. \A p \in DOMAIN results : ~(Worth(p) > MinimumScore)
    BY <1>2, <2>3, Sequences DEF ScanInv
  <2>5. FoundIsClear'
    BY <1>1, <1>4, <1>6, <2>4 DEF FoundIsClear, Finish, StrictlyClear
  <2> QED
    BY <1>5, <2>1, <2>2, <2>5 DEF ScanInv
<1>7. CASE candidates # <<>> /\ pc' = "scan" /\ best' = 1 /\ next' = 2 /\ UNCHANGED outcome
  <2>1. Len(candidates) >= 1
    <3>1. candidates \in Seq([place : 1..MaxResults, score : 1..Unit])
      BY DEF ScanInv, TypeOK
    <3> DEFINE Candidate == [place : 1..MaxResults, score : 1..Unit]
    <3> HIDE DEF Candidate
    <3> QED
      BY <1>2, <1>7, <3>1 DEF Candidate
  <2>2. MaxResults >= 1
    BY <1>2, <2>1, Sequences DEF ScanInv
  <2>3. TypeOK'
    BY <1>1, <1>2, <1>7, <2>1, <2>2 DEF ScanInv, TypeOK
  <2>4. Position' /\ ScanSound' /\ FoundIsClear'
    BY <1>1, <1>2, <1>7, <2>1 DEF Position, ScanSound, FoundIsClear
  <2> QED
    BY <1>5, <2>3, <2>4 DEF ScanInv
<1> QED
  BY <1>6, <1>7 DEF StartScan

\* The scan keeps the best of the candidates seen and the score of the next best.
LEMMA CompareInv ==
    ASSUME ScanInv, Compare
    PROVE  ScanInv'
<1> USE ScoresInRange
<1>1. /\ pc = "scan" /\ next \in 2..Len(candidates) /\ best \in 1..next - 1
      /\ next' = next + 1 /\ UNCHANGED <<pc, query, results, candidates, outcome>>
      /\ Len(candidates) \in Nat
  BY Sequences DEF ScanInv, Position, Compare
<1>2. \A i \in 1..Len(candidates) : ScoreOf(i) \in 1..Unit /\ ScoreOf(i)' = ScoreOf(i)
  BY <1>1, Sequences DEF ScanInv, ScoreOf
<1>3. Len(candidates) <= MaxResults /\ next' \in 0..MaxResults + 1
  <2>1. Len(candidates) <= Len(results) /\ Len(results) \in 0..MaxResults
    BY <1>1, Sequences DEF ScanInv, CandidatesSound, Seen
  <2> QED
    BY <1>1, <2>1
<1>4. /\ secondBest \in 0..Unit /\ best \in 1..Len(candidates)
      /\ \A i \in (1..next - 1) \ {best} : ScoreOf(i) <= ScoreOf(best) /\ ScoreOf(i) <= secondBest
      /\ secondBest = 0 \/ \E i \in (1..next - 1) \ {best} : ScoreOf(i) = secondBest
  BY <1>1 DEF ScanInv, TypeOK, ScanSound
<1>5. CandidatesSound' /\ FoundIsClear'
  <2>1. \A p : Worth(p)' = Worth(p)
    BY <1>1 DEF Worth
  <2> QED
    BY <1>1, <2>1 DEF ScanInv, CandidatesSound, Seen, FoundIsClear
<1>6. CASE ScoreOf(next) > ScoreOf(best) /\ secondBest' = Overtaken /\ best' = next
  <2>1. secondBest' = ScoreOf(best)
    BY <1>6 DEF Overtaken
  <2>2. TypeOK' /\ Position'
    <3>1. secondBest' \in 0..Unit
      <4>1. ScoreOf(best) \in 1..Unit
        BY <1>2, <1>4
      <4> QED
        BY <2>1, <4>1
    <3>2. best' \in 0..Len(candidates) /\ best' \in 1..next' - 1
          /\ next' \in 2..Len(candidates) + 1
      BY <1>1, <1>6
    <3>3. TypeOK'
      BY <1>1, <1>3, <3>1, <3>2 DEF ScanInv, TypeOK
    <3> QED
      BY <1>1, <3>2, <3>3 DEF Position
  <2>3. (1..next' - 1) \ {best'} = 1..next - 1
    BY <1>1, <1>6
  <2>4. \A i \in 1..next - 1 : ScoreOf(i) <= ScoreOf(next) /\ ScoreOf(i) <= ScoreOf(best)
    BY <1>1, <1>2, <1>4, <1>6
  <2>5. \A i \in 1..next - 1 :
            ScoreOf(i)' <= ScoreOf(best)' /\ ScoreOf(i)' <= secondBest'
    BY <1>1, <1>6, <2>1, <2>4 DEF ScoreOf
  <2>6. best \in 1..next - 1 /\ (ScoreOf(best) = secondBest')
    BY <1>1, <2>1
  <2>7. \E i \in 1..next - 1 : ScoreOf(i)' = secondBest'
    BY <1>1, <2>6 DEF ScoreOf
  <2>8. ScanSound'
    BY <2>3, <2>5, <2>7 DEF ScanSound
  <2> QED
    BY <1>5, <2>2, <2>8 DEF ScanInv
<1>7. CASE /\ ScoreOf(next) <= ScoreOf(best) /\ best' = best
           /\ secondBest' = IF ScoreOf(next) > secondBest THEN ScoreOf(next) ELSE secondBest
  <2>1. TypeOK' /\ Position'
    BY <1>1, <1>2, <1>3, <1>4, <1>7 DEF ScanInv, TypeOK, Position
  <2>2. (1..next' - 1) \ {best'} = ((1..next - 1) \ {best}) \cup {next}
    BY <1>1, <1>7
  <2>3. /\ \A i \in ((1..next - 1) \ {best}) \cup {next} :
              ScoreOf(i) <= ScoreOf(best) /\ ScoreOf(i) <= secondBest'
        /\ secondBest' = 0 \/ \E i \in ((1..next - 1) \ {best}) \cup {next} : ScoreOf(i) = secondBest'
    BY <1>1, <1>2, <1>4, <1>7
  <2>4. \A i \in 1..Len(candidates) : ScoreOf(i)' = ScoreOf(i)
    BY <1>2
  <2>5. ScoreOf(best)' = ScoreOf(best)
    BY <1>1, <1>7 DEF ScoreOf
  <2>6. \A i \in ((1..next - 1) \ {best}) \cup {next} : i \in 1..Len(candidates)
    BY <1>1
  <2>7. ScanSound'
    BY <2>2, <2>3, <2>4, <2>5, <2>6 DEF ScanSound
  <2> QED
    BY <1>5, <2>1, <2>7 DEF ScanInv
<1> QED
  BY <1>6, <1>7 DEF Compare

\* What the scan has found when it is over.
LEMMA ScanOver ==
    ASSUME ScanInv, pc = "scan", next > Len(candidates)
    PROVE  /\ best \in DOMAIN candidates /\ secondBest \in 0..Unit
           /\ \A i \in DOMAIN candidates : i # best =>
                 ScoreOf(i) <= ScoreOf(best) /\ ScoreOf(i) <= secondBest
           /\ secondBest = 0 \/ \E i \in DOMAIN candidates : i # best /\ ScoreOf(i) = secondBest
<1>1. next = Len(candidates) + 1 /\ Len(candidates) \in Nat /\ DOMAIN candidates = 1..Len(candidates)
  BY Sequences DEF ScanInv, Position
<1>2. (1..next - 1) = DOMAIN candidates
  BY <1>1
<1> QED
  BY <1>2 DEF ScanInv, TypeOK, Position, ScanSound

\* Then the thresholds decide as the definition of a clear place has it.
LEMMA DecideClear ==
    ASSUME ScanInv, Decide
    PROVE  /\ outcome' = "found" =>
                results[candidates[best].place].valid /\ Clear(candidates[best].place)
           /\ \A p \in DOMAIN results :
                StrictlyClear(p) => outcome' = "found" /\ candidates[best].place = p
<1> USE ScoresInRange
<1>0. /\ DOMAIN results = 1..Len(results) /\ Len(results) \in Nat
      /\ pc = "scan" /\ next > Len(candidates) /\ Seen = Len(results)
      /\ \A p \in 1..Len(results) : Worth(p) \in 0..Unit /\ (Worth(p) > 0 => results[p].valid)
      /\ \A i \in DOMAIN candidates : candidates[i].score \in 1..Unit
  BY Sequences DEF ScanInv, Decide, Seen
<1>1. /\ best \in DOMAIN candidates /\ secondBest \in 0..Unit
      /\ \A i \in DOMAIN candidates : i # best =>
            ScoreOf(i) <= ScoreOf(best) /\ ScoreOf(i) <= secondBest
      /\ secondBest = 0 \/ \E i \in DOMAIN candidates : i # best /\ ScoreOf(i) = secondBest
  BY <1>0, ScanOver
<1>2. /\ \A i \in DOMAIN candidates :
            /\ candidates[i].place \in DOMAIN results
            /\ ScoreOf(i) = Worth(candidates[i].place) /\ ScoreOf(i) \in 1..Unit
      /\ \A i, j \in DOMAIN candidates : candidates[i].place = candidates[j].place => i = j
      /\ \A p \in DOMAIN results : Worth(p) > 0 => \E i \in DOMAIN candidates : candidates[i].place = p
  BY <1>0 DEF ScanInv, CandidatesSound, ScoreOf
<1> DEFINE b == candidates[best].place
<1>3. ASSUME outcome' = "found" PROVE results[b].valid /\ Clear(b)
  <2>1. /\ ScoreOf(best) >= MinimumScore
        /\ secondBest <= MinimumScore \/ ScoreOf(best) - secondBest >= MinimumDifference
    BY <1>3 DEF Decide, Finish, MayReach, MayBeBelow, Unrivalled
  <2>2. Worth(b) = ScoreOf(best) /\ b \in DOMAIN results /\ results[b].valid
    BY <1>0, <1>1, <1>2
  <2>3. ASSUME NEW q \in DOMAIN results \ {b}
        PROVE  Worth(q) <= MinimumScore \/ Worth(b) - Worth(q) >= MinimumDifference
    <3>1. CASE Worth(q) > 0
      <4>1. PICK i \in DOMAIN candidates : candidates[i].place = q
        BY <1>2, <3>1
      <4>2. i # best /\ Worth(q) = ScoreOf(i) /\ ScoreOf(i) <= secondBest /\ ScoreOf(i) \in 1..Unit
        BY <1>1, <1>2, <2>3, <4>1
      <4>3. ScoreOf(best) \in 1..Unit /\ secondBest \in 0..Unit
        BY <1>1, <1>2
      <4> QED
        BY <2>1, <2>2, <4>2, <4>3
    <3>2. CASE ~(Worth(q) > 0)
      BY <1>0, <3>2
    <3> QED
      BY <3>1, <3>2
  <2> QED
    BY <2>1, <2>2, <2>3 DEF Clear
<1>4. ASSUME NEW p \in DOMAIN results, StrictlyClear(p) PROVE outcome' = "found" /\ b = p
  <2>1. /\ Worth(p) > MinimumScore /\ Worth(p) \in 0..Unit
        /\ \A q \in DOMAIN results \ {p} :
              /\ Worth(q) \in 0..Unit
              /\ Worth(q) < MinimumScore \/ Worth(p) - Worth(q) > MinimumDifference
    BY <1>0, <1>4 DEF StrictlyClear
  <2>2. PICK i \in DOMAIN candidates : candidates[i].place = p
    BY <1>2, <2>1
  <2>3. ScoreOf(i) = Worth(p) /\ ScoreOf(best) = Worth(b) /\ b \in DOMAIN results
        /\ ScoreOf(best) \in 1..Unit
    BY <1>1, <1>2, <2>2
  <2>4. b = p
    <3>1. CASE i = best
      BY <2>2, <3>1
    <3>2. CASE i # best /\ b # p
      <4>1. ScoreOf(i) <= ScoreOf(best)
        BY <1>1, <3>2
      <4> QED
        BY <2>1, <2>3, <3>2, <4>1
    <3> QED
      BY <3>1, <3>2
  <2>5. secondBest < MinimumScore \/ ScoreOf(best) - secondBest > MinimumDifference
    <3>1. CASE secondBest = 0
      BY <3>1
    <3>2. ASSUME NEW j \in DOMAIN candidates, j # best, ScoreOf(j) = secondBest
          PROVE  secondBest < MinimumScore \/ ScoreOf(best) - secondBest > MinimumDifference
      <4>1. candidates[j].place \in DOMAIN results \ {p} /\ Worth(candidates[j].place) = secondBest
        BY <1>1, <1>2, <2>4, <3>2
      <4> QED
        BY <2>1, <2>3, <2>4, <4>1
    <3> QED
      BY <1>1, <3>1, <3>2
  <2>6. ~MayBeBelow(ScoreOf(best), MinimumScore) /\ ~Ambiguous
    BY <1>1, <2>1, <2>3, <2>4, <2>5 DEF MayBeBelow, MayReach, Ambiguous
  <2> QED
    BY <2>4, <2>6 DEF Decide, Finish
<1> QED
  BY <1>3, <1>4

LEMMA DecideInv ==
    ASSUME ScanInv, Decide
    PROVE  ScanInv'
<1>1. /\ pc = "scan" /\ pc' = "done"
      /\ UNCHANGED <<query, results, candidates, next, best, secondBest>>
      /\ outcome' \in {"too_different", "ambiguous", "found"}
  BY DEF Decide, Finish, NoScan
<1>2. \A p : Worth(p)' = Worth(p)
  BY <1>1 DEF Worth
<1>3. TypeOK' /\ Position' /\ ScanSound'
  BY <1>1 DEF ScanInv, TypeOK, Position, ScanSound
<1>4. CandidatesSound'
  BY <1>1, <1>2 DEF ScanInv, CandidatesSound, Seen
<1>5. \A p : (Clear(p)' <=> Clear(p)) /\ (StrictlyClear(p)' <=> StrictlyClear(p))
  BY <1>1, <1>2 DEF Clear, StrictlyClear
<1>6. FoundIsClear'
  BY <1>1, <1>5, DecideClear DEF FoundIsClear
<1> QED
  BY <1>3, <1>4, <1>6 DEF ScanInv

LEMMA NextInv == ScanInv /\ [Next]_vars => ScanInv'
<1> SUFFICES ASSUME ScanInv, [Next]_vars PROVE ScanInv'
  OBVIOUS
<1>1. CASE UNCHANGED vars
  <2>1. UNCHANGED <<pc, query, results, candidates, next, best, secondBest, outcome>>
    BY <1>1 DEF vars
  <2>2. \A p : Worth(p)' = Worth(p)
    BY <2>1 DEF Worth
  <2>3. \A p : (Clear(p)' <=> Clear(p)) /\ (StrictlyClear(p)' <=> StrictlyClear(p))
    BY <2>1, <2>2 DEF Clear, StrictlyClear
  <2>4. TypeOK' /\ Position' /\ ScanSound' /\ CandidatesSound'
    BY <2>1, <2>2 DEF ScanInv, TypeOK, Position, ScanSound, ScoreOf, CandidatesSound, Seen
  <2>5. FoundIsClear'
    BY <2>1, <2>3 DEF ScanInv, FoundIsClear
  <2> QED
    BY <2>4, <2>5 DEF ScanInv
<1>2. CASE Next
  BY <1>2, RefuseInv, RespondInv, CollectInv, StartScanInv, CompareInv, DecideInv DEF Next
<1> QED
  BY <1>1, <1>2

LEMMA Inductive == Spec => []ScanInv
  BY InitInv, NextInv, PTL DEF Spec

-----------------------------------------------------------------------------
(* Theorems *)

\* Every variable keeps its type: the scan never looks beyond the candidates,
\* and every candidate scores something (getLATLONGfromUserLocation).
THEOREM TypeCorrect == Spec => []TypeOK
<1>1. ScanInv => TypeOK
  BY DEF ScanInv
<1> QED
  BY <1>1, Inductive, PTL

\* At every point of the second loop best and secondBestScore are the best two of
\* the candidates seen (getLATLONGfromUserLocation).
THEOREM ScanSoundHolds == Spec => []ScanSound
<1>1. ScanInv => ScanSound
  BY DEF ScanInv
<1> QED
  BY <1>1, Inductive, PTL

\* A place is found if, and at the thresholds only if, it stands out, wherever it
\* is in the provider's response (getLATLONGfromUserLocation).
THEOREM FoundIsClearHolds == Spec => []FoundIsClear
<1>1. ScanInv => FoundIsClear
  BY DEF ScanInv
<1> QED
  BY <1>1, Inductive, PTL

\* Of every string normalizeLocation yields the canonical form, and normalising
\* that once more, as locationMatchScore does with the query, changes nothing.
THEOREM NormalIsCanonicalHolds == Spec => []NormalIsCanonical
<1>1. ASSUME NEW w \in Words
      PROVE  /\ Canonical(normalizeLocation(w), w)
             /\ normalizeLocation(normalizeLocation(w)) = normalizeLocation(w)
  <2>1. w \in Seq(Char)
    BY GeocodingAssumption
  <2>2. Canonical(normalizeLocation(w), w)
    BY <2>1, NormalCanonical
  <2>3. normalizeLocation(w) \in Seq(Char) /\ Tidy(normalizeLocation(w))
    BY <2>1, <2>2, NormalType, CanonicalTidy
  <2> QED
    BY <2>2, <2>3, NormalOfTidy
<1>2. NormalIsCanonical
  BY <1>1 DEF NormalIsCanonical
<1> QED
  BY <1>2, PTL

\* For every two strings the last of the rows that stringSimilarity computes ends
\* in the cost of a cheapest alignment.
THEOREM DistanceIsCheapestHolds == Spec => []DistanceIsCheapest
<1>1. \A w \in Words : normalizeLocation(w) \in Seq(Char)
  BY GeocodingAssumption, NormalType
<1>2. DistanceIsCheapest
  BY <1>1, EditDistance DEF DistanceIsCheapest
<1> QED
  BY <1>2, PTL

\* Every two strings have a score between none and full: no division by zero and
\* no score outside 0..1 (locationMatchScore).
THEOREM EveryScoreInRange ==
    \A q, c \in Seq(Char) : locationMatchScore(q, c) \in 0..Unit
BY MatchScoreType

=============================================================================
