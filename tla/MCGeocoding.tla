---------------------------- MODULE MCGeocoding ----------------------------
(***************************************************************************)
(* Geocoding on short strings.  "A" is the capital of "a", "-" a separator *)
(* and "_" the blank.  The thresholds are one half and one quarter, which  *)
(* strings of four characters can meet exactly.                            *)
(***************************************************************************)
EXTENDS Geocoding, TLC

MCChar == {"a", "b", "A", "-", "_"}

MCPlain == {"a", "b"}

MCLower == [c \in MCChar |-> IF c = "A" THEN "a" ELSE c]

MCQueries == {<<"A", "b", "a", "b">>, <<"a", "b", "-", "b">>, <<"-">>}

MCLabels == {<<"a", "b", "a", "b">>, <<"a", "b", "a">>, <<"-", "A", "b">>}

\* All strings of up to three characters, and runs of separators within longer ones.
MCWords ==
    UNION {[1..n -> {"a", "b", "A", "-"}] : n \in 0..3}
        \cup {<<"a", "-", "-", "b">>, <<"-", "a", "-", "b">>, <<"-", "-", "A", "-">>}

=============================================================================
