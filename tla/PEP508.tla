------------------------------- MODULE PEP508 -------------------------------
(***************************************************************************)
(* What a marker means, by its structure rather than by parsing it: `or'   *)
(* binds weaker than `and', parentheses group.                             *)
(***************************************************************************)
LOCAL INSTANCE Integers
LOCAL INSTANCE Sequences
LOCAL INSTANCE FiniteSets

CONSTANT
    Truth  \* the well-formed comparisons, as tokens, and whether they hold

Opened(s, i) == Cardinality({k \in 1 .. i : s[k].kind = "("})
Closed(s, i) == Cardinality({k \in 1 .. i : s[k].kind = ")"})

(* The places of a word outside all parentheses.                           *)
Outside(s, word) ==
    {i \in DOMAIN s : s[i].kind = "word" /\ s[i].value = word /\ Opened(s, i) = Closed(s, i)}

Both(a, b, value) == IF "error" \in {a, b} THEN "error" ELSE value

RECURSIVE Meaning(_)

Meaning(s) ==
    LET Left(i) == Meaning(SubSeq(s, 1, i - 1))
        Right(i) == Meaning(SubSeq(s, i + 1, Len(s))) IN
    IF Outside(s, "or") # {} THEN
        LET i == CHOOSE k \in Outside(s, "or") : TRUE
        IN Both(Left(i), Right(i), IF "true" \in {Left(i), Right(i)} THEN "true" ELSE "false")
    ELSE IF Outside(s, "and") # {} THEN
        LET i == CHOOSE k \in Outside(s, "and") : TRUE
        IN Both(Left(i), Right(i), IF "false" \in {Left(i), Right(i)} THEN "false" ELSE "true")
    ELSE IF s \in DOMAIN Truth THEN (IF Truth[s] THEN "true" ELSE "false")
    ELSE IF Len(s) > 2 /\ s[1].kind = "(" /\ s[Len(s)].kind = ")"
    THEN Meaning(SubSeq(s, 2, Len(s) - 1)) ELSE "error"
=============================================================================
