----------------------------- MODULE PyPIMarker -----------------------------
(***************************************************************************)
(* Environment markers (internal/pypi/requirement.go): the recursive       *)
(* descent parser that evaluates while it parses.                          *)
(*                                                                         *)
(* A token has a kind and a value, as tokenizeMarker returns them.  Texts  *)
(* are opaque: what the code asks of a text (the version it denotes, its   *)
(* place in string order, the texts it contains) is given by constants.    *)
(***************************************************************************)
EXTENDS PyPIVersion

CONSTANTS
    Text,       \* the texts of operands
    TextRank,   \* their places in string order
    Within,     \* the pairs <<t, u>> of texts such that t is part of u
    Denotes     \* the versions of the texts that ParseVersion accepts

ASSUME TextAssumption ==
    /\ TextRank \in [Text -> Nat]
    /\ \A t, u \in Text : TextRank[t] = TextRank[u] => t = u
    /\ Within \subseteq Text \X Text
    /\ DOMAIN Denotes \subseteq Text

Platforms == {"linux", "windows", "darwin"}

TextOf(release) == CHOOSE t \in DOMAIN Denotes : Denotes[t].release = release

(* NewTarget: the variables that a marker may use, and their values.       *)
NewTarget(release, platform) ==
    LET full == TextOf(IF Len(release) = 2 THEN Append(release, 0) ELSE release) IN
    [python_version |-> TextOf(SubSeq(release, 1, 2)),
     python_full_version |-> full,
     implementation_version |-> full,
     sys_platform |-> IF platform = "windows" THEN "win32" ELSE platform,
     os_name |-> IF platform = "windows" THEN "nt" ELSE "posix",
     platform_system |-> CASE platform = "linux" -> "Linux"
                           [] platform = "windows" -> "Windows"
                           [] platform = "darwin" -> "Darwin",
     implementation_name |-> "cpython",
     platform_python_implementation |-> "CPython",
     extra |-> ""]

VersionVariable == {"python_version", "python_full_version", "implementation_version"}
Operator == {"==", "!=", "<", "<=", ">", ">=", "~=", "==="}

(* An operand: its value, and the variable it came from or "".             *)
BothVersions(l, r) == {l, r} \subseteq DOMAIN Denotes

compareValues(l, r, lv, rv) ==
    IF {lv, rv} \cap VersionVariable # {} /\ BothVersions(l, r)
    THEN Compare(Denotes[l], Denotes[r]) ELSE compareInt(TextRank[l], TextRank[r])

compareMarkerValues(l, r, op, lv, rv) ==
    LET compared == compareValues(l, r, lv, rv) IN
    CASE op = "in" -> <<l, r>> \in Within
      [] op = "not in" -> <<l, r>> \notin Within
      [] op \in {"==", "==="} -> compared = 0
      [] op = "!=" -> compared # 0
      [] op = "<" -> compared < 0
      [] op = "<=" -> compared <= 0
      [] op = ">" -> compared > 0
      [] op = ">=" -> compared >= 0
      [] op = "~=" -> /\ BothVersions(l, r) /\ Compare(Denotes[l], Denotes[r]) >= 0
                      /\ compatiblePrefix(Denotes[l], Denotes[r])
-----------------------------------------------------------------------------
(* A parser function takes the tokens and a position and returns whether   *)
(* it succeeded, the value, and the position behind what it has read.      *)
EOF == [kind |-> "eof", value |-> ""]
At(tokens, i) == IF i <= Len(tokens) THEN tokens[i] ELSE EOF

Parsed(value, next) == [ok |-> TRUE, value |-> value, next |-> next]
Rejected == [ok |-> FALSE, value |-> FALSE, next |-> 0]

IsOperand(token, target) ==
    token.kind = "string" \/ (token.kind = "word" /\ token.value \in DOMAIN target)
ValueOf(token, target) == IF token.kind = "string" THEN token.value ELSE target[token.value]
VariableOf(token) == IF token.kind = "string" THEN "" ELSE token.value

(* A keyword is known by its value alone: it may be quoted, and in any     *)
(* case (upper case stands for every other one).                           *)
Upper == [or |-> "OR", and |-> "AND", in |-> "IN", not |-> "NOT"]
EqualFold(value, keyword) == value \in {keyword, Upper[keyword]}

(* parseOperator: the operator, "" for none, and its number of tokens.     *)
parseOperator(tokens, i) ==
    LET token == At(tokens, i) IN
    IF token.kind = "operator" THEN <<IF token.value \in Operator THEN token.value ELSE "", 1>>
    ELSE IF EqualFold(token.value, "in") THEN <<"in", 1>>
    ELSE IF EqualFold(token.value, "not") /\ EqualFold(At(tokens, i + 1).value, "in")
    THEN <<"not in", 2>>
    ELSE <<"", 1>>

parseComparison(tokens, i, target) ==
    LET op == parseOperator(tokens, i + 1)
        left == At(tokens, i)
        right == At(tokens, i + 1 + op[2]) IN
    IF IsOperand(left, target) /\ op[1] # "" /\ IsOperand(right, target)
    THEN Parsed(compareMarkerValues(ValueOf(left, target), ValueOf(right, target), op[1],
                                    VariableOf(left), VariableOf(right)),
                i + 2 + op[2])
    ELSE Rejected

(* The three levels of the grammar.  A level's parser takes the parser of  *)
(* all levels, a function of level and position, for the operands it reads.*)
parseOr(parse, tokens, i) ==
    LET left == parse["and", i] IN
    IF ~ left.ok \/ ~ EqualFold(At(tokens, left.next).value, "or") THEN left
    ELSE LET right == parse["or", left.next + 1]
         IN [right EXCEPT !.value = left.value \/ right.value]

parseAndOrToo(parse, tokens, i) ==
    LET left == parse["term", i] IN
    IF ~ left.ok \/ ~ \E keyword \in {"and", "or"} : EqualFold(At(tokens, left.next).value, keyword)
    THEN left
    ELSE LET right == parse["and", left.next + 1]
         IN [right EXCEPT !.value = IF EqualFold(At(tokens, left.next).value, "and")
                                    THEN left.value /\ right.value ELSE left.value \/ right.value]
parseAnd(parse, tokens, i) ==
    LET left == parse["term", i] IN
    IF ~ left.ok \/ ~ EqualFold(At(tokens, left.next).value, "and") THEN left
    ELSE LET right == parse["and", left.next + 1]
         IN [right EXCEPT !.value = left.value /\ right.value]

parseTerm(parse, tokens, i, target) ==
    IF At(tokens, i).kind # "(" THEN parseComparison(tokens, i, target)
    ELSE LET inner == parse["or", i + 1]
         IN IF inner.ok /\ At(tokens, inner.next).kind = ")"
            THEN Parsed(inner.value, inner.next + 1) ELSE Rejected

Parser(tokens, target) ==
    LET parse[level \in {"or", "and", "term"}, i \in 1 .. Len(tokens) + 1] ==
            CASE level = "or" -> parseOr(parse, tokens, i)
              [] level = "and" -> parseAnd(parse, tokens, i)
              [] level = "term" -> parseTerm(parse, tokens, i, target)
    IN parse

(* EvaluateMarker: everything must have been read.                         *)
EvaluateMarker(tokens, target) ==
    LET result == Parser(tokens, target)["or", 1]
    IN IF result.ok /\ At(tokens, result.next).kind = "eof" THEN result ELSE Rejected
=============================================================================
