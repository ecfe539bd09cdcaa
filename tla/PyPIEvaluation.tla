--------------------------- MODULE PyPIEvaluation ---------------------------
(* Markers of the requirements that PyPIClient reads, compared with what   *)
(* PEP 508 says they mean.                                                 *)
EXTENDS PyPIClient

CONSTANTS
    Truth,     \* the comparisons that PEP 508 allows, and whether they hold of Target
    Wildcards  \* the texts that end in .*

Marker == INSTANCE PEP508

(* The marker with its keywords unquoted and in lower case.                *)
Keywords(token) == {k \in DOMAIN Upper : EqualFold(token.value, k)}
Proper(marker) ==
    [i \in DOMAIN marker |->
        IF Keywords(marker[i]) = {} THEN marker[i]
        ELSE [kind |-> "word", value |-> CHOOSE k \in Keywords(marker[i]) : TRUE]]

(* What PEP 508 has and the code has not: ===, which the tokenizer cuts    *)
(* into two operators, and some variables.                                 *)
Unsupported(marker) ==
    \E i \in DOMAIN marker :
        \/ marker[i] = [kind |-> "operator", value |-> "="]
        \/ /\ marker[i].kind = "word"
           /\ marker[i].value \in {"platform_machine", "platform_release", "platform_version"}

HasWildcard(marker) ==
    \E i \in DOMAIN marker : marker[i].kind = "string" /\ marker[i].value \in Wildcards

(* The parser, which evaluates a marker while it reads it, accepts the     *)
(* well-formed ones and gives them the value of their structure: `and'     *)
(* binds stronger than `or', parentheses must match, nothing may follow,   *)
(* and Python versions are compared as versions (3.9 is below 3.12).  There*)
(* are three differences to PEP 508: a marker that is malformed only in    *)
(* that a keyword is quoted or in upper case is read as if it were not, one*)
(* with === or a variable the code lacks is rejected, and a comparison with*)
(* a wildcard (python_version == '3.*') is a comparison of texts.          *)
MarkersExact ==
    stage = "requirements" => \A i \in DOMAIN reqs : reqs[i].marker # <<>> =>
        LET marker == reqs[i].marker
            result == EvaluateMarker(marker, Target)
            read == IF ~ result.ok THEN "error" ELSE IF result.value THEN "true" ELSE "false" IN
        \/ read = Marker!Meaning(marker)
        \/ Marker!Meaning(marker) = "error" /\ read = Marker!Meaning(Proper(marker))
        \/ read = "error" /\ Unsupported(marker)
        \/ HasWildcard(marker) /\ {read, Marker!Meaning(marker)} \subseteq {"true", "false"}
=============================================================================
