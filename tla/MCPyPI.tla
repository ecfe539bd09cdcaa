------------------------------- MODULE MCPyPI -------------------------------
(* Instances of PyPIClient for TLC.                                        *)
EXTENDS PyPIEvaluation, SequencesExt, TLC

CONSTANTS legacy

V(epoch, release, pre, post, dev, local) ==
    [epoch |-> epoch, release |-> release, pre |-> pre, post |-> post, dev |-> dev, local |-> local,
     spelling |-> 0]
Final(release) == V(0, release, <<>>, <<>>, <<>>, <<>>)

V1 == Final(<<1>>)
V1Alpha == V(0, <<1>>, <<0, 1>>, <<>>, <<>>, <<>>)
V1Post == V(0, <<1>>, <<>>, <<1>>, <<>>, <<>>)
V1_0 == Final(<<1, 0>>)
V1_1 == Final(<<1, 1>>)
V1_0Post == V(0, <<1, 0>>, <<>>, <<1>>, <<>>, <<>>)
V1_0Local == V(0, <<1, 0>>, <<>>, <<>>, <<>>, <<<<0, 1>>, <<1, 2>>>>)
V1_1Alpha == V(0, <<1, 1>>, <<0, 1>>, <<>>, <<>>, <<>>)
V1_1AlphaSpelt == [V1_1Alpha EXCEPT !.spelling = 1]
V1_1AlphaDev == V(0, <<1, 1>>, <<0, 1>>, <<>>, <<1>>, <<>>)
V1_1Rc == V(0, <<1, 1, 0>>, <<2, 1>>, <<>>, <<>>, <<>>)
V1_1Dev == V(0, <<1, 1>>, <<>>, <<>>, <<1>>, <<>>)
V1_1Dev2 == V(0, <<1, 1>>, <<>>, <<>>, <<2>>, <<>>)
V1_0PostDev == V(0, <<1, 0>>, <<>>, <<1>>, <<1>>, <<>>)
V2 == Final(<<2>>)
VEpoch == V(1, <<0, 5>>, <<>>, <<>>, <<>>, <<>>)

MCRelease ==
    {V1, V1_0, V1_1, V1_0Post, V1_0Local, V1_1Alpha, V1_1AlphaSpelt, V1_1AlphaDev, V1_1Rc, V1_1Dev,
     V1_0PostDev, V2, VEpoch, legacy}
MCLegacy == {legacy}

(* Up to three releases, at most one of them without a file to install.    *)
MCListing ==
    UNION {{l \in [R -> {{FALSE}, {TRUE}, {TRUE, FALSE}, {}}] :
               Cardinality({r \in R : l[r] # {FALSE}}) <= 1} :
           R \in UNION {kSubset(k, MCRelease) : k \in 0 .. 3}}
-----------------------------------------------------------------------------
Clause(op, v) == [op |-> op, v |-> v, prefix |-> FALSE, dotted |-> Len(v.release) > 1]
Dotted(op, v) == [op |-> op, v |-> v, prefix |-> FALSE, dotted |-> TRUE]
Wildcard(op, v) == [op |-> op, v |-> v, prefix |-> TRUE, dotted |-> TRUE]

Wild1_0 == Wildcard("==", V1_0)

(* Clauses that are combined with each other, and others.                  *)
Combined ==
    {Clause(">=", V1_0), Clause("<", V1_1), Clause("!=", V1_0), Clause("===", V1_0),
     Clause(">", V1_1Dev)}
Others ==
    {Clause(op, v) : op \in {"==", "<=", ">", "<", "~="}, v \in {V1_0, V1_1Alpha, V1_1Dev2, V1_0Post}}
    \cup {Clause("==", V1_0Local), Clause("!=", V1_0Local), Clause("~=", V1), Clause("~=", V1Post),
          Dotted("~=", V1Post), Dotted("~=", V1Alpha), Clause("===", V1_1AlphaSpelt),
          Clause(">=", VEpoch), Wild1_0, Wildcard("!=", V1), Wildcard(">=", V1)}

Word(w) == [kind |-> "word", value |-> w]
Str(t) == [kind |-> "string", value |-> t]
Op(o) == [kind |-> "operator", value |-> o]
Open == [kind |-> "(", value |-> "("]
Close == [kind |-> ")", value |-> ")"]

(* CPython 3.12 on Linux, the target of DependencyAuditHandler.            *)
MCText ==
    <<"", "3.*", "3.12", "3.12.0", "3.8", "3.9", "CPython", "Linux", "Windows", "and", "cpython",
      "in", "linux", "linux2", "not", "or", "posix", "win32">>
MCTextSet == {MCText[i] : i \in DOMAIN MCText}
MCTextRank == [t \in MCTextSet |-> CHOOSE i \in DOMAIN MCText : MCText[i] = t]
MCWithin ==
    {<<t, t>> : t \in MCTextSet} \cup {<<"", t>> : t \in MCTextSet}
    \cup {<<"3.12", "3.12.0">>, <<"linux", "linux2">>}
    \cup {<<"in", t>> : t \in {"Linux", "Windows", "linux", "linux2", "win32"}}
MCWildcards == {"3.*"}
MCDenotes ==
    [t \in {"3.8", "3.9", "3.12", "3.12.0"} |->
        Final(CASE t = "3.8" -> <<3, 8>> [] t = "3.9" -> <<3, 9>>
                [] t = "3.12" -> <<3, 12>> [] t = "3.12.0" -> <<3, 12, 0>>)]
MCTarget == NewTarget(<<3, 12>>, "linux")

Since3_9 == <<Word("python_version"), Op(">="), Str("3.9")>>
OnWindows == <<Word("sys_platform"), Op("=="), Str("win32")>>

MCTruth ==
    Since3_9 :> TRUE @@ OnWindows :> FALSE
    @@ <<Str("3.9"), Op("<"), Word("python_version")>> :> TRUE
    @@ <<Word("python_version"), Op("<="), Str("3.9")>> :> FALSE
    @@ <<Word("python_version"), Op("!="), Str("3.12.0")>> :> FALSE
    @@ <<Word("python_full_version"), Op("~="), Str("3.8")>> :> TRUE
    @@ <<Word("implementation_version"), Op(">"), Str("3.9")>> :> TRUE
    @@ <<Str("linux"), Word("in"), Word("sys_platform")>> :> TRUE
    @@ <<Word("sys_platform"), Word("not"), Word("in"), Str("linux2")>> :> FALSE
    @@ <<Str("in"), Word("in"), Word("sys_platform")>> :> TRUE
    @@ <<Word("os_name"), Op("=="), Str("posix")>> :> TRUE
    @@ <<Word("platform_system"), Op("=="), Str("Windows")>> :> FALSE
    @@ <<Word("implementation_name"), Op("=="), Str("cpython")>> :> TRUE
    @@ <<Word("platform_python_implementation"), Op("=="), Str("CPython")>> :> TRUE
    @@ <<Str("or"), Op("=="), Word("extra")>> :> FALSE
    @@ <<Word("python_version"), Op("=="), Op("="), Str("3.12")>> :> TRUE
    @@ <<Word("platform_machine"), Op("=="), Str("linux")>> :> FALSE
    @@ <<Word("python_version"), Op("=="), Str("3.*")>> :> TRUE
    @@ <<Str("3.*"), Op("!="), Word("python_full_version")>> :> FALSE

(* Up to four words of a marker, well-formed or not; longer ones; keywords *)
(* that are quoted or in upper case; and the other comparisons.            *)
Unit == {Since3_9, OnWindows, <<Open>>, <<Close>>, <<Word("and")>>, <<Word("or")>>}
Connective == {<<Word("and")>>, <<Word("or")>>}
Improper == {<<Str("and")>>, <<Str("or")>>, <<Word("AND")>>, <<Word("OR")>>}
Atom == {Since3_9, OnWindows}
MCMarkers ==
    {FlattenSeq(units) : units \in UNION {[1 .. n -> Unit] : n \in 1 .. 4}}
    \cup {a \o o \o <<Open>> \o b \o p \o c \o <<Close>> : a, b, c \in Atom, o, p \in Connective}
    \cup {<<Open>> \o b \o p \o c \o <<Close>> \o o \o a : a, b, c \in Atom, o, p \in Connective}
    \cup {a \o o \o b \o p \o c : a, b, c \in Atom, o, p \in Connective}
    \cup {a \o o \o b \o p \o c \o q \o d : a, b, c, d \in Atom, o, p, q \in Connective}
    \cup {a \o o \o b \o p \o c : a, b, c \in Atom, o \in Improper, p \in Connective \cup Improper}
    \cup {a \o o \o <<Str("or"), Op("=="), Word("extra")>> : a \in Atom, o \in Connective}
    \cup DOMAIN MCTruth
    \cup {<<Str("linux"), k, Word("sys_platform")>> : k \in {Word("IN"), Str("in"), Str("or")}}
    \cup {<<Word("sys_platform"), k, l, Str("linux2")>> :
              k \in {Word("NOT"), Str("not")}, l \in {Word("in"), Word("IN"), Str("in")}}
    \cup {<<Word("python_version"), Word("not"), Str("3.12")>>}
-----------------------------------------------------------------------------
MCNormalizeName == [n \in {"a", "A", "b"} |-> IF n = "b" THEN "b" ELSE "a"]

Required(name, constraint, marker) ==
    [name |-> name, supported |-> TRUE, constraint |-> constraint, marker |-> marker]

(* One requirement with any marker; one with any clause; two or three that *)
(* may be of one package.                                                  *)
Several ==
    {Required(n, C, mark) : n \in {"a", "A", "b"}, mark \in {<<>>, OnWindows},
                            C \in {{}} \cup {{c} : c \in Combined}}
MCRequirements ==
    {<<Required("a", {}, mark)>> : mark \in MCMarkers}
    \cup {<<Required("a", {c}, <<>>)>> : c \in Combined \cup Others}
    \cup {<<q, r>> : q, r \in Several}
    \cup {<<[Required("a", {}, <<>>) EXCEPT !.supported = FALSE]>>, <<>>,
          <<Required("a", {Clause(">=", V1_0), Clause("<", V1_1)}, <<>>),
            Required("b", {}, <<>>), Required("A", {Clause("!=", V1_0)}, <<>>)>>}
=============================================================================
