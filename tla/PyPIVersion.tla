---------------------------- MODULE PyPIVersion -----------------------------
(***************************************************************************)
(* Python versions and constraints (internal/pypi/version.go).             *)
(*                                                                         *)
(* A version is what ParseVersion makes of its text: a record of epoch,    *)
(* release segments, and the optional parts, each a tuple that is empty    *)
(* when the part is absent.  A local segment is <<1, n>> if it is a number *)
(* and <<0, k>> if it is a word, k its place in string order.  Texts with  *)
(* the same parts (1.0a1 and 1.0.alpha.1) are told apart by their spelling.*)
(*                                                                         *)
(* A constraint is the set of its comma-separated clauses: all must match, *)
(* so their order and repetitions do not matter.                           *)
(***************************************************************************)
EXTENDS Integers, Sequences, FiniteSets, FiniteSetsExt

(* The records that ParseVersion returns.                                  *)
Optional(n) == {part \in Seq(Nat) : Len(part) \in {0, n}}
Version ==
    [epoch : Nat, release : Seq(Nat) \ {<<>>}, pre : Optional(2),
     post : Optional(1), dev : Optional(1), local : Seq({0, 1} \X Nat), spelling : Nat]

compareInt(l, r) == IF l < r THEN -1 ELSE IF l > r THEN 1 ELSE 0

(* The first comparison that decides.                                      *)
Decide(results) ==
    LET decisive == {i \in DOMAIN results : results[i] # 0}
    IN IF decisive = {} THEN 0 ELSE results[Min(decisive)]

Part(release, i) == IF i <= Len(release) THEN release[i] ELSE 0

compareRelease(l, r) ==
    Decide([i \in 1 .. Max({Len(l), Len(r)}) |-> compareInt(Part(l, i), Part(r, i))])

(* Rank, kind and number of the prerelease part: a development release of  *)
(* nothing but a release precedes its prereleases, which precede it.       *)
PreRank(v) ==
    IF v.pre # <<>> THEN <<0>> \o v.pre
    ELSE IF v.dev # <<>> /\ v.post = <<>> THEN <<-1, 0, 0>> ELSE <<1, 0, 0>>

comparePre(l, r) == Decide([i \in 1 .. 3 |-> compareInt(PreRank(l)[i], PreRank(r)[i])])

compareOptionalNumber(l, r, missingRank) ==
    IF l = <<>> /\ r = <<>> THEN 0
    ELSE IF l = <<>> THEN missingRank
    ELSE IF r = <<>> THEN -missingRank ELSE compareInt(l[1], r[1])

compareLocal(l, r) ==
    Decide([i \in 1 .. Min({Len(l), Len(r)}) |->
               Decide(<<compareInt(l[i][1], r[i][1]), compareInt(l[i][2], r[i][2])>>)]
           \o <<compareInt(Len(l), Len(r))>>)

CompareMissingDevLow(l, r) ==
    Decide(<<compareInt(l.epoch, r.epoch), compareRelease(l.release, r.release),
             comparePre(l, r), compareOptionalNumber(l.post, r.post, -1),
             compareOptionalNumber(l.dev, r.dev, -1), compareLocal(l.local, r.local)>>)
Compare(l, r) ==
    Decide(<<compareInt(l.epoch, r.epoch), compareRelease(l.release, r.release),
             comparePre(l, r), compareOptionalNumber(l.post, r.post, -1),
             compareOptionalNumber(l.dev, r.dev, 1), compareLocal(l.local, r.local)>>)
-----------------------------------------------------------------------------
(* A clause has an operator and a version; the one of a wildcard clause    *)
(* (prefix) has an epoch and a release only.  It is dotted if its text has *)
(* a dot in front of any + or - (1.a1, 1.post1, but neither 1post1 nor     *)
(* 1-1).  A text of === that denotes no version equals none that is listed.*)
versionClause ==
    {c \in [op : {"===", "~=", "==", "!=", "<=", ">=", "<", ">"}, v : Version,
            prefix : BOOLEAN, dotted : BOOLEAN] : Len(c.v.release) > 1 => c.dotted}

IsPrerelease(v) == v.pre # <<>> \/ v.dev # <<>>

(* parseConstraint succeeds.                                               *)
Parses(C) ==
    /\ \A c \in C : c.op = "===" => Cardinality(C) = 1
    /\ \A c \in C : c.op = "~=" => c.dotted
    /\ \A c \in C : c.prefix => c.op \in {"==", "!="}

(* permitsPrerelease of parseConstraint.                                   *)
PermitsPrerelease(C) == \E c \in C : c.op # "===" /\ ~ c.prefix /\ IsPrerelease(c.v)

StartsWith(release, prefix) ==
    /\ Len(release) >= Len(prefix)
    /\ \A i \in DOMAIN prefix : release[i] = prefix[i]

compatiblePrefix(v, least) ==
    /\ v.epoch = least.epoch
    /\ StartsWith(v.release, SubSeq(least.release, 1, Max({1, Len(least.release) - 1})))

compareSpecifierVersion(v, specified) ==
    Compare(IF specified.local = <<>> THEN [v EXCEPT !.local = <<>>] ELSE v, specified)

samePublicRelease(v, w) == v.epoch = w.epoch /\ compareRelease(v.release, w.release) = 0

MatchesPrefix(v, c) == v.epoch = c.v.epoch /\ StartsWith(v.release, c.v.release)

MatchesVersion(v, c) ==
    LET compared == compareSpecifierVersion(v, c.v) IN
    CASE c.op = "==" -> compared = 0
      [] c.op = "!=" -> compared # 0
      [] c.op = "<=" -> compared <= 0
      [] c.op = ">=" -> compared >= 0
      [] c.op = "<" -> /\ compared < 0
                       /\ ~ (c.v.pre = <<>> /\ samePublicRelease(v, c.v) /\ IsPrerelease(v))
      [] c.op = ">" -> /\ compared > 0
                       /\ ~ (c.v.post = <<>> /\ samePublicRelease(v, c.v) /\ v.post # <<>>)
      [] c.op = "~=" -> compared >= 0 /\ compatiblePrefix(v, c.v)

(* One clause of matchesClauses; === compares the texts.                   *)
MatchesNoExclusion(v, c) ==
    IF c.op = "===" THEN v = c.v
    ELSE IF c.prefix THEN (c.op = "==") = MatchesPrefix(v, c)
    ELSE IF c.op = "<" THEN compareSpecifierVersion(v, c.v) < 0 ELSE MatchesVersion(v, c)
Matches(v, c) ==
    IF c.op = "===" THEN v = c.v
    ELSE IF c.prefix THEN (c.op = "==") = MatchesPrefix(v, c) ELSE MatchesVersion(v, c)

matchesClauses(v, C) == \A c \in C : Matches(v, c)

Candidates(C, available) ==
    LET matching == {v \in available : matchesClauses(v, C)}
        stable == {v \in matching : ~ IsPrerelease(v)}
    IN IF PermitsPrerelease(C) \/ stable = {} THEN matching ELSE stable

(* What ResolveVersion may return for a constraint that parses; nothing:   *)
(* no version satisfies it.  Versions that compare equal are sorted in an  *)
(* unspecified order.                                                      *)
ResolveVersionAnyStage(C, available) ==
    LET matching == {v \in available : matchesClauses(v, C)}
    IN {v \in matching : \A w \in matching : Compare(w, v) <= 0}
ResolveVersion(C, available) ==
    LET candidates == Candidates(C, available)
    IN {v \in candidates : \A w \in candidates : Compare(w, v) <= 0}
=============================================================================
