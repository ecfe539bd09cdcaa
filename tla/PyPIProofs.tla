----------------------------- MODULE PyPIProofs -----------------------------
(* Theorems about the resolution of Python requirements, for any versions, *)
(* listings and constraints: Compare is the order of PEP 440, clauses mean *)
(* what PEP 440 says, and the best release is chosen.                      *)
EXTENDS PyPIClient, FiniteSetTheorems, WellFoundedInduction, TLAPS

(* A nonempty set of numbers has a least element.                          *)
LEMMA LeastExists ==
    ASSUME NEW S, S \subseteq Nat, S # {}
    PROVE  \E n \in S : \A k \in S : n <= k
<1>1. PICK n \in S : \A k \in S : ~ (<<k, n>> \in OpToRel(<, Nat))
  BY NatLessThanWellFounded, WFMin
<1>2. \A k \in S : ~ (k < n)
  BY <1>1 DEF OpToRel
<1> QED BY <1>2

(* A nonempty set of numbers up to n has a greatest one.                   *)
LEMMA GreatestExists ==
    ASSUME NEW n \in Nat, NEW S, S \subseteq 1 .. n, S # {}
    PROVE  \E i \in S : \A k \in S : k <= i
<1> DEFINE T == {n - i : i \in S}
<1>1. T \subseteq Nat /\ T # {}
  <2>1. \A i \in S : n - i \in Nat
    OBVIOUS
  <2>2. PICK i \in S : TRUE
    OBVIOUS
  <2>3. n - i \in T
    OBVIOUS
  <2> QED BY <2>1, <2>3
<1>2. PICK t \in T : \A u \in T : t <= u
  <2> HIDE DEF T
  <2> QED BY <1>1, LeastExists
<1>3. PICK i \in S : t = n - i
  OBVIOUS
<1>4. \A k \in S : n - i <= n - k
  BY <1>2, <1>3
<1> QED BY <1>4
-----------------------------------------------------------------------------
(* Decide returns the first result that is not zero, or zero.              *)
LEMMA DecideFirst ==
    ASSUME NEW n \in Nat, NEW r, DOMAIN r = 1 .. n, NEW i \in 1 .. n, r[i] # 0,
           \A k \in 1 .. n : k < i => r[k] = 0
    PROVE  Decide(r) = r[i]
<1> DEFINE D == {k \in DOMAIN r : r[k] # 0}
<1>1. i \in D /\ \A k \in D : i <= k
  OBVIOUS
<1>2. Min(D) = i
  <2>1. D \subseteq Nat
    OBVIOUS
  <2>2. \A k \in D : (\A m \in D : k <= m) => k = i
    BY <1>1, <2>1
  <2> HIDE DEF D
  <2> QED BY Zenon, <1>1, <2>2 DEF Min
<1> QED BY <1>1, <1>2 DEF Decide

LEMMA DecideCases ==
    ASSUME NEW n \in Nat, NEW r, DOMAIN r = 1 .. n
    PROVE  \/ Decide(r) = 0 /\ \A k \in 1 .. n : r[k] = 0
           \/ \E i \in 1 .. n : Decide(r) = r[i] /\ r[i] # 0 /\ \A k \in 1 .. n : k < i => r[k] = 0
<1> DEFINE D == {k \in 1 .. n : r[k] # 0}
<1>1. CASE D = {}
  BY <1>1 DEF Decide
<1>2. CASE D # {}
  <2>1. PICK i \in D : \A k \in D : i <= k
    <3>1. D \subseteq Nat
      OBVIOUS
    <3> HIDE DEF D
    <3> QED BY <1>2, <3>1, LeastExists
  <2>2. i \in 1 .. n /\ r[i] # 0 /\ \A k \in 1 .. n : k < i => r[k] = 0
    BY <2>1
  <2> QED BY <2>2, DecideFirst
<1> QED BY <1>1, <1>2
-----------------------------------------------------------------------------
(* What a result says of two tuples of numbers.                            *)
Agrees(r, a, b) ==
    \/ r = -1 /\ PEP!Before(a, b)
    \/ r = 1 /\ PEP!Before(b, a)
    \/ r = 0 /\ a = b

(* The dictionary order, with the domain of a sequence written out.        *)
LEMMA BeforeIs ==
    ASSUME NEW a \in Seq(Int), NEW b \in Seq(Int)
    PROVE  PEP!Before(a, b) <=>
              \E i \in 1 .. Len(b) : /\ i <= Len(a) + 1 /\ \A k \in 1 .. i - 1 : a[k] = b[k]
                                     /\ i <= Len(a) => a[i] < b[i]
<1>1. DOMAIN b = 1 .. Len(b)
  OBVIOUS
<1> QED BY Zenon, <1>1 DEF PEP!Before

(* A number decides, or the end of the shorter tuple.                      *)
LEMMA BeforeAt ==
    ASSUME NEW a \in Seq(Int), NEW b \in Seq(Int), NEW i \in 1 .. Len(b), i <= Len(a),
           \A k \in 1 .. i - 1 : a[k] = b[k], a[i] < b[i]
    PROVE  PEP!Before(a, b)
<1>1. i <= Len(a) + 1
  OBVIOUS
<1> QED BY <1>1, BeforeIs

LEMMA BeforeEarly ==
    ASSUME NEW a \in Seq(Int), NEW b \in Seq(Int), NEW i \in 1 .. 3, Len(a) >= i, Len(b) >= i,
           i > 1 => a[1] = b[1], i > 2 => a[2] = b[2], a[i] < b[i]
    PROVE  PEP!Before(a, b)
<1>1. \A k \in 1 .. i - 1 : (k = 1 /\ i > 1) \/ (k = 2 /\ i > 2)
  OBVIOUS
<1>2. \A k \in 1 .. i - 1 : a[k] = b[k]
  BY Zenon, <1>1
<1>3. i \in 1 .. Len(b) /\ i <= Len(a)
  OBVIOUS
<1> QED BY <1>2, <1>3, BeforeAt

LEMMA BeforeFirst ==
    ASSUME NEW a \in Seq(Int), NEW b \in Seq(Int), Len(a) >= 1, Len(b) >= 1, a[1] < b[1]
    PROVE  PEP!Before(a, b)
<1>1. 1 \in 1 .. 3 /\ ~ (1 > 1) /\ ~ (1 > 2)
  OBVIOUS
<1> QED BY <1>1, BeforeEarly

LEMMA BeforeLonger ==
    ASSUME NEW a \in Seq(Int), NEW b \in Seq(Int), Len(a) < Len(b),
           \A k \in 1 .. Len(a) : a[k] = b[k]
    PROVE  PEP!Before(a, b)
<1>1. Len(a) + 1 \in 1 .. Len(b) /\ Len(a) + 1 <= Len(a) + 1 /\ ~ (Len(a) + 1 <= Len(a))
  OBVIOUS
<1>2. \A k \in 1 .. (Len(a) + 1) - 1 : a[k] = b[k]
  OBVIOUS
<1> QED BY <1>1, <1>2, BeforeIs

(* It is strict and transitive.                                            *)
LEMMA BeforeStrict ==
    ASSUME NEW a \in Seq(Int), NEW b \in Seq(Int), PEP!Before(a, b)
    PROVE  a # b /\ ~ PEP!Before(b, a)
<1>1. PICK i \in 1 .. Len(b) : /\ i <= Len(a) + 1 /\ \A k \in 1 .. i - 1 : a[k] = b[k]
                               /\ i <= Len(a) => a[i] < b[i]
  BY BeforeIs
<1>2. a # b
  BY <1>1
<1>3. ASSUME PEP!Before(b, a) PROVE FALSE
  <2>1. PICK j \in 1 .. Len(a) : /\ j <= Len(b) + 1 /\ \A k \in 1 .. j - 1 : b[k] = a[k]
                                 /\ j <= Len(b) => b[j] < a[j]
    BY <1>3, BeforeIs
  <2>2. CASE i < j
    BY <1>1, <2>1, <2>2
  <2>3. CASE j < i
    BY <1>1, <2>1, <2>3
  <2>4. CASE i = j
    BY <1>1, <2>1, <2>4
  <2> QED BY <2>2, <2>3, <2>4
<1> QED BY <1>2, <1>3

LEMMA BeforeTransitive ==
    ASSUME NEW a \in Seq(Int), NEW b \in Seq(Int), NEW c \in Seq(Int),
           PEP!Before(a, b), PEP!Before(b, c)
    PROVE  PEP!Before(a, c)
<1>1. PICK i \in 1 .. Len(b) : /\ i <= Len(a) + 1 /\ \A k \in 1 .. i - 1 : a[k] = b[k]
                               /\ i <= Len(a) => a[i] < b[i]
  BY BeforeIs
<1>2. PICK j \in 1 .. Len(c) : /\ j <= Len(b) + 1 /\ \A k \in 1 .. j - 1 : b[k] = c[k]
                               /\ j <= Len(b) => b[j] < c[j]
  BY BeforeIs
<1>0. Len(a) \in Nat /\ Len(b) \in Nat /\ Len(c) \in Nat
  OBVIOUS
<1>3. CASE i <= j
  <2>1. i \in 1 .. Len(c) /\ \A k \in 1 .. i - 1 : k \in 1 .. j - 1
    BY <1>0, <1>3
  <2>2. \A k \in 1 .. i - 1 : a[k] = c[k]
    BY Zenon, <1>1, <1>2, <2>1
  <2>3. ASSUME i <= Len(a) PROVE a[i] < c[i]
    <3>0. i \in 1 .. Len(a) /\ i \in 1 .. Len(b) /\ i <= Len(b)
      BY <1>0, <2>3
    <3>1. a[i] \in Int /\ b[i] \in Int /\ c[i] \in Int /\ a[i] < b[i]
      <4>1. \A s \in Seq(Int) : \A k \in 1 .. Len(s) : s[k] \in Int
        OBVIOUS
      <4>2. a[i] < b[i]
        BY Zenon, <1>1, <2>3
      <4> QED BY Zenon, <2>1, <3>0, <4>1, <4>2
    <3>2. b[i] < c[i] \/ b[i] = c[i]
      <4>1. CASE i = j
        BY Zenon, <1>2, <3>0, <4>1
      <4>2. CASE i < j
        <5>1. i \in 1 .. j - 1
          BY <4>2
        <5> QED BY Zenon, <1>2, <5>1
      <4> QED BY <1>3, <4>1, <4>2
    <3> QED BY <3>1, <3>2
  <2> QED BY <1>1, <2>1, <2>2, <2>3, BeforeIs
<1>4. CASE j < i
  <2>1. j \in 1 .. Len(c) /\ \A k \in 1 .. j - 1 : a[k] = c[k]
    BY <1>1, <1>2, <1>4
  <2>2. j <= Len(a) + 1 /\ (j <= Len(a) => a[j] < c[j])
    BY <1>1, <1>2, <1>4
  <2> QED BY <2>1, <2>2, BeforeIs
<1> QED BY <1>3, <1>4
-----------------------------------------------------------------------------
(* The order of the parts of two keys, n parts each.                       *)
Lex(n, a, b) ==
    \E i \in 1 .. n : PEP!Before(a[i], b[i]) /\ \A k \in 1 .. i - 1 : a[k] = b[k]

(* The first result that is not zero orders two keys, if each result       *)
(* orders its parts.                                                       *)
LEMMA LexDecided ==
    ASSUME NEW n \in Nat, NEW a, NEW b, NEW r, DOMAIN r = 1 .. n,
           \A i \in 1 .. n : Agrees(r[i], a[i], b[i])
    PROVE  \/ Decide(r) = -1 /\ Lex(n, a, b)
           \/ Decide(r) = 1 /\ Lex(n, b, a)
           \/ Decide(r) = 0 /\ \A i \in 1 .. n : a[i] = b[i]
<1>1. CASE Decide(r) = 0 /\ \A k \in 1 .. n : r[k] = 0
  BY <1>1 DEF Agrees
<1>2. ASSUME NEW i \in 1 .. n, Decide(r) = r[i], r[i] # 0, \A k \in 1 .. n : k < i => r[k] = 0
      PROVE  (Decide(r) = -1 /\ Lex(n, a, b)) \/ (Decide(r) = 1 /\ Lex(n, b, a))
  <2>1. \A k \in 1 .. i - 1 : k \in 1 .. n /\ r[k] = 0
    BY <1>2
  <2>2. \A k \in 1 .. i - 1 : a[k] = b[k]
    BY <2>1 DEF Agrees
  <2>3. (r[i] = -1 /\ PEP!Before(a[i], b[i])) \/ (r[i] = 1 /\ PEP!Before(b[i], a[i]))
    BY <1>2 DEF Agrees
  <2> QED BY <1>2, <2>2, <2>3 DEF Lex
<1> QED BY <1>1, <1>2, DecideCases

(* The order of keys is strict and transitive.                             *)
LEMMA LexStrict ==
    ASSUME NEW n \in Nat, NEW a, NEW b, Lex(n, a, b),
           \A i \in 1 .. n : a[i] \in Seq(Int) /\ b[i] \in Seq(Int)
    PROVE  ~ Lex(n, b, a) /\ ~ \A i \in 1 .. n : a[i] = b[i]
<1>1. PICK i \in 1 .. n : PEP!Before(a[i], b[i]) /\ \A k \in 1 .. i - 1 : a[k] = b[k]
  BY DEF Lex
<1>2. a[i] # b[i] /\ ~ PEP!Before(b[i], a[i])
  BY <1>1, BeforeStrict
<1>3. ASSUME NEW j \in 1 .. n, PEP!Before(b[j], a[j]), \A k \in 1 .. j - 1 : b[k] = a[k] PROVE FALSE
  <2>1. a[j] # b[j]
    BY <1>3, BeforeStrict
  <2>2. ~ (j < i) /\ ~ (i < j)
    BY <1>1, <1>2, <1>3, <2>1
  <2> QED BY <1>2, <1>3, <2>2
<1> QED BY <1>2, <1>3 DEF Lex

LEMMA LexTransitive ==
    ASSUME NEW n \in Nat, NEW a, NEW b, NEW c, Lex(n, a, b), Lex(n, b, c),
           \A i \in 1 .. n : a[i] \in Seq(Int) /\ b[i] \in Seq(Int) /\ c[i] \in Seq(Int)
    PROVE  Lex(n, a, c)
<1>1. PICK i \in 1 .. n : PEP!Before(a[i], b[i]) /\ \A k \in 1 .. i - 1 : a[k] = b[k]
  BY DEF Lex
<1>2. PICK j \in 1 .. n : PEP!Before(b[j], c[j]) /\ \A k \in 1 .. j - 1 : b[k] = c[k]
  BY DEF Lex
<1>3. CASE i < j
  <2>1. b[i] = c[i] /\ \A k \in 1 .. i - 1 : a[k] = c[k]
    BY <1>1, <1>2, <1>3
  <2> QED BY <1>1, <2>1 DEF Lex
<1>4. CASE j < i
  <2>1. a[j] = b[j] /\ \A k \in 1 .. j - 1 : a[k] = c[k]
    BY <1>1, <1>2, <1>4
  <2> QED BY <1>2, <2>1 DEF Lex
<1>5. CASE i = j
  <2>1. \A k \in 1 .. i - 1 : a[k] = c[k]
    BY <1>1, <1>2, <1>5
  <2>2. PEP!Before(a[i], c[i])
    BY <1>1, <1>2, <1>5, BeforeTransitive
  <2> QED BY <2>1, <2>2 DEF Lex
<1> QED BY <1>3, <1>4, <1>5
-----------------------------------------------------------------------------
(* The parts of a version.                                                 *)
LEMMA VersionParts ==
    ASSUME NEW v \in Version
    PROVE  /\ v.epoch \in Nat /\ v.release \in Seq(Nat) /\ Len(v.release) > 0
           /\ v.pre \in Seq(Nat) /\ (v.pre = <<>> \/ Len(v.pre) = 2)
           /\ v.post \in Seq(Nat) /\ (v.post = <<>> \/ Len(v.post) = 1)
           /\ v.dev \in Seq(Nat) /\ (v.dev = <<>> \/ Len(v.dev) = 1)
           /\ v.local \in Seq({0, 1} \X Nat)
BY DEF Version, Optional

(* Single numbers, and optional ones.                                      *)
LEMMA SingleAgrees ==
    ASSUME NEW l \in Int, NEW r \in Int
    PROVE  Agrees(compareInt(l, r), <<l>>, <<r>>)
<1>1. <<l>> \in Seq(Int) /\ <<r>> \in Seq(Int) /\ Len(<<l>>) = 1 /\ Len(<<r>>) = 1
      /\ <<l>>[1] = l /\ <<r>>[1] = r
  OBVIOUS
<1>2. \A x, y \in Seq(Int) : Len(x) = 1 /\ Len(y) = 1 /\ x[1] < y[1] => PEP!Before(x, y)
  BY BeforeAt
<1>3. (l < r => PEP!Before(<<l>>, <<r>>)) /\ (r < l => PEP!Before(<<r>>, <<l>>))
  BY <1>1, <1>2
<1> QED BY <1>3 DEF Agrees, compareInt

LEMMA MinusOne ==
    ASSUME NEW x \in Int, x = -1
    PROVE  -x = 1
<1>1. \A y \in Int : -y = 0 - y
  OBVIOUS
<1>2. -x = 0 - x
  BY Zenon, <1>1
<1>3. 0 - x = 1
  OBVIOUS
<1> QED BY Zenon, <1>2, <1>3

LEMMA PostAgrees ==
    ASSUME NEW l \in Seq(Nat), NEW r \in Seq(Nat), l = <<>> \/ Len(l) = 1, r = <<>> \/ Len(r) = 1,
           NEW missingRank \in Int, missingRank = -1
    PROVE  Agrees(compareOptionalNumber(l, r, missingRank), l, r)
<1>1. l \in Seq(Int) /\ r \in Seq(Int) /\ Len(<<>>) = 0 /\ <<>> \in Seq(Int)
  OBVIOUS
<1>2. CASE l = <<>> /\ r = <<>>
  BY <1>2 DEF Agrees, compareOptionalNumber
<1>3. CASE l = <<>> /\ r # <<>>
  <2>0. Len(l) < Len(r) /\ \A k \in 1 .. Len(l) : l[k] = r[k]
    BY <1>1, <1>3
  <2>1. PEP!Before(l, r)
    BY <1>1, <2>0, BeforeLonger
  <2> QED BY <1>3, <2>1 DEF Agrees, compareOptionalNumber
<1>4. CASE l # <<>> /\ r = <<>>
  <2>0. Len(r) < Len(l) /\ \A k \in 1 .. Len(r) : r[k] = l[k]
    BY <1>1, <1>4
  <2>1. PEP!Before(r, l)
    BY <1>1, <2>0, BeforeLonger
  <2>2. compareOptionalNumber(l, r, missingRank) = 1
    BY <1>4, MinusOne DEF compareOptionalNumber
  <2> QED BY <2>1, <2>2 DEF Agrees
<1>5. CASE l # <<>> /\ r # <<>>
  <2>1. Len(l) = 1 /\ Len(r) = 1 /\ l[1] \in Nat /\ r[1] \in Nat
    BY <1>5
  <2>2. l[1] < r[1] => PEP!Before(l, r)
    BY <1>1, <2>1, BeforeFirst
  <2>3. r[1] < l[1] => PEP!Before(r, l)
    BY <1>1, <2>1, BeforeFirst
  <2>4. l[1] = r[1] => l = r
    BY <2>1
  <2> QED BY <1>5, <2>1, <2>2, <2>3, <2>4 DEF Agrees, compareOptionalNumber, compareInt
<1> QED BY <1>2, <1>3, <1>4, <1>5

(* The keys of the other optional parts, which PEP440's SortKey spells out.*)
PreKey(v) ==
    IF v.pre # <<>> THEN <<1>> \o v.pre
    ELSE IF v.post = <<>> /\ v.dev # <<>> THEN <<0>> ELSE <<2>>
DevKey(dev) == IF dev = <<>> THEN <<1>> ELSE <<0>> \o dev

LEMMA SameSeq ==
    ASSUME NEW a \in Seq(Int), NEW b \in Seq(Int), Len(a) = Len(b), \A k \in 1 .. Len(a) : a[k] = b[k]
    PROVE  a = b
OBVIOUS

LEMMA Prepended ==
    ASSUME NEW n \in Int, NEW s \in Seq(Nat)
    PROVE  /\ <<n>> \o s \in Seq(Int) /\ Len(<<n>> \o s) = Len(s) + 1
           /\ (<<n>> \o s)[1] = n /\ \A i \in 1 .. Len(s) : (<<n>> \o s)[i + 1] = s[i]
<1>1. <<n>> \in Seq(Int) /\ s \in Seq(Int) /\ Len(<<n>>) = 1 /\ <<n>>[1] = n
  OBVIOUS
<1>2. <<n>> \o s \in Seq(Int) /\ Len(<<n>> \o s) = Len(<<n>>) + Len(s)
  BY <1>1
<1>3. \A i \in 1 .. Len(s) + 1 : (<<n>> \o s)[i] = IF i <= 1 THEN <<n>>[i] ELSE s[i - 1]
  BY <1>1
<1> QED BY <1>1, <1>2, <1>3

LEMMA DevShape ==
    ASSUME NEW dev \in Seq(Nat), dev = <<>> \/ Len(dev) = 1
    PROVE  /\ DevKey(dev) \in Seq(Int)
           /\ dev = <<>> => Len(DevKey(dev)) = 1 /\ DevKey(dev)[1] = 1
           /\ dev # <<>> => Len(DevKey(dev)) = 2 /\ DevKey(dev)[1] = 0 /\ DevKey(dev)[2] = dev[1]
<1>1. CASE dev = <<>>
  BY <1>1 DEF DevKey
<1>2. CASE dev # <<>>
  <2>1. Len(dev) = 1 /\ 1 \in 1 .. Len(dev) /\ 1 + 1 = 2
    BY <1>2
  <2> QED BY <1>2, <2>1, Prepended DEF DevKey
<1> QED BY <1>1, <1>2

LEMMA DevAgrees ==
    ASSUME NEW l \in Seq(Nat), NEW r \in Seq(Nat), l = <<>> \/ Len(l) = 1, r = <<>> \/ Len(r) = 1
    PROVE  Agrees(compareOptionalNumber(l, r, 1), DevKey(l), DevKey(r))
<1> DEFINE a == DevKey(l)  b == DevKey(r)
<1>1. /\ a \in Seq(Int) /\ b \in Seq(Int)
      /\ l = <<>> => Len(a) = 1 /\ a[1] = 1
      /\ l # <<>> => Len(a) = 2 /\ a[1] = 0 /\ a[2] = l[1]
      /\ r = <<>> => Len(b) = 1 /\ b[1] = 1
      /\ r # <<>> => Len(b) = 2 /\ b[1] = 0 /\ b[2] = r[1]
  BY DevShape
<1> HIDE DEF a, b
<1> SUFFICES Agrees(compareOptionalNumber(l, r, 1), a, b)
  BY DEF a, b
<1>2. CASE l = <<>> /\ r = <<>>
  <2>1. a = b
    BY <1>1, <1>2, SameSeq
  <2> QED BY <1>2, <2>1 DEF Agrees, compareOptionalNumber
<1>3. CASE l = <<>> /\ r # <<>>
  <2>1. PEP!Before(b, a)
    <3>1. Len(a) >= 1 /\ Len(b) >= 1 /\ b[1] < a[1] /\ a \in Seq(Int) /\ b \in Seq(Int)
      BY <1>1, <1>3
    <3> QED BY <3>1, BeforeFirst
  <2> QED BY <1>3, <2>1 DEF Agrees, compareOptionalNumber
<1>4. CASE l # <<>> /\ r = <<>>
  <2>1. PEP!Before(a, b)
    <3>1. Len(a) >= 1 /\ Len(b) >= 1 /\ a[1] < b[1] /\ a \in Seq(Int) /\ b \in Seq(Int)
      BY <1>1, <1>4
    <3> QED BY <3>1, BeforeFirst
  <2> QED BY <1>4, <2>1 DEF Agrees, compareOptionalNumber
<1>5. CASE l # <<>> /\ r # <<>>
  <2>0. /\ a \in Seq(Int) /\ b \in Seq(Int) /\ Len(a) = 2 /\ Len(b) = 2
        /\ a[1] = b[1] /\ a[2] = l[1] /\ b[2] = r[1]
    BY <1>1, <1>5
  <2>1. l[1] \in Nat /\ r[1] \in Nat
    BY <1>5
  <2>2. \A x, y \in Seq(Int) :
            Len(x) = 2 /\ Len(y) = 2 /\ x[1] = y[1] /\ x[2] < y[2] => PEP!Before(x, y)
    <3>1. 2 \in 1 .. 3 /\ ~ (2 > 2) /\ 2 >= 2
      OBVIOUS
    <3> QED BY <3>1, BeforeEarly
  <2>3. (l[1] < r[1] => PEP!Before(a, b)) /\ (r[1] < l[1] => PEP!Before(b, a))
    BY <2>0, <2>2
  <2>4. ASSUME l[1] = r[1] PROVE a = b
    <3>1. \A k \in 1 .. Len(a) : k = 1 \/ k = 2
      BY <2>0
    <3> QED BY <2>0, <2>4, <3>1, SameSeq
  <2> QED BY <1>5, <2>1, <2>2, <2>3, <2>4 DEF Agrees, compareOptionalNumber, compareInt
<1> QED BY <1>2, <1>3, <1>4, <1>5

LEMMA PreShape ==
    ASSUME NEW v \in Version
    PROVE  /\ PreKey(v) \in Seq(Int)
           /\ \A i \in 1 .. 3 : PreRank(v)[i] \in Int
           /\ PreKey(v)[1] = PreRank(v)[1] + 1
           /\ PreRank(v)[1] = 0 =>
                 /\ Len(PreKey(v)) = 3
                 /\ PreKey(v)[2] = PreRank(v)[2] /\ PreKey(v)[3] = PreRank(v)[3]
           /\ PreRank(v)[1] # 0 =>
                 Len(PreKey(v)) = 1 /\ PreRank(v)[2] = 0 /\ PreRank(v)[3] = 0
<1>1. CASE v.pre # <<>>
  <2>1. v.pre \in Seq(Nat) /\ Len(v.pre) = 2 /\ v.pre[1] \in Nat /\ v.pre[2] \in Nat
    BY <1>1, VersionParts
  <2>2. PreKey(v) = <<1>> \o v.pre /\ PreRank(v) = <<0>> \o v.pre
    BY <1>1 DEF PreKey, PreRank
  <2>3. \A n \in Int : LET k == <<n>> \o v.pre IN
            /\ k \in Seq(Int) /\ Len(k) = 3
            /\ k[1] = n /\ k[2] = v.pre[1] /\ k[3] = v.pre[2]
    <3> SUFFICES ASSUME NEW n \in Int, NEW k, k = <<n>> \o v.pre
                 PROVE  /\ k \in Seq(Int) /\ Len(k) = 3
                        /\ k[1] = n /\ k[2] = v.pre[1] /\ k[3] = v.pre[2]
      BY Zenon
    <3>1. 1 \in 1 .. Len(v.pre) /\ 2 \in 1 .. Len(v.pre) /\ 1 + 1 = 2 /\ 2 + 1 = 3 /\ Len(v.pre) + 1 = 3
      BY <2>1
    <3>2. k \in Seq(Int) /\ Len(k) = Len(v.pre) + 1 /\ k[1] = n /\ \A i \in 1 .. Len(v.pre) : k[i + 1] = v.pre[i]
      BY Zenon, <2>1, Prepended
    <3>3. k[1 + 1] = v.pre[1] /\ k[2 + 1] = v.pre[2]
      BY Zenon, <3>1, <3>2
    <3> QED BY <3>1, <3>2, <3>3
  <2>4. \A i \in 1 .. 3 : i = 1 \/ i = 2 \/ i = 3
    OBVIOUS
  <2> QED BY <2>1, <2>2, <2>3, <2>4
<1>2. CASE v.pre = <<>> /\ v.post = <<>> /\ v.dev # <<>>
  <2>1. PreKey(v) = <<0>> /\ PreRank(v) = <<-1, 0, 0>>
    BY <1>2 DEF PreKey, PreRank
  <2> QED BY <2>1
<1>3. CASE v.pre = <<>> /\ ~ (v.post = <<>> /\ v.dev # <<>>)
  <2>1. PreKey(v) = <<2>> /\ PreRank(v) = <<1, 0, 0>>
    BY <1>3 DEF PreKey, PreRank
  <2> QED BY <2>1
<1> QED BY <1>1, <1>2, <1>3

LEMMA IntCases ==
    ASSUME NEW l \in Int, NEW r \in Int
    PROVE  \/ l < r /\ compareInt(l, r) = -1
           \/ r < l /\ compareInt(l, r) = 1
           \/ l = r /\ compareInt(l, r) = 0
BY DEF compareInt

LEMMA PreAgrees ==
    ASSUME NEW l \in Version, NEW r \in Version
    PROVE  Agrees(comparePre(l, r), PreKey(l), PreKey(r))
<1> DEFINE results == [i \in 1 .. 3 |-> compareInt(PreRank(l)[i], PreRank(r)[i])]
<1>1. ASSUME NEW a, NEW b, NEW p, NEW q,
             a \in Seq(Int), b \in Seq(Int), \A i \in 1 .. 3 : p[i] \in Int /\ q[i] \in Int,
             a[1] = p[1] + 1, b[1] = q[1] + 1,
             p[1] = 0 => Len(a) = 3 /\ a[2] = p[2] /\ a[3] = p[3],
             p[1] # 0 => Len(a) = 1 /\ p[2] = 0 /\ p[3] = 0,
             q[1] = 0 => Len(b) = 3 /\ b[2] = q[2] /\ b[3] = q[3],
             q[1] # 0 => Len(b) = 1 /\ q[2] = 0 /\ q[3] = 0,
             NEW i \in 1 .. 3, p[i] < q[i], \A k \in 1 .. 3 : k < i => p[k] = q[k]
      PROVE  PEP!Before(a, b)
  <2>1. i = 1 \/ i = 2 \/ i = 3
    OBVIOUS
  <2>2. 1 \in 1 .. 3 /\ 2 \in 1 .. 3 /\ 3 \in 1 .. 3
    OBVIOUS
  <2>3. p[1] \in Int /\ p[2] \in Int /\ p[3] \in Int /\ q[1] \in Int /\ q[2] \in Int /\ q[3] \in Int
    BY <1>1, <2>2
  <2>4. (i > 1 => p[1] = q[1]) /\ (i > 2 => p[2] = q[2])
    BY <1>1, <2>1, <2>2
  <2>5. Len(a) >= i /\ Len(b) >= i /\ a[i] < b[i] /\ (i > 1 => a[1] = b[1]) /\ (i > 2 => a[2] = b[2])
    <3>0. (Len(a) = 1 \/ Len(a) = 3) /\ (Len(b) = 1 \/ Len(b) = 3)
      BY <1>1
    <3>1. CASE i = 1
      <4>1. a[1] < b[1]
        BY <1>1, <2>3, <3>1
      <4> QED BY <3>0, <3>1, <4>1
    <3>2. CASE i = 2
      <4>1. p[1] = 0 /\ q[1] = 0
        BY <1>1, <2>3, <2>4, <3>2
      <4> QED BY <1>1, <2>3, <3>2, <4>1
    <3>3. CASE i = 3
      <4>1. p[1] = 0 /\ q[1] = 0
        BY <1>1, <2>3, <2>4, <3>3
      <4>2. Len(a) = 3 /\ Len(b) = 3 /\ a[1] = b[1] /\ a[2] = b[2] /\ a[3] < b[3]
        BY <1>1, <2>3, <2>4, <3>3, <4>1
      <4> QED BY <3>3, <4>2
    <3> QED BY <2>1, <3>1, <3>2, <3>3
  <2> QED BY <1>1, <2>5, BeforeEarly
<1>2. /\ PreKey(l) \in Seq(Int) /\ PreKey(r) \in Seq(Int)
      /\ \A i \in 1 .. 3 : PreRank(l)[i] \in Int /\ PreRank(r)[i] \in Int
  BY PreShape
<1>3. ASSUME NEW i \in 1 .. 3, \A k \in 1 .. 3 : k < i => PreRank(l)[k] = PreRank(r)[k]
      PROVE  /\ PreRank(l)[i] < PreRank(r)[i] => PEP!Before(PreKey(l), PreKey(r))
             /\ PreRank(r)[i] < PreRank(l)[i] => PEP!Before(PreKey(r), PreKey(l))
  BY Zenon, <1>1, <1>2, <1>3, PreShape
<1>4. DOMAIN results = 1 .. 3 /\ comparePre(l, r) = Decide(results)
  BY DEF comparePre
<1>5. \A k \in 1 .. 3 :
         \/ PreRank(l)[k] < PreRank(r)[k] /\ results[k] = -1
         \/ PreRank(r)[k] < PreRank(l)[k] /\ results[k] = 1
         \/ PreRank(l)[k] = PreRank(r)[k] /\ results[k] = 0
  BY <1>2, IntCases
<1> HIDE DEF results
<1>6. CASE Decide(results) = 0 /\ \A k \in 1 .. 3 : results[k] = 0
  <2>1. \A k \in 1 .. 3 : PreRank(l)[k] = PreRank(r)[k]
    BY <1>5, <1>6
  <2>2. 1 \in 1 .. 3 /\ 2 \in 1 .. 3 /\ 3 \in 1 .. 3
    OBVIOUS
  <2>3. PreRank(l)[1] = PreRank(r)[1] /\ PreRank(l)[2] = PreRank(r)[2] /\ PreRank(l)[3] = PreRank(r)[3]
    BY <2>1, <2>2
  <2>4. \A v \in Version :
           /\ PreKey(v) \in Seq(Int) /\ PreKey(v)[1] = PreRank(v)[1] + 1
           /\ PreRank(v)[1] = 0 => /\ Len(PreKey(v)) = 3
                                  /\ PreKey(v)[2] = PreRank(v)[2] /\ PreKey(v)[3] = PreRank(v)[3]
           /\ PreRank(v)[1] # 0 => Len(PreKey(v)) = 1
    BY Zenon, PreShape
  <2>5. ASSUME PreRank(l)[1] = 0 PROVE PreKey(l) = PreKey(r)
    <3>1. /\ Len(PreKey(l)) = 3 /\ Len(PreKey(r)) = 3 /\ PreKey(l)[1] = PreKey(r)[1]
          /\ PreKey(l)[2] = PreKey(r)[2] /\ PreKey(l)[3] = PreKey(r)[3]
      <4>1. PreRank(r)[1] = 0
        BY Zenon, <2>3, <2>5
      <4>2. Len(PreKey(l)) = 3 /\ PreKey(l)[1] = PreRank(l)[1] + 1
            /\ PreKey(l)[2] = PreRank(l)[2] /\ PreKey(l)[3] = PreRank(l)[3]
        BY Zenon, <2>4, <2>5
      <4>3. Len(PreKey(r)) = 3 /\ PreKey(r)[1] = PreRank(r)[1] + 1
            /\ PreKey(r)[2] = PreRank(r)[2] /\ PreKey(r)[3] = PreRank(r)[3]
        BY Zenon, <2>4, <4>1
      <4> QED BY Zenon, <2>3, <4>2, <4>3
    <3>2. \A k \in 1 .. 3 : k = 1 \/ k = 2 \/ k = 3
      OBVIOUS
    <3> QED BY <1>2, <3>1, <3>2, SameSeq
  <2>6. ASSUME PreRank(l)[1] # 0 PROVE PreKey(l) = PreKey(r)
    <3>1. Len(PreKey(l)) = 1 /\ Len(PreKey(r)) = 1 /\ PreKey(l)[1] = PreKey(r)[1]
      BY Zenon, <2>3, <2>4, <2>6
    <3>2. \A k \in 1 .. 1 : k = 1
      OBVIOUS
    <3> QED BY <1>2, <3>1, <3>2, SameSeq
  <2>7. PreKey(l) = PreKey(r)
    BY <2>5, <2>6
  <2> QED BY <1>4, <1>6, <2>7 DEF Agrees
<1>7. ASSUME NEW i \in 1 .. 3, Decide(results) = results[i], results[i] # 0,
             \A k \in 1 .. 3 : k < i => results[k] = 0
      PROVE  Agrees(comparePre(l, r), PreKey(l), PreKey(r))
  <2>1. \A k \in 1 .. 3 : k < i => PreRank(l)[k] = PreRank(r)[k]
    BY <1>5, <1>7
  <2>2. (results[i] = -1 /\ PreRank(l)[i] < PreRank(r)[i]) \/ (results[i] = 1 /\ PreRank(r)[i] < PreRank(l)[i])
    BY <1>5, <1>7
  <2> QED BY <1>3, <1>4, <1>7, <2>1, <2>2 DEF Agrees
<1> QED BY <1>4, <1>6, <1>7, DecideCases

-----------------------------------------------------------------------------
LEMMA MaxOfTwo ==
    ASSUME NEW m \in Nat, NEW n \in Nat
    PROVE  Max({m, n}) \in Nat /\ Max({m, n}) >= m /\ Max({m, n}) >= n
<1>1. \E x \in {m, n} : \A y \in {m, n} : x >= y
  OBVIOUS
<1>2. Max({m, n}) \in {m, n} /\ \A y \in {m, n} : Max({m, n}) >= y
  BY Zenon, <1>1 DEF Max
<1> QED BY <1>2

LEMMA MinOfTwo ==
    ASSUME NEW m \in Nat, NEW n \in Nat
    PROVE  /\ Min({m, n}) \in Nat /\ Min({m, n}) <= m /\ Min({m, n}) <= n
           /\ Min({m, n}) = m \/ Min({m, n}) = n
<1>1. \E x \in {m, n} : \A y \in {m, n} : x <= y
  OBVIOUS
<1>2. Min({m, n}) \in {m, n} /\ \A y \in {m, n} : Min({m, n}) <= y
  BY Zenon, <1>1 DEF Min
<1> QED BY <1>2

(* A release, stripped: what is cut off is zero, the last part left is not.*)
IsStripped(a, release) ==
    /\ a \in Seq(Int)
    /\ \A i \in Nat \ {0} : Part(release, i) = IF i <= Len(a) THEN a[i] ELSE 0
    /\ Len(a) > 0 => a[Len(a)] # 0
    /\ Len(a) <= Len(release)

LEMMA StrippedShape ==
    ASSUME NEW s \in Seq(Nat)
    PROVE  IsStripped(PEP!Stripped(s), s)
<1> DEFINE nonzero == {i \in DOMAIN s : s[i] # 0}
           last == IF nonzero = {} THEN 0 ELSE CHOOSE i \in nonzero : \A k \in nonzero : k <= i
<1>1. PEP!Stripped(s) = SubSeq(s, 1, last)
  BY Zenon DEF PEP!Stripped
<1>2. DOMAIN s = 1 .. Len(s) /\ Len(s) \in Nat
  OBVIOUS
<1>3. /\ last \in 0 .. Len(s)
      /\ last > 0 => s[last] # 0
      /\ \A i \in 1 .. Len(s) : i > last => s[i] = 0
  <2>1. CASE nonzero = {}
    <3>1. last = 0
      BY Zenon, <2>1
    <3>2. \A i \in 1 .. Len(s) : s[i] = 0
      BY <1>2, <2>1
    <3> HIDE DEF last
    <3> QED BY <1>2, <3>1, <3>2
  <2>2. CASE nonzero # {}
    <3>1. nonzero \subseteq 1 .. Len(s)
      BY <1>2
    <3>2. \E i \in nonzero : \A k \in nonzero : k <= i
      <4> HIDE DEF nonzero
      <4> QED BY <1>2, <2>2, <3>1, GreatestExists
    <3>3. last = CHOOSE i \in nonzero : \A k \in nonzero : k <= i
      BY Zenon, <2>2
    <3>4. last \in nonzero /\ \A k \in nonzero : k <= last
      <4> HIDE DEF nonzero, last
      <4> QED BY Zenon, <3>2, <3>3
    <3> HIDE DEF last
    <3>5. last \in 1 .. Len(s) /\ s[last] # 0
      BY <1>2, <3>4
    <3>6. \A i \in 1 .. Len(s) : s[i] # 0 => i <= last
      BY <1>2, <3>4
    <3> QED BY <3>5, <3>6
  <2> QED BY <2>1, <2>2
<1> HIDE DEF last
<1>4. ASSUME NEW a, a = SubSeq(s, 1, last) PROVE IsStripped(a, s)
  <2>1. a \in Seq(Int) /\ Len(a) = last /\ \A i \in 1 .. last : a[i] = s[i]
    BY <1>2, <1>3, <1>4
  <2>2. ASSUME NEW i \in Nat \ {0} PROVE Part(s, i) = IF i <= Len(a) THEN a[i] ELSE 0
    <3>1. CASE i <= last
      BY <1>3, <2>1, <3>1 DEF Part
    <3>2. CASE i > last
      BY <1>3, <2>1, <3>2 DEF Part
    <3> QED BY <1>3, <3>1, <3>2
  <2>3. Len(a) > 0 => a[Len(a)] # 0
    BY <1>3, <2>1
  <2> QED BY <1>3, <2>1, <2>2, <2>3 DEF IsStripped
<1> QED BY <1>1, <1>4

(* The first difference of two padded releases orders the stripped ones.   *)
LEMMA StrippedBefore ==
    ASSUME NEW l \in Seq(Nat), NEW r \in Seq(Nat), NEW a, NEW b, IsStripped(a, l), IsStripped(b, r),
           NEW i \in Nat \ {0}, Part(l, i) < Part(r, i),
           \A k \in 1 .. i - 1 : Part(l, k) = Part(r, k)
    PROVE  PEP!Before(a, b)
<1>0. a \in Seq(Int) /\ b \in Seq(Int) /\ Len(a) \in Nat /\ Len(b) \in Nat
  <2>1. a \in Seq(Int) /\ b \in Seq(Int)
    BY Zenon DEF IsStripped
  <2> QED BY <2>1
<1>1. /\ \A k \in Nat \ {0} : Part(l, k) = IF k <= Len(a) THEN a[k] ELSE 0
      /\ \A k \in Nat \ {0} : Part(r, k) = IF k <= Len(b) THEN b[k] ELSE 0
  BY DEF IsStripped
<1>2. Part(l, i) \in Nat
  BY DEF Part
<1>3. i <= Len(b) /\ Part(r, i) = b[i]
  BY <1>0, <1>1, <1>2
<1>4. \A k \in 1 .. i - 1 : k \in Nat \ {0} /\ k <= Len(b)
  BY <1>0, <1>3
<1>5. \A k \in 1 .. i - 1 : k <= Len(a) => a[k] = b[k]
  BY <1>1, <1>4
<1>6. CASE i <= Len(a)
  <2>1. a[i] < b[i] /\ \A k \in 1 .. i - 1 : a[k] = b[k]
    BY <1>0, <1>1, <1>3, <1>5, <1>6
  <2> QED BY <1>0, <1>3, <1>6, <2>1, BeforeAt
<1>7. CASE ~ (i <= Len(a))
  <2>1. Len(a) < Len(b) /\ \A k \in 1 .. Len(a) : a[k] = b[k]
    BY <1>0, <1>3, <1>5, <1>7
  <2> QED BY <1>0, <2>1, BeforeLonger
<1> QED BY <1>6, <1>7

(* Without a difference they are the same.                                 *)
LEMMA StrippedSame ==
    ASSUME NEW l \in Seq(Nat), NEW r \in Seq(Nat), NEW a, NEW b, IsStripped(a, l), IsStripped(b, r),
           NEW n \in Nat, n >= Len(l), n >= Len(r), \A k \in 1 .. n : Part(l, k) = Part(r, k)
    PROVE  a = b
<1>0. /\ a \in Seq(Int) /\ b \in Seq(Int) /\ Len(a) \in Nat /\ Len(b) \in Nat
      /\ Len(a) <= n /\ Len(b) <= n
  BY DEF IsStripped
<1>1. /\ \A k \in Nat \ {0} : Part(l, k) = IF k <= Len(a) THEN a[k] ELSE 0
      /\ \A k \in Nat \ {0} : Part(r, k) = IF k <= Len(b) THEN b[k] ELSE 0
      /\ Len(a) > 0 => a[Len(a)] # 0
      /\ Len(b) > 0 => b[Len(b)] # 0
  BY DEF IsStripped
<1>2. \A k \in 1 .. n : (IF k <= Len(a) THEN a[k] ELSE 0) = IF k <= Len(b) THEN b[k] ELSE 0
  BY <1>1
<1>3. ~ (Len(a) < Len(b)) /\ ~ (Len(b) < Len(a))
  <2>1. ASSUME Len(a) < Len(b) PROVE FALSE
    <3>1. Len(b) \in 1 .. n
      BY <1>0, <2>1
    <3> QED BY <1>0, <1>1, <1>2, <2>1, <3>1
  <2>2. ASSUME Len(b) < Len(a) PROVE FALSE
    <3>1. Len(a) \in 1 .. n
      BY <1>0, <2>2
    <3> QED BY <1>0, <1>1, <1>2, <2>2, <3>1
  <2> QED BY <2>1, <2>2
<1>4. Len(a) = Len(b)
  BY <1>0, <1>3
<1>5. \A k \in 1 .. Len(a) : a[k] = b[k]
  <2> SUFFICES ASSUME NEW k \in 1 .. Len(a) PROVE a[k] = b[k]
    OBVIOUS
  <2>1. k \in 1 .. n /\ k <= Len(a) /\ k <= Len(b)
    BY <1>0, <1>4
  <2> QED BY <1>2, <2>1
<1> QED BY <1>0, <1>4, <1>5, SameSeq

LEMMA ReleaseAgrees ==
    ASSUME NEW l \in Seq(Nat), NEW r \in Seq(Nat)
    PROVE  /\ PEP!Stripped(l) \in Seq(Int) /\ PEP!Stripped(r) \in Seq(Int)
           /\ Agrees(compareRelease(l, r), PEP!Stripped(l), PEP!Stripped(r))
<1> DEFINE n == Max({Len(l), Len(r)})
           results == [i \in 1 .. n |-> compareInt(Part(l, i), Part(r, i))]
<1>0. IsStripped(PEP!Stripped(l), l) /\ IsStripped(PEP!Stripped(r), r)
  BY StrippedShape
<1>1. n \in Nat /\ n >= Len(l) /\ n >= Len(r)
  <2>1. Len(l) \in Nat /\ Len(r) \in Nat
    OBVIOUS
  <2> QED BY Zenon, <2>1, MaxOfTwo
<1>2. compareRelease(l, r) = Decide(results) /\ DOMAIN results = 1 .. n
  BY Zenon DEF compareRelease
<1> HIDE DEF n
<1>3. \A k \in 1 .. n : Part(l, k) \in Nat /\ Part(r, k) \in Nat
  BY <1>1 DEF Part
<1>4. \A k \in 1 .. n : \/ Part(l, k) < Part(r, k) /\ results[k] = -1
                        \/ Part(r, k) < Part(l, k) /\ results[k] = 1
                        \/ Part(l, k) = Part(r, k) /\ results[k] = 0
  BY <1>3, IntCases
<1> HIDE DEF results
<1>5. CASE Decide(results) = 0 /\ \A k \in 1 .. n : results[k] = 0
  <2>1. \A k \in 1 .. n : Part(l, k) = Part(r, k)
    BY <1>4, <1>5
  <2>2. PEP!Stripped(l) = PEP!Stripped(r)
    BY Zenon, <1>0, <1>1, <2>1, StrippedSame
  <2> QED BY Zenon, <1>0, <1>2, <1>5, <2>2 DEF Agrees, IsStripped
<1>6. ASSUME NEW i \in 1 .. n, Decide(results) = results[i], results[i] # 0,
             \A k \in 1 .. n : k < i => results[k] = 0
      PROVE  Agrees(compareRelease(l, r), PEP!Stripped(l), PEP!Stripped(r))
  <2>1. i \in Nat \ {0} /\ \A k \in 1 .. i - 1 : k \in 1 .. n /\ k < i
    BY <1>1
  <2>2. \A k \in 1 .. i - 1 : Part(l, k) = Part(r, k)
    <3>1. \A k \in 1 .. i - 1 : k \in 1 .. n /\ results[k] = 0
      BY Zenon, <1>6, <2>1
    <3>2. \A k \in 1 .. n : results[k] = 0 => Part(l, k) = Part(r, k)
      BY <1>4
    <3> QED BY Zenon, <3>1, <3>2
  <2>3. \A k \in 1 .. i - 1 : Part(r, k) = Part(l, k)
    BY <2>2
  <2>4. (results[i] = -1 /\ Part(l, i) < Part(r, i)) \/ (results[i] = 1 /\ Part(r, i) < Part(l, i))
    BY <1>4, <1>6
  <2>5. Part(l, i) < Part(r, i) => PEP!Before(PEP!Stripped(l), PEP!Stripped(r))
    BY Zenon, <1>0, <2>1, <2>2, StrippedBefore
  <2>6. Part(r, i) < Part(l, i) => PEP!Before(PEP!Stripped(r), PEP!Stripped(l))
    BY Zenon, <1>0, <2>1, <2>3, StrippedBefore
  <2> QED BY Zenon, <1>2, <1>6, <2>4, <2>5, <2>6 DEF Agrees
<1>7. PEP!Stripped(l) \in Seq(Int) /\ PEP!Stripped(r) \in Seq(Int)
  BY Zenon, <1>0 DEF IsStripped
<1>8. Agrees(compareRelease(l, r), PEP!Stripped(l), PEP!Stripped(r))
  BY <1>1, <1>2, <1>5, <1>6, DecideCases
<1> QED BY Zenon, <1>7, <1>8

-----------------------------------------------------------------------------
(* The pairs of a local version, one after the other.                      *)
Pairs == {0, 1} \X Nat

LEMMA Halves ==
    ASSUME NEW n \in Nat, NEW j \in 1 .. 2 * n
    PROVE  (j + 1) \div 2 \in 1 .. n /\ (2 - (j % 2) = 1 \/ 2 - (j % 2) = 2)
<1>1. j % 2 = 0 \/ j % 2 = 1
  OBVIOUS
<1>2. (j + 1) \div 2 \in 1 .. n
  OBVIOUS
<1> QED BY <1>1, <1>2

LEMMA Doubles ==
    ASSUME NEW k \in Nat \ {0}
    PROVE  /\ ((2 * k - 1) + 1) \div 2 = k /\ 2 - ((2 * k - 1) % 2) = 1
           /\ (2 * k + 1) \div 2 = k /\ 2 - ((2 * k) % 2) = 2
OBVIOUS

LEMMA PairsAt ==
    ASSUME NEW local \in Seq(Pairs), NEW k \in 1 .. Len(local)
    PROVE  local[k][1] \in Int /\ local[k][2] \in Int
<1>1. local[k] \in Pairs
  OBVIOUS
<1> QED BY <1>1 DEF Pairs

LEMMA FlatShape ==
    ASSUME NEW local \in Seq(Pairs)
    PROVE  /\ PEP!Flat(local) \in Seq(Int) /\ Len(PEP!Flat(local)) = 2 * Len(local)
           /\ \A k \in 1 .. Len(local) : /\ PEP!Flat(local)[2 * k - 1] = local[k][1]
                                         /\ PEP!Flat(local)[2 * k] = local[k][2]
<1> DEFINE n == Len(local)
           Slot(j) == local[(j + 1) \div 2][2 - (j % 2)]
           flat == [j \in 1 .. 2 * n |-> Slot(j)]
<1>1. n \in Nat /\ 2 * n \in Nat
  OBVIOUS
<1>2. PEP!Flat(local) = flat
  BY Zenon DEF PEP!Flat
<1>3. \A j \in 1 .. 2 * n : Slot(j) \in Int
  <2> SUFFICES ASSUME NEW j \in 1 .. 2 * n PROVE Slot(j) \in Int
    OBVIOUS
  <2>1. (j + 1) \div 2 \in 1 .. n /\ (2 - (j % 2) = 1 \/ 2 - (j % 2) = 2)
    BY <1>1, Halves
  <2>2. ASSUME NEW k \in 1 .. n, NEW c, c = 1 \/ c = 2 PROVE local[k][c] \in Int
    BY <2>2, PairsAt
  <2> QED BY Zenon, <2>1, <2>2
<1>4. ASSUME NEW k \in 1 .. n PROVE flat[2 * k - 1] = local[k][1] /\ flat[2 * k] = local[k][2]
  <2>1. 2 * k - 1 \in 1 .. 2 * n /\ 2 * k \in 1 .. 2 * n /\ k \in Nat \ {0}
    BY <1>1
  <2>2. Slot(2 * k - 1) = local[k][1] /\ Slot(2 * k) = local[k][2]
    BY Zenon, <2>1, Doubles
  <2> QED BY Zenon, <2>1, <2>2
<1> HIDE DEF n, Slot
<1>5. flat \in Seq(Int) /\ Len(flat) = 2 * n
  BY <1>1, <1>3
<1> QED BY Zenon, <1>2, <1>4, <1>5 DEF n

(* Equal pairs are equal numbers.                                          *)
LEMMA FlatPrefix ==
    ASSUME NEW l \in Seq(Pairs), NEW r \in Seq(Pairs), NEW n \in Nat, n <= Len(l), n <= Len(r),
           \A k \in 1 .. n : l[k][1] = r[k][1] /\ l[k][2] = r[k][2]
    PROVE  \A j \in 1 .. 2 * n : PEP!Flat(l)[j] = PEP!Flat(r)[j]
<1> SUFFICES ASSUME NEW j \in 1 .. 2 * n PROVE PEP!Flat(l)[j] = PEP!Flat(r)[j]
  OBVIOUS
<1>1. j \in 1 .. 2 * Len(l) /\ j \in 1 .. 2 * Len(r)
  OBVIOUS
<1>2. PICK k \in 1 .. n : k = (j + 1) \div 2
  BY Halves
<1>3. PICK c \in {1, 2} : c = 2 - (j % 2)
  BY Halves
<1>4. PEP!Flat(l)[j] = l[k][c] /\ PEP!Flat(r)[j] = r[k][c]
  BY Zenon, <1>1, <1>2, <1>3 DEF PEP!Flat
<1> QED BY <1>4

(* A pair that is smaller makes the numbers smaller.                       *)
LEMMA FlatBefore ==
    ASSUME NEW l \in Seq(Pairs), NEW r \in Seq(Pairs), NEW i \in 1 .. Len(l), i <= Len(r),
           \A k \in 1 .. i - 1 : l[k][1] = r[k][1] /\ l[k][2] = r[k][2],
           \/ l[i][1] < r[i][1]
           \/ l[i][1] = r[i][1] /\ l[i][2] < r[i][2]
    PROVE  PEP!Before(PEP!Flat(l), PEP!Flat(r))
<1>0. ASSUME NEW a, a = PEP!Flat(l), NEW b, b = PEP!Flat(r)
      PROVE  PEP!Before(a, b)
  <2>1. /\ a \in Seq(Int) /\ Len(a) = 2 * Len(l) /\ a[2 * i - 1] = l[i][1] /\ a[2 * i] = l[i][2]
    BY Zenon, <1>0, FlatShape
  <2>2. i \in 1 .. Len(r) /\ i - 1 \in Nat /\ i - 1 <= Len(l) /\ i - 1 <= Len(r)
    OBVIOUS
  <2>3. /\ b \in Seq(Int) /\ Len(b) = 2 * Len(r) /\ b[2 * i - 1] = r[i][1] /\ b[2 * i] = r[i][2]
    BY Zenon, <1>0, <2>2, FlatShape
  <2>4. \A j \in 1 .. 2 * (i - 1) : a[j] = b[j]
    BY Zenon, <1>0, <2>2, FlatPrefix
  <2>7. /\ 2 * i - 1 \in 1 .. Len(b) /\ 2 * i - 1 <= Len(a)
        /\ 2 * i \in 1 .. Len(b) /\ 2 * i <= Len(a)
    <3>1. \A m, n \in Nat : i <= m /\ i <= n =>
             /\ 2 * i - 1 \in 1 .. 2 * n /\ 2 * i - 1 <= 2 * m
             /\ 2 * i \in 1 .. 2 * n /\ 2 * i <= 2 * m
      OBVIOUS
    <3>2. Len(l) \in Nat /\ Len(r) \in Nat /\ i <= Len(l) /\ i <= Len(r)
      OBVIOUS
    <3>3. Len(a) = 2 * Len(l) /\ Len(b) = 2 * Len(r)
      BY <2>1, <2>3
    <3> QED BY Zenon, <3>1, <3>2, <3>3
  <2>5. CASE l[i][1] < r[i][1]
    <3>2. \A j \in 1 .. (2 * i - 1) - 1 : a[j] = b[j]
      BY <2>4
    <3> QED BY <2>1, <2>3, <2>5, <2>7, <3>2, BeforeAt
  <2>6. CASE l[i][1] = r[i][1] /\ l[i][2] < r[i][2]
    <3>2. \A j \in 1 .. 2 * i - 1 : a[j] = b[j]
      <4>1. \A j \in 1 .. 2 * i - 1 : j \in 1 .. 2 * (i - 1) \/ j = 2 * i - 1
        OBVIOUS
      <4> QED BY <2>1, <2>3, <2>4, <2>6, <4>1
    <3> QED BY <2>1, <2>3, <2>6, <2>7, <3>2, BeforeAt
  <2> QED BY <2>5, <2>6
<1> QED BY Zenon, <1>0

LEMMA Appended ==
    ASSUME NEW n \in Nat, NEW s, NEW x \in Int, DOMAIN s = 1 .. n, s = [i \in 1 .. n |-> s[i]],
           \A i \in 1 .. n : s[i] \in Int
    PROVE  /\ DOMAIN (s \o <<x>>) = 1 .. n + 1 /\ (s \o <<x>>)[n + 1] = x
           /\ \A i \in 1 .. n : (s \o <<x>>)[i] = s[i]
<1>1. s \in Seq(Int) /\ Len(s) = n
  OBVIOUS
<1>2. <<x>> \in Seq(Int) /\ Len(<<x>>) = 1 /\ <<x>>[1] = x
  OBVIOUS
<1> QED BY <1>1, <1>2

(* One pair, decided by its kind and then by its number.                   *)
LEMMA PairCases ==
    ASSUME NEW a \in Int, NEW b \in Int, NEW c \in Int, NEW d \in Int, NEW x,
           x = Decide(<<compareInt(a, c), compareInt(b, d)>>)
    PROVE  \/ x = -1 /\ (a < c \/ (a = c /\ b < d))
           \/ x = 1 /\ (c < a \/ (c = a /\ d < b))
           \/ x = 0 /\ a = c /\ b = d
<1> DEFINE two == <<compareInt(a, c), compareInt(b, d)>>
<1>1. DOMAIN two = 1 .. 2 /\ two[1] = compareInt(a, c) /\ two[2] = compareInt(b, d)
  OBVIOUS
<1>2. 1 \in 1 .. 2 /\ 2 \in 1 .. 2 /\ 2 \in Nat /\ 1 < 2 /\ \A i \in 1 .. 2 : i = 1 \/ i = 2
  OBVIOUS
<1> HIDE DEF two
<1>3. x = Decide(two)
  BY Zenon DEF two
<1>4. \/ x = two[1] /\ two[1] # 0
      \/ x = two[2] /\ two[2] # 0 /\ two[1] = 0
      \/ x = 0 /\ two[1] = 0 /\ two[2] = 0
  <2>1. \/ Decide(two) = 0 /\ \A k \in 1 .. 2 : two[k] = 0
        \/ \E i \in 1 .. 2 : Decide(two) = two[i] /\ two[i] # 0 /\ \A k \in 1 .. 2 : k < i => two[k] = 0
    BY Zenon, <1>1, <1>2, DecideCases
  <2> QED BY Zenon, <1>2, <1>3, <2>1
<1>5. /\ \/ a < c /\ two[1] = -1
         \/ c < a /\ two[1] = 1
         \/ a = c /\ two[1] = 0
      /\ \/ b < d /\ two[2] = -1
         \/ d < b /\ two[2] = 1
         \/ b = d /\ two[2] = 0
  BY Zenon, <1>1, IntCases
<1> QED BY <1>4, <1>5

LEMMA LocalAgrees ==
    ASSUME NEW l \in Seq(Pairs), NEW r \in Seq(Pairs)
    PROVE  Agrees(compareLocal(l, r), PEP!Flat(l), PEP!Flat(r))
<1> DEFINE n == Min({Len(l), Len(r)})
           One(i) == Decide(<<compareInt(l[i][1], r[i][1]), compareInt(l[i][2], r[i][2])>>)
           each == [i \in 1 .. n |-> One(i)]
           length == compareInt(Len(l), Len(r))
           results == each \o <<length>>
<1>1. compareLocal(l, r) = Decide(results)
  BY Zenon DEF compareLocal
<1>2. Len(l) \in Nat /\ Len(r) \in Nat
  OBVIOUS
<1>3. n \in Nat /\ n <= Len(l) /\ n <= Len(r) /\ (n = Len(l) \/ n = Len(r))
  BY Zenon, <1>2, MinOfTwo
<1> HIDE DEF n
<1>4. \A k \in 1 .. n :
         \/ One(k) = -1 /\ (l[k][1] < r[k][1] \/ (l[k][1] = r[k][1] /\ l[k][2] < r[k][2]))
         \/ One(k) = 1 /\ (r[k][1] < l[k][1] \/ (r[k][1] = l[k][1] /\ r[k][2] < l[k][2]))
         \/ One(k) = 0 /\ l[k][1] = r[k][1] /\ l[k][2] = r[k][2]
  <2> SUFFICES ASSUME NEW k \in 1 .. n
               PROVE \/ One(k) = -1 /\ (l[k][1] < r[k][1] \/ (l[k][1] = r[k][1] /\ l[k][2] < r[k][2]))
                     \/ One(k) = 1 /\ (r[k][1] < l[k][1] \/ (r[k][1] = l[k][1] /\ r[k][2] < l[k][2]))
                     \/ One(k) = 0 /\ l[k][1] = r[k][1] /\ l[k][2] = r[k][2]
    BY Zenon
  <2>1. k \in 1 .. Len(l) /\ k \in 1 .. Len(r)
    BY <1>2, <1>3
  <2>2. l[k][1] \in Int /\ l[k][2] \in Int /\ r[k][1] \in Int /\ r[k][2] \in Int
    BY Zenon, <2>1, PairsAt
  <2>3. One(k) = Decide(<<compareInt(l[k][1], r[k][1]), compareInt(l[k][2], r[k][2])>>)
    BY Zenon
  <2> HIDE DEF One
  <2> QED BY <2>2, <2>3, PairCases
<1> HIDE DEF One
<1>5. /\ DOMAIN results = 1 .. n + 1 /\ results[n + 1] = length
      /\ \A i \in 1 .. n : results[i] = One(i)
  <2>1. DOMAIN each = 1 .. n /\ each = [i \in 1 .. n |-> each[i]] /\ \A i \in 1 .. n : each[i] = One(i)
    BY Zenon
  <2>2. \A i \in 1 .. n : One(i) \in Int
    BY <1>4
  <2>3. length \in Int
    BY <1>2, IntCases
  <2> HIDE DEF each, length
  <2>4. \A i \in 1 .. n : each[i] \in Int
    BY Zenon, <2>1, <2>2
  <2>5. /\ DOMAIN results = 1 .. n + 1 /\ results[n + 1] = length
        /\ \A i \in 1 .. n : results[i] = each[i]
    BY <1>3, <2>1, <2>3, <2>4, Appended
  <2> QED BY Zenon, <2>1, <2>5
<1> HIDE DEF results
<1>6. \/ Len(l) < Len(r) /\ length = -1
      \/ Len(r) < Len(l) /\ length = 1
      \/ Len(l) = Len(r) /\ length = 0
  BY <1>2, IntCases
<1> HIDE DEF length
<1>7. n + 1 \in Nat /\ \A k \in 1 .. n : k \in 1 .. n + 1 /\ k < n + 1
  BY <1>3
<1>8. ASSUME \A k \in 1 .. n : l[k][1] = r[k][1] /\ l[k][2] = r[k][2], Decide(results) = length
      PROVE  Agrees(compareLocal(l, r), PEP!Flat(l), PEP!Flat(r))
  <2>1. /\ PEP!Flat(l) \in Seq(Int) /\ Len(PEP!Flat(l)) = 2 * Len(l)
        /\ PEP!Flat(r) \in Seq(Int) /\ Len(PEP!Flat(r)) = 2 * Len(r)
    BY Zenon, FlatShape
  <2>2. \A j \in 1 .. 2 * n : PEP!Flat(l)[j] = PEP!Flat(r)[j]
    BY Zenon, <1>3, <1>8, FlatPrefix
  <2>3. \A j \in 1 .. 2 * n : PEP!Flat(r)[j] = PEP!Flat(l)[j]
    BY Zenon, <2>2
  <2>4. ASSUME Len(l) < Len(r) PROVE PEP!Before(PEP!Flat(l), PEP!Flat(r))
    <3>1. n = Len(l) /\ 2 * Len(l) < 2 * Len(r)
      BY <1>2, <1>3, <2>4
    <3> QED BY Zenon, <2>1, <2>2, <3>1, BeforeLonger
  <2>5. ASSUME Len(r) < Len(l) PROVE PEP!Before(PEP!Flat(r), PEP!Flat(l))
    <3>1. n = Len(r) /\ 2 * Len(r) < 2 * Len(l)
      BY <1>2, <1>3, <2>5
    <3> QED BY Zenon, <2>1, <2>3, <3>1, BeforeLonger
  <2>6. ASSUME Len(l) = Len(r) PROVE PEP!Flat(l) = PEP!Flat(r)
    <3>1. n = Len(l)
      BY <1>2, <1>3, <2>6
    <3> QED BY Zenon, <2>1, <2>2, <2>6, <3>1, SameSeq
  <2> QED BY Zenon, <1>1, <1>6, <1>8, <2>4, <2>5, <2>6 DEF Agrees
<1>9. CASE Decide(results) = 0 /\ \A k \in 1 .. n + 1 : results[k] = 0
  <2>1. \A k \in 1 .. n : One(k) = 0
    BY Zenon, <1>5, <1>7, <1>9
  <2>2. \A k \in 1 .. n : l[k][1] = r[k][1] /\ l[k][2] = r[k][2]
    BY <1>4, <2>1
  <2>3. n + 1 \in 1 .. n + 1
    BY <1>3
  <2>4. Decide(results) = length
    BY Zenon, <1>5, <1>9, <2>3
  <2> QED BY <1>8, <2>2, <2>4
<1>10. ASSUME NEW i \in 1 .. n + 1, Decide(results) = results[i], results[i] # 0,
              \A k \in 1 .. n + 1 : k < i => results[k] = 0
       PROVE  Agrees(compareLocal(l, r), PEP!Flat(l), PEP!Flat(r))
  <2>1. CASE i = n + 1
    <3>1. \A k \in 1 .. n : One(k) = 0
      BY Zenon, <1>5, <1>7, <1>10, <2>1
    <3>2. \A k \in 1 .. n : l[k][1] = r[k][1] /\ l[k][2] = r[k][2]
      BY <1>4, <3>1
    <3> QED BY Zenon, <1>5, <1>8, <1>10, <2>1, <3>2
  <2>2. CASE i \in 1 .. n
    <3>1. i <= Len(l) /\ i <= Len(r) /\ i \in 1 .. Len(l) /\ i \in 1 .. Len(r)
      BY <1>2, <1>3, <2>2
    <3>2. \A k \in 1 .. i - 1 : k \in 1 .. n /\ k \in 1 .. n + 1 /\ k < i
      BY <1>3, <2>2
    <3>3. \A k \in 1 .. i - 1 : One(k) = 0
      BY Zenon, <1>5, <1>10, <3>2
    <3>4. \A k \in 1 .. i - 1 : l[k][1] = r[k][1] /\ l[k][2] = r[k][2]
      BY <1>4, <3>2, <3>3
    <3>5. \A k \in 1 .. i - 1 : r[k][1] = l[k][1] /\ r[k][2] = l[k][2]
      BY Zenon, <3>4
    <3>6. Decide(results) = One(i) /\ One(i) # 0
      BY Zenon, <1>5, <1>10, <2>2
    <3>7. \/ One(i) = -1 /\ (l[i][1] < r[i][1] \/ (l[i][1] = r[i][1] /\ l[i][2] < r[i][2]))
          \/ One(i) = 1 /\ (r[i][1] < l[i][1] \/ (r[i][1] = l[i][1] /\ r[i][2] < l[i][2]))
      BY Zenon, <1>4, <2>2, <3>6
    <3>8. l[i][1] < r[i][1] \/ (l[i][1] = r[i][1] /\ l[i][2] < r[i][2])
             => PEP!Before(PEP!Flat(l), PEP!Flat(r))
      BY Zenon, <3>1, <3>4, FlatBefore
    <3>9. r[i][1] < l[i][1] \/ (r[i][1] = l[i][1] /\ r[i][2] < l[i][2])
             => PEP!Before(PEP!Flat(r), PEP!Flat(l))
      BY Zenon, <3>1, <3>5, FlatBefore
    <3> QED BY Zenon, <1>1, <3>6, <3>7, <3>8, <3>9 DEF Agrees
  <2> QED BY <1>3, <2>1, <2>2
<1> QED BY Zenon, <1>5, <1>7, <1>9, <1>10, DecideCases

-----------------------------------------------------------------------------
(* The parts of a sort key, and the order of versions as that of the keys. *)
LEMMA KeyParts ==
    ASSUME NEW v \in Version
    PROVE  /\ DOMAIN PEP!SortKey(v) = 1 .. 6
           /\ PEP!SortKey(v)[1] = <<v.epoch>> /\ PEP!SortKey(v)[2] = PEP!Stripped(v.release)
           /\ PEP!SortKey(v)[3] = PreKey(v) /\ PEP!SortKey(v)[4] = v.post
           /\ PEP!SortKey(v)[5] = DevKey(v.dev) /\ PEP!SortKey(v)[6] = PEP!Flat(v.local)
<1>1. PEP!SortKey(v) = <<<<v.epoch>>, PEP!Stripped(v.release), PreKey(v), v.post, DevKey(v.dev), PEP!Flat(v.local)>>
  BY DEF PEP!SortKey, PreKey, DevKey
<1> QED BY <1>1

LEMMA UpToSix == \A i \in 1 .. 6 : i = 1 \/ i = 2 \/ i = 3 \/ i = 4 \/ i = 5 \/ i = 6
OBVIOUS

LEMMA KeyTypes ==
    ASSUME NEW v \in Version
    PROVE  \A i \in 1 .. 6 : PEP!SortKey(v)[i] \in Seq(Int)
<1>1. /\ v.epoch \in Nat /\ v.release \in Seq(Nat) /\ v.post \in Seq(Nat)
      /\ v.dev \in Seq(Nat) /\ (v.dev = <<>> \/ Len(v.dev) = 1) /\ v.local \in Seq(Pairs)
  BY Zenon, VersionParts DEF Pairs
<1>2. <<v.epoch>> \in Seq(Int) /\ v.post \in Seq(Int)
  BY <1>1
<1>3. PEP!Stripped(v.release) \in Seq(Int)
  BY Zenon, <1>1, ReleaseAgrees
<1>4. PreKey(v) \in Seq(Int) /\ DevKey(v.dev) \in Seq(Int) /\ PEP!Flat(v.local) \in Seq(Int)
  BY Zenon, <1>1, PreShape, DevShape, FlatShape
<1> QED BY Zenon, <1>2, <1>3, <1>4, KeyParts, UpToSix

LEMMA PrecedesIs ==
    ASSUME NEW v \in Version, NEW w \in Version
    PROVE  PEP!Precedes(v, w) <=> Lex(6, PEP!SortKey(v), PEP!SortKey(w))
<1>1. DOMAIN PEP!SortKey(v) = 1 .. 6
  BY KeyParts
<1> QED BY Zenon, <1>1 DEF PEP!Precedes, Lex

LEMMA SameKeys ==
    ASSUME NEW v \in Version, NEW w \in Version
    PROVE  PEP!SortKey(v) = PEP!SortKey(w) <=>
              \A i \in 1 .. 6 : PEP!SortKey(v)[i] = PEP!SortKey(w)[i]
<1>1. ASSUME \A i \in 1 .. 6 : PEP!SortKey(v)[i] = PEP!SortKey(w)[i]
      PROVE  PEP!SortKey(v) = PEP!SortKey(w)
  <2>1. \A u \in Version : PEP!SortKey(u) = [i \in 1 .. 6 |-> PEP!SortKey(u)[i]]
    <3> SUFFICES ASSUME NEW u \in Version PROVE PEP!SortKey(u) = [i \in 1 .. 6 |-> PEP!SortKey(u)[i]]
      OBVIOUS
    <3>1. PEP!SortKey(u) =
             <<<<u.epoch>>, PEP!Stripped(u.release), PreKey(u), u.post, DevKey(u.dev), PEP!Flat(u.local)>>
      BY DEF PEP!SortKey, PreKey, DevKey
    <3> QED BY <3>1
  <2> QED BY <1>1, <2>1
<1> QED BY Zenon, <1>1

(* Compare, a chain of special cases for missing parts, orders any two     *)
(* versions as PEP 440's sort keys are ordered, and calls them equal       *)
(* exactly if their keys are.                                              *)
THEOREM CompareIs ==
    ASSUME NEW v \in Version, NEW w \in Version
    PROVE  /\ Compare(v, w) \in {-1, 0, 1}
           /\ Compare(v, w) = -1 <=> PEP!Precedes(v, w)
           /\ Compare(v, w) = 1 <=> PEP!Precedes(w, v)
           /\ Compare(v, w) = 0 <=> PEP!SortKey(v) = PEP!SortKey(w)
<1> DEFINE results == <<compareInt(v.epoch, w.epoch), compareRelease(v.release, w.release),
                        comparePre(v, w), compareOptionalNumber(v.post, w.post, -1),
                        compareOptionalNumber(v.dev, w.dev, 1), compareLocal(v.local, w.local)>>
           a == PEP!SortKey(v)
           b == PEP!SortKey(w)
<1>1. Compare(v, w) = Decide(results)
  BY Zenon DEF Compare
<1>2. \A i \in 1 .. 6 : Agrees(results[i], a[i], b[i])
  <2>1. \A u \in Version :
           /\ u.epoch \in Int /\ u.release \in Seq(Nat)
           /\ u.post \in Seq(Nat) /\ (u.post = <<>> \/ Len(u.post) = 1)
           /\ u.dev \in Seq(Nat) /\ (u.dev = <<>> \/ Len(u.dev) = 1) /\ u.local \in Seq(Pairs)
    BY VersionParts DEF Pairs
  <2>2. Agrees(compareInt(v.epoch, w.epoch), <<v.epoch>>, <<w.epoch>>)
    BY Zenon, <2>1, SingleAgrees
  <2>3. Agrees(compareRelease(v.release, w.release), PEP!Stripped(v.release), PEP!Stripped(w.release))
    BY Zenon, <2>1, ReleaseAgrees
  <2>4. Agrees(compareOptionalNumber(v.post, w.post, -1), v.post, w.post)
    <3>1. -1 \in Int
      OBVIOUS
    <3> QED BY Zenon, <2>1, <3>1, PostAgrees
  <2>5. Agrees(compareOptionalNumber(v.dev, w.dev, 1), DevKey(v.dev), DevKey(w.dev))
    BY Zenon, <2>1, DevAgrees
  <2>6. Agrees(compareLocal(v.local, w.local), PEP!Flat(v.local), PEP!Flat(w.local))
    BY Zenon, <2>1, LocalAgrees
  <2>7. /\ results[1] = compareInt(v.epoch, w.epoch)
        /\ results[2] = compareRelease(v.release, w.release)
        /\ results[3] = comparePre(v, w)
        /\ results[4] = compareOptionalNumber(v.post, w.post, -1)
        /\ results[5] = compareOptionalNumber(v.dev, w.dev, 1)
        /\ results[6] = compareLocal(v.local, w.local)
    OBVIOUS
  <2>8. /\ a[1] = <<v.epoch>> /\ a[2] = PEP!Stripped(v.release) /\ a[3] = PreKey(v)
        /\ a[4] = v.post /\ a[5] = DevKey(v.dev) /\ a[6] = PEP!Flat(v.local)
    BY Zenon, KeyParts
  <2>9. /\ b[1] = <<w.epoch>> /\ b[2] = PEP!Stripped(w.release) /\ b[3] = PreKey(w)
        /\ b[4] = w.post /\ b[5] = DevKey(w.dev) /\ b[6] = PEP!Flat(w.local)
    BY Zenon, KeyParts
  <2>10. Agrees(comparePre(v, w), PreKey(v), PreKey(w))
    BY PreAgrees
  <2> HIDE DEF results, a, b
  <2>11. /\ Agrees(results[1], a[1], b[1]) /\ Agrees(results[2], a[2], b[2])
         /\ Agrees(results[3], a[3], b[3]) /\ Agrees(results[4], a[4], b[4])
         /\ Agrees(results[5], a[5], b[5]) /\ Agrees(results[6], a[6], b[6])
    BY Zenon, <2>2, <2>3, <2>4, <2>5, <2>6, <2>7, <2>8, <2>9, <2>10
  <2> QED BY Zenon, <2>11, UpToSix
<1>3. DOMAIN results = 1 .. 6 /\ 6 \in Nat
  OBVIOUS
<1>4. \A i \in 1 .. 6 : a[i] \in Seq(Int) /\ b[i] \in Seq(Int)
  BY KeyTypes
<1> HIDE DEF results, a, b
<1>5. \/ Compare(v, w) = -1 /\ Lex(6, a, b)
      \/ Compare(v, w) = 1 /\ Lex(6, b, a)
      \/ Compare(v, w) = 0 /\ \A i \in 1 .. 6 : a[i] = b[i]
  <2>1. PICK n \in Nat : n = 6
    BY <1>3
  <2>2. DOMAIN results = 1 .. n /\ \A i \in 1 .. n : Agrees(results[i], a[i], b[i])
    BY Zenon, <1>2, <1>3, <2>1
  <2>3. \/ Decide(results) = -1 /\ Lex(n, a, b)
        \/ Decide(results) = 1 /\ Lex(n, b, a)
        \/ Decide(results) = 0 /\ \A i \in 1 .. n : a[i] = b[i]
    BY <2>2, LexDecided
  <2> QED BY <1>1, <2>1, <2>3
<1>6. /\ Lex(6, a, b) => ~ Lex(6, b, a) /\ ~ \A i \in 1 .. 6 : a[i] = b[i]
      /\ Lex(6, b, a) => ~ Lex(6, a, b) /\ ~ \A i \in 1 .. 6 : b[i] = a[i]
  <2>1. ASSUME NEW x, NEW y, \A i \in 1 .. 6 : x[i] \in Seq(Int) /\ y[i] \in Seq(Int)
        PROVE  Lex(6, x, y) => ~ Lex(6, y, x) /\ ~ \A i \in 1 .. 6 : x[i] = y[i]
    <3>1. PICK n \in Nat : n = 6
      BY <1>3
    <3>2. \A i \in 1 .. n : x[i] \in Seq(Int) /\ y[i] \in Seq(Int)
      BY Zenon, <2>1, <3>1
    <3>3. Lex(n, x, y) => ~ Lex(n, y, x) /\ ~ \A i \in 1 .. n : x[i] = y[i]
      BY <3>2, LexStrict
    <3> QED BY <3>1, <3>3
  <2>2. \A i \in 1 .. 6 : b[i] \in Seq(Int) /\ a[i] \in Seq(Int)
    BY Zenon, <1>4
  <2>3. Lex(6, a, b) => ~ Lex(6, b, a) /\ ~ \A i \in 1 .. 6 : a[i] = b[i]
    BY Zenon, <1>4, <2>1
  <2>4. Lex(6, b, a) => ~ Lex(6, a, b) /\ ~ \A i \in 1 .. 6 : b[i] = a[i]
    BY Zenon, <2>1, <2>2
  <2> QED BY Zenon, <2>3, <2>4
<1>7. /\ PEP!Precedes(v, w) <=> Lex(6, a, b)
      /\ PEP!Precedes(w, v) <=> Lex(6, b, a)
      /\ PEP!SortKey(v) = PEP!SortKey(w) <=> \A i \in 1 .. 6 : a[i] = b[i]
  BY Zenon, PrecedesIs, SameKeys DEF a, b
<1>8. \A i \in 1 .. 6 : b[i] = a[i] <=> a[i] = b[i]
  OBVIOUS
<1> QED BY <1>5, <1>6, <1>7, <1>8

(* The order of versions is strict and transitive.                         *)
LEMMA PrecedesTransitive ==
    ASSUME NEW u \in Version, NEW v \in Version, NEW w \in Version,
           PEP!Precedes(u, v), PEP!Precedes(v, w)
    PROVE  PEP!Precedes(u, w)
<1>1. 6 \in Nat /\ \A i \in 1 .. 6 : /\ PEP!SortKey(u)[i] \in Seq(Int)
                                     /\ PEP!SortKey(v)[i] \in Seq(Int) /\ PEP!SortKey(w)[i] \in Seq(Int)
  BY KeyTypes
<1> QED BY Zenon, <1>1, PrecedesIs, LexTransitive

-----------------------------------------------------------------------------
(* Clauses.                                                                *)
LEMMA ReleaseSame ==
    ASSUME NEW v \in Version, NEW w \in Version
    PROVE  samePublicRelease(v, w) <=> PEP!SameRelease(v, w)
<1>1. v.release \in Seq(Nat) /\ w.release \in Seq(Nat)
  BY VersionParts
<1>2. ASSUME NEW a, a = PEP!Stripped(v.release), NEW b, b = PEP!Stripped(w.release)
      PROVE  compareRelease(v.release, w.release) = 0 <=> a = b
  <2>1. a \in Seq(Int) /\ b \in Seq(Int) /\ Agrees(compareRelease(v.release, w.release), a, b)
    BY Zenon, <1>1, <1>2, ReleaseAgrees
  <2>2. (PEP!Before(a, b) => a # b) /\ (PEP!Before(b, a) => b # a)
    BY Zenon, <2>1, BeforeStrict
  <2> QED BY <2>1, <2>2 DEF Agrees
<1> QED BY Zenon, <1>2 DEF samePublicRelease, PEP!SameRelease

(* A candidate without its local part, if the clause has none.             *)
Public(v, c) == IF c.v.local = <<>> THEN [v EXCEPT !.local = <<>>] ELSE v

LEMMA PublicCompared ==
    ASSUME NEW v \in Version, NEW c \in versionClause
    PROVE  /\ compareSpecifierVersion(v, c.v) \in {-1, 0, 1}
           /\ compareSpecifierVersion(v, c.v) < 0 <=> PEP!Precedes(Public(v, c), c.v)
           /\ compareSpecifierVersion(v, c.v) > 0 <=> PEP!Precedes(c.v, Public(v, c))
<1>1. c.v \in Version
  BY DEF versionClause
<1>2. Public(v, c) \in Version
  <2>1. <<>> \in Seq({0, 1} \X Nat)
    OBVIOUS
  <2>2. [v EXCEPT !.local = <<>>] \in Version
    BY <2>1 DEF Version
  <2> QED BY <2>2 DEF Public
<1>3. compareSpecifierVersion(v, c.v) = Compare(Public(v, c), c.v)
  BY Zenon DEF compareSpecifierVersion, Public
<1>4. /\ Compare(Public(v, c), c.v) \in {-1, 0, 1}
      /\ Compare(Public(v, c), c.v) = -1 <=> PEP!Precedes(Public(v, c), c.v)
      /\ Compare(Public(v, c), c.v) = 1 <=> PEP!Precedes(c.v, Public(v, c))
  BY Zenon, <1>1, <1>2, CompareIs
<1> QED BY <1>3, <1>4

(* Prefix matching, on candidates that are long enough.                    *)
LEMMA PrefixMatches ==
    ASSUME NEW v \in Version, NEW epoch, NEW prefix \in Seq(Nat), Len(prefix) <= Len(v.release)
    PROVE  PEP!HasPrefix(v, epoch, prefix) <=> v.epoch = epoch /\ StartsWith(v.release, prefix)
<1>1. v.release \in Seq(Nat)
  BY VersionParts
<1>2. \A i \in DOMAIN prefix : i <= Len(v.release)
  BY <1>1
<1>3. \A i \in DOMAIN prefix : (IF i <= Len(v.release) THEN v.release[i] ELSE 0) = v.release[i]
  BY Zenon, <1>2
<1>4. Len(v.release) >= Len(prefix)
  BY <1>1
<1>5. StartsWith(v.release, prefix) <=> \A i \in DOMAIN prefix : prefix[i] = v.release[i]
  BY Zenon, <1>4 DEF StartsWith
<1>6. PEP!HasPrefix(v, epoch, prefix) <=>
         v.epoch = epoch /\ \A i \in DOMAIN prefix : prefix[i] = v.release[i]
  BY Zenon, <1>3 DEF PEP!HasPrefix
<1> QED BY Zenon, <1>5, <1>6

LEMMA CompatibleMatches ==
    ASSUME NEW v \in Version, NEW c \in versionClause, Len(c.v.release) # 1,
           ~ (Len(v.release) < Len(c.v.release) - 1)
    PROVE  compatiblePrefix(v, c.v) <=>
              PEP!HasPrefix(v, c.v.epoch, SubSeq(c.v.release, 1, Len(c.v.release) - 1))
<1>1. c.v \in Version
  BY DEF versionClause
<1>2. c.v.release \in Seq(Nat) /\ Len(c.v.release) > 0 /\ v.release \in Seq(Nat)
  BY <1>1, VersionParts
<1> DEFINE n == Len(c.v.release) - 1
<1>3. n \in Nat /\ n >= 1 /\ n <= Len(c.v.release) /\ n <= Len(v.release)
  <2>1. \A k, m \in Nat : k > 0 /\ k # 1 /\ ~ (m < k - 1)
                             => k - 1 \in Nat /\ k - 1 >= 1 /\ k - 1 <= k /\ k - 1 <= m
    OBVIOUS
  <2>2. Len(c.v.release) \in Nat /\ Len(v.release) \in Nat
    BY <1>2
  <2> QED BY Zenon, <1>2, <2>1, <2>2
<1>4. Max({1, n}) = n
  <2>1. \A x \in {1, n} : (\A y \in {1, n} : x >= y) => x = n
    BY <1>3
  <2>2. n \in {1, n} /\ \A y \in {1, n} : n >= y
    BY <1>3
  <2> HIDE DEF n
  <2> QED BY Zenon, <2>1, <2>2 DEF Max
<1>5. ASSUME NEW s \in Seq(Nat), NEW m \in Nat, m >= 1, m <= Len(s)
      PROVE  SubSeq(s, 1, m) \in Seq(Nat) /\ Len(SubSeq(s, 1, m)) = m
  BY <1>5
<1> HIDE DEF n
<1>6. PEP!HasPrefix(v, c.v.epoch, SubSeq(c.v.release, 1, n)) <=>
         v.epoch = c.v.epoch /\ StartsWith(v.release, SubSeq(c.v.release, 1, n))
  <2>1. SubSeq(c.v.release, 1, n) \in Seq(Nat) /\ Len(SubSeq(c.v.release, 1, n)) <= Len(v.release)
    BY Zenon, <1>2, <1>3, <1>5
  <2> QED BY Zenon, <2>1, PrefixMatches
<1> QED BY Zenon, <1>4, <1>6 DEF compatiblePrefix, n

(* What the clauses of a constraint that parses must be.                   *)
ClauseParses(c) == (c.op = "~=" => c.dotted) /\ (c.prefix => c.op \in {"==", "!="})

(* matchesClauses reads any clause that parseConstraint lets pass as       *)
(* PEP 440 does, for any version, but for three cases: a wildcard or ~=    *)
(* longer than the release, < a development release of the same release,   *)
(* and ~= with one segment.                                                *)
THEOREM MatchesIs ==
    ASSUME NEW v \in Version, NEW c \in versionClause, ClauseParses(c),
           ~ LongerThan(v, c), ~ BelowDev(v, c), ~ OneSegment(c)
    PROVE  Matches(v, c) = PEP!Satisfies(v, c)
<1> DEFINE public == Public(v, c)
           same == ~ PEP!Precedes(public, c.v) /\ ~ PEP!Precedes(c.v, public)
           shorter == SubSeq(c.v.release, 1, Len(c.v.release) - 1)
           compared == compareSpecifierVersion(v, c.v)
<1>1. c.op \in {"===", "~=", "==", "!=", "<=", ">=", "<", ">"} /\ c.v \in Version /\ c.prefix \in BOOLEAN
  BY DEF versionClause
<1>2. /\ compared = 0 <=> same
      /\ compared <= 0 <=> ~ PEP!Precedes(c.v, public)
      /\ compared >= 0 <=> ~ PEP!Precedes(public, c.v)
      /\ compared < 0 <=> PEP!Precedes(public, c.v)
      /\ compared > 0 <=> PEP!Precedes(c.v, public)
  <2>1. /\ compared \in {-1, 0, 1}
        /\ compared < 0 <=> PEP!Precedes(public, c.v)
        /\ compared > 0 <=> PEP!Precedes(c.v, public)
    BY Zenon, PublicCompared
  <2> HIDE DEF compared, public
  <2> QED BY <2>1
<1>3. /\ samePublicRelease(v, c.v) <=> PEP!SameRelease(v, c.v)
      /\ IsPrerelease(v) <=> PEP!IsPre(v)
  BY Zenon, <1>1, ReleaseSame DEF IsPrerelease, PEP!IsPre
<1>4. PEP!Satisfies(v, c) <=>
         \/ c.op = "===" /\ v = c.v
         \/ c.op = "==" /\ c.prefix /\ PEP!HasPrefix(v, c.v.epoch, c.v.release)
         \/ c.op = "!=" /\ c.prefix /\ ~ PEP!HasPrefix(v, c.v.epoch, c.v.release)
         \/ c.op = "==" /\ ~ c.prefix /\ same
         \/ c.op = "!=" /\ ~ c.prefix /\ ~ same
         \/ c.op = ">=" /\ ~ PEP!Precedes(public, c.v)
         \/ c.op = "<=" /\ ~ PEP!Precedes(c.v, public)
         \/ c.op = "~=" /\ ~ PEP!Precedes(public, c.v) /\ PEP!HasPrefix(v, c.v.epoch, shorter)
         \/ /\ c.op = "<" /\ PEP!Precedes(public, c.v)
            /\ PEP!IsPre(v) /\ PEP!SameRelease(v, c.v) => PEP!IsPre(c.v)
         \/ /\ c.op = ">" /\ PEP!Precedes(c.v, public)
            /\ v.post # <<>> /\ PEP!SameRelease(v, c.v) => c.v.post # <<>>
  BY Zenon DEF PEP!Satisfies, Public
<1>5. PEP!Satisfies(v, c) \in BOOLEAN
  BY Zenon DEF PEP!Satisfies
<1> HIDE DEF public, same, compared, shorter
<1>6. CASE c.op = "==="
  <2>1. PEP!Satisfies(v, c) <=> v = c.v
    BY <1>4, <1>6
  <2> QED BY <1>5, <1>6, <2>1 DEF Matches
<1>7. CASE c.prefix
  <2>1. c.op = "==" \/ c.op = "!="
    BY <1>7 DEF ClauseParses
  <2>2. PEP!HasPrefix(v, c.v.epoch, c.v.release) <=> MatchesPrefix(v, c)
    <3>1. Len(c.v.release) <= Len(v.release) /\ c.v.release \in Seq(Nat)
      BY <1>1, <1>7, VersionParts DEF LongerThan
    <3>2. PEP!HasPrefix(v, c.v.epoch, c.v.release)
             <=> v.epoch = c.v.epoch /\ StartsWith(v.release, c.v.release)
      BY <3>1, PrefixMatches
    <3> QED BY <3>2 DEF MatchesPrefix
  <2>3. MatchesPrefix(v, c) \in BOOLEAN
    BY Zenon DEF MatchesPrefix
  <2>4. Matches(v, c) = ((c.op = "==") = MatchesPrefix(v, c))
    BY <1>7, <2>1 DEF Matches
  <2>5. PEP!Satisfies(v, c) <=> (c.op = "==" <=> PEP!HasPrefix(v, c.v.epoch, c.v.release))
    BY <1>4, <1>7, <2>1
  <2> QED BY <1>5, <2>2, <2>3, <2>4, <2>5
<1>8. CASE c.op # "===" /\ ~ c.prefix
  <2>1. Matches(v, c) = MatchesVersion(v, c)
    BY <1>8 DEF Matches
  <2>2. CASE c.op = "=="
    <3>1. MatchesVersion(v, c) = (compared = 0)
      BY <2>2 DEF MatchesVersion, compared
    <3> QED BY <1>2, <1>4, <1>5, <1>8, <2>1, <2>2, <3>1
  <2>3. CASE c.op = "!="
    <3>1. MatchesVersion(v, c) = (compared # 0)
      BY <2>3 DEF MatchesVersion, compared
    <3> QED BY <1>2, <1>4, <1>5, <1>8, <2>1, <2>3, <3>1
  <2>4. CASE c.op = "<="
    <3>1. MatchesVersion(v, c) = (compared <= 0)
      BY <2>4 DEF MatchesVersion, compared
    <3> QED BY <1>2, <1>4, <1>5, <1>8, <2>1, <2>4, <3>1
  <2>5. CASE c.op = ">="
    <3>1. MatchesVersion(v, c) = (compared >= 0)
      BY <2>5 DEF MatchesVersion, compared
    <3> QED BY <1>2, <1>4, <1>5, <1>8, <2>1, <2>5, <3>1
  <2>6. CASE c.op = "<"
    <3>1. MatchesVersion(v, c) =
             (compared < 0 /\ ~ (c.v.pre = <<>> /\ samePublicRelease(v, c.v) /\ IsPrerelease(v)))
      BY <2>6 DEF MatchesVersion, compared
    <3>2. PEP!IsPre(c.v) <=> c.v.pre # <<>> \/ c.v.dev # <<>>
      BY Zenon DEF PEP!IsPre
    <3>3. ~ (c.v.pre = <<>> /\ c.v.dev # <<>> /\ PEP!IsPre(v) /\ PEP!SameRelease(v, c.v))
      BY <2>6 DEF BelowDev
    <3> QED BY <1>2, <1>3, <1>4, <1>5, <1>8, <2>1, <2>6, <3>1, <3>2, <3>3
  <2>7. CASE c.op = ">"
    <3>1. MatchesVersion(v, c) =
             (compared > 0 /\ ~ (c.v.post = <<>> /\ samePublicRelease(v, c.v) /\ v.post # <<>>))
      BY <2>7 DEF MatchesVersion, compared
    <3> QED BY <1>2, <1>3, <1>4, <1>5, <1>8, <2>1, <2>7, <3>1
  <2>8. CASE c.op = "~="
    <3>1. MatchesVersion(v, c) = (compared >= 0 /\ compatiblePrefix(v, c.v))
      BY <2>8 DEF MatchesVersion, compared
    <3>2. compatiblePrefix(v, c.v) <=> PEP!HasPrefix(v, c.v.epoch, shorter)
      BY <2>8, CompatibleMatches DEF LongerThan, OneSegment, shorter
    <3> QED BY <1>2, <1>4, <1>5, <1>8, <2>1, <2>8, <3>1, <3>2
  <2> QED BY <1>1, <1>8, <2>2, <2>3, <2>4, <2>5, <2>6, <2>7, <2>8
<1> QED BY <1>1, <1>6, <1>7, <1>8

-----------------------------------------------------------------------------
(* Constraints that a job may be asked to resolve.                         *)
Constraint(C) == C \subseteq versionClause /\ IsFiniteSet(C) /\ \A c \in C : ClauseParses(c)

ParsedReqs == [i \in DOMAIN reqs |-> ParseRequirement(reqs[i])]

(* The inductive invariant: constraints are made of clauses that parse,    *)
(* the dependencies are those of the requirements read, the constraint to  *)
(* resolve is what the requirements of the package demand, each of which   *)
(* has parsed, and a listing is kept only while it says how the job ended. *)
PTypes ==
    /\ reqs \in Requirements \cup {<<>>}
    /\ listing \in Listing \cup {None}
    /\ Constraint(asked)
    /\ \A n \in DOMAIN deps : Constraint(deps[n])

DepsRead ==
    stage = "dependencies" =>
        deps = Merged(ParsedReqs) /\ \A i \in DOMAIN reqs : ParsedReqs[i].ok

AskedWanted == asked = UNION wanted /\ \A C \in wanted : Parses(C)

Chosen == IF Parses(asked) THEN ResolveVersion(asked, Available(listing)) ELSE {}

ListingUsed ==
    /\ stage \notin {"resolved", "failed"} => listing = None
    /\ stage = "resolved" => listing # None /\ exact \in Chosen
    /\ stage = "failed" /\ listing # None => failure = "permanent" /\ Chosen = {}

PInv == PTypes /\ DepsRead /\ AskedWanted /\ ListingUsed

LEMMA ParsesIs ==
    ASSUME NEW C
    PROVE  Parses(C) <=> /\ \A c \in C : c.op = "===" => Cardinality(C) = 1
                         /\ \A c \in C : ClauseParses(c)
BY Zenon DEF Parses, ClauseParses

LEMMA ParsedIs ==
    ASSUME NEW q
    PROVE  /\ ParseRequirement(q).name = NormalizeName[q.name]
           /\ ParseRequirement(q).constraint = q.constraint
           /\ ParseRequirement(q).ok => Parses(q.constraint)
           /\ ParseRequirement(q).active =
                 IF q.marker = <<>> THEN TRUE ELSE EvaluateMarker(q.marker, Target).value
<1> DEFINE marked == IF q.marker = <<>> THEN Parsed(TRUE, 1) ELSE EvaluateMarker(q.marker, Target)
<1>1. ParseRequirement(q) =
         [ok |-> q.supported /\ Parses(q.constraint) /\ marked.ok,
          name |-> NormalizeName[q.name], constraint |-> q.constraint, active |-> marked.value]
  BY Zenon DEF ParseRequirement
<1>2. marked.value = IF q.marker = <<>> THEN TRUE ELSE EvaluateMarker(q.marker, Target).value
  BY DEF Parsed
<1> DEFINE ok == q.supported /\ Parses(q.constraint) /\ marked.ok
<1>3. ok => Parses(q.constraint)
  BY Zenon
<1> HIDE DEF marked, ok
<1>4. ParseRequirement(q) = [ok |-> ok, name |-> NormalizeName[q.name],
                              constraint |-> q.constraint, active |-> marked.value]
  BY Zenon, <1>1 DEF ok
<1>5. /\ ParseRequirement(q).ok = ok /\ ParseRequirement(q).name = NormalizeName[q.name]
      /\ ParseRequirement(q).constraint = q.constraint /\ ParseRequirement(q).active = marked.value
  BY <1>4
<1> QED BY Zenon, <1>2, <1>3, <1>5

(* The constraints that the requirements of one package make.              *)
LEMMA MergedConstraints ==
    ASSUME NEW given \in Requirements \cup {<<>>}, NEW parsed,
           parsed = [i \in DOMAIN given |-> ParseRequirement(given[i])],
           \A i \in DOMAIN given : parsed[i].ok
    PROVE  \A n \in DOMAIN Merged(parsed) : Constraint(Merged(parsed)[n])
<1>1. IsFiniteSet(DOMAIN given)
  <2>1. CASE given \in Requirements
    BY <2>1, RequirementsAssumption
  <2>2. CASE given = <<>>
    <3>1. DOMAIN given = {}
      BY <2>2
    <3> QED BY <3>1, FS_EmptySet
  <2> QED BY <2>1, <2>2
<1>2. \A i \in DOMAIN given : Constraint(parsed[i].constraint)
  <2> SUFFICES ASSUME NEW i \in DOMAIN given PROVE Constraint(parsed[i].constraint)
    OBVIOUS
  <2>1. given \in Requirements
    <3>1. DOMAIN <<>> = {}
      OBVIOUS
    <3> QED BY <3>1
  <2>2. given[i].constraint \subseteq versionClause /\ IsFiniteSet(given[i].constraint)
    BY Zenon, <2>1, RequirementsAssumption
  <2>3. parsed[i] = ParseRequirement(given[i])
    OBVIOUS
  <2>4. parsed[i].constraint = given[i].constraint /\ Parses(given[i].constraint)
    BY Zenon, <2>3, ParsedIs
  <2> QED BY Zenon, <2>2, <2>4, ParsesIs DEF Constraint
<1> SUFFICES ASSUME NEW n \in DOMAIN Merged(parsed) PROVE Constraint(Merged(parsed)[n])
  OBVIOUS
<1> DEFINE K == {k \in {i \in DOMAIN parsed : parsed[i].active} : parsed[k].name = n}
           T == {parsed[i].constraint : i \in K}
           f == [i \in K |-> parsed[i].constraint]
<1>3. Merged(parsed)[n] = UNION T
  BY DEF Merged
<1>4. K \subseteq DOMAIN given /\ IsFiniteSet(K)
  <2>1. K \in SUBSET DOMAIN given
    OBVIOUS
  <2> HIDE DEF K
  <2> QED BY <1>1, <2>1, FS_Subset
<1> HIDE DEF K
<1>5. IsFiniteSet(T)
  <2>1. f \in Surjection(K, T)
    BY DEF Surjection
  <2> HIDE DEF f, T
  <2> QED BY <1>4, <2>1, FS_Surjection
<1>6. \A S \in T : Constraint(S)
  BY <1>2, <1>4
<1> HIDE DEF T
<1>7. IsFiniteSet(UNION T)
  BY Zenon, <1>5, <1>6, FS_UNION DEF Constraint
<1> QED BY Zenon, <1>3, <1>6, <1>7 DEF Constraint

(* A dependency's constraint is the union of what is demanded of it.       *)
LEMMA DemandsMerged ==
    ASSUME stage = "dependencies", DepsRead, NEW n \in DOMAIN deps
    PROVE  deps[n] = UNION Demands(n) /\ \A C \in Demands(n) : Parses(C)
<1> DEFINE Holds(q) == q.marker = <<>> \/ EvaluateMarker(q.marker, Target).value
           Of == {i \in DOMAIN ParsedReqs : ParsedReqs[i].active /\ ParsedReqs[i].name = n}
<1>1. deps = Merged(ParsedReqs) /\ \A i \in DOMAIN reqs : ParsedReqs[i].ok
  BY DEF DepsRead
<1>2. DOMAIN ParsedReqs = DOMAIN reqs /\ \A i \in DOMAIN reqs : ParsedReqs[i] = ParseRequirement(reqs[i])
  BY DEF ParsedReqs
<1>3. \A i \in DOMAIN reqs :
         /\ ParsedReqs[i].name = NormalizeName[reqs[i].name]
         /\ ParsedReqs[i].constraint = reqs[i].constraint /\ Parses(reqs[i].constraint)
         /\ ParsedReqs[i].active <=> Holds(reqs[i])
  <2> SUFFICES ASSUME NEW i \in DOMAIN reqs
               PROVE  /\ ParsedReqs[i].name = NormalizeName[reqs[i].name]
                      /\ ParsedReqs[i].constraint = reqs[i].constraint /\ Parses(reqs[i].constraint)
                      /\ ParsedReqs[i].active <=> Holds(reqs[i])
    BY Zenon
  <2>1. ParsedReqs[i] = ParseRequirement(reqs[i]) /\ ParsedReqs[i].ok
    BY Zenon, <1>1, <1>2
  <2>2. ParsedReqs[i].active =
           IF reqs[i].marker = <<>> THEN TRUE ELSE EvaluateMarker(reqs[i].marker, Target).value
    BY Zenon, <2>1, ParsedIs
  <2> QED BY Zenon, <2>1, <2>2, ParsedIs
<1>4. deps[n] = UNION {ParsedReqs[i].constraint : i \in Of}
  <2>1. {k \in {i \in DOMAIN ParsedReqs : ParsedReqs[i].active} : ParsedReqs[k].name = n} = Of
    BY Zenon
  <2> QED BY <1>1, <2>1 DEF Merged
<1>5. \A C : C \in Demands(n) <=>
         \E i \in DOMAIN reqs : C = reqs[i].constraint /\ NormalizeName[reqs[i].name] = n /\ Holds(reqs[i])
  BY Zenon DEF Demands
<1> HIDE DEF Holds
<1>6. \A i : i \in Of <=> i \in DOMAIN reqs /\ NormalizeName[reqs[i].name] = n /\ Holds(reqs[i])
  BY Zenon, <1>2, <1>3
<1> HIDE DEF Of
<1>7. \A C : C \in {ParsedReqs[i].constraint : i \in Of} <=> C \in Demands(n)
  <2>1. \A C : C \in {ParsedReqs[i].constraint : i \in Of} <=>
                 \E i \in Of : C = ParsedReqs[i].constraint
    BY Zenon
  <2>2. \A i \in Of : ParsedReqs[i].constraint = reqs[i].constraint
    BY Zenon, <1>3, <1>6
  <2>3. \A C : (\E i \in Of : C = ParsedReqs[i].constraint) <=>
                 \E i \in Of : C = reqs[i].constraint
    BY Zenon, <2>2
  <2>4. \A C : (\E i \in Of : C = reqs[i].constraint) <=> C \in Demands(n)
    BY Zenon, <1>5, <1>6
  <2> QED BY Zenon, <2>1, <2>3, <2>4
<1>8. {ParsedReqs[i].constraint : i \in Of} = Demands(n)
  BY Zenon, <1>7
<1>9. \A C \in Demands(n) : Parses(C)
  BY Zenon, <1>3, <1>5
<1> QED BY Zenon, <1>4, <1>8, <1>9

LEMMA PInvInit == PInit => PInv
<1> SUFFICES ASSUME PInit PROVE PInv
  OBVIOUS
<1>1. /\ stage = "idle" /\ reqs = <<>> /\ deps = <<>> /\ asked = {} /\ wanted = {}
      /\ listing = None
  BY DEF PInit, NoDeps
<1>2. Constraint({})
  BY FS_EmptySet DEF Constraint
<1>3. DOMAIN deps = {}
  BY <1>1
<1>4. PTypes
  BY Zenon, <1>1, <1>2, <1>3 DEF PTypes
<1> QED BY <1>1, <1>4 DEF PInv, DepsRead, AskedWanted, ListingUsed

LEMMA PInvNext == PInv /\ [PNext]_pvars => PInv'
<1> SUFFICES ASSUME PInv, [PNext]_pvars PROVE PInv'
  OBVIOUS
<1>0. PTypes /\ DepsRead /\ AskedWanted /\ ListingUsed
  BY DEF PInv
<1>1. NoDeps = <<>> /\ DOMAIN NoDeps = {} /\ Constraint({})
  BY FS_EmptySet DEF NoDeps, Constraint
<1>2. ASSUME NEW error, Fails(error)
      PROVE  /\ stage' = "failed" /\ failure' = classifyServiceError(error)
             /\ reqs' \in Requirements \cup {<<>>} /\ \A n \in DOMAIN deps' : Constraint(deps'[n])
  BY Zenon, <1>1, <1>2 DEF Fails
<1>3. CASE ReadManifest
  BY <1>0, <1>3 DEF ReadManifest, PInv, PTypes, DepsRead, AskedWanted, ListingUsed, Chosen
<1>4. CASE ManifestRejected
  <2>1. stage = "idle" /\ Fails("manifest") /\ asked' = asked /\ wanted' = wanted /\ listing' = listing
    BY <1>4 DEF ManifestRejected
  <2> QED BY <1>0, <1>2, <2>1 DEF PInv, PTypes, DepsRead, AskedWanted, ListingUsed
<1>5. CASE ParseDependencies
  <2>1. stage = "requirements" /\ asked' = asked /\ wanted' = wanted /\ listing' = listing /\ listing = None
    BY <1>0, <1>5 DEF ParseDependencies, ListingUsed
  <2>2. CASE Fails("requirement")
    BY <1>0, <1>2, <2>1, <2>2 DEF PInv, PTypes, DepsRead, AskedWanted, ListingUsed
  <2>3. CASE ~ Fails("requirement")
    <3>1. /\ \A i \in DOMAIN ParsedReqs : ParsedReqs[i].ok
          /\ stage' = "dependencies" /\ deps' = Merged(ParsedReqs) /\ reqs' = reqs
      BY Zenon, <1>5, <2>3 DEF ParseDependencies, ParsedReqs
    <3>2. \A i \in DOMAIN reqs : ParsedReqs[i].ok
      BY <3>1 DEF ParsedReqs
    <3>3. \A n \in DOMAIN deps' : Constraint(deps'[n])
      BY Zenon, <1>0, <3>1, <3>2, MergedConstraints DEF ParsedReqs, PTypes
    <3>4. ParsedReqs' = ParsedReqs
      BY <3>1 DEF ParsedReqs
    <3>5. DepsRead'
      BY Zenon, <3>1, <3>2, <3>4 DEF DepsRead
    <3>6. PTypes'
      BY Zenon, <1>0, <2>1, <3>1, <3>3 DEF PTypes
    <3>7. ListingUsed'
      BY <2>1, <3>1 DEF ListingUsed
    <3>8. AskedWanted'
      BY <1>0, <2>1 DEF AskedWanted
    <3> QED BY <3>5, <3>6, <3>7, <3>8 DEF PInv
  <2> QED BY <2>2, <2>3
<1>6. CASE RetryFetch
  <2>1. /\ stage = "failed" /\ failure = "transient" /\ stage' = "fetching"
        /\ reqs' = reqs /\ deps' = deps /\ asked' = asked /\ wanted' = wanted /\ listing' = listing
    BY <1>6 DEF RetryFetch
  <2>2. listing = None
    BY <1>0, <2>1 DEF ListingUsed
  <2> QED BY <1>0, <2>1, <2>2 DEF PInv, PTypes, DepsRead, AskedWanted, ListingUsed
<1>7. CASE FetchAvailable
  <2>1. /\ stage = "fetching" /\ listing' \in Listing /\ asked' = asked /\ wanted' = wanted
        /\ \/ /\ exact' \in Chosen' /\ stage' = "resolved" /\ reqs' = reqs /\ deps' = deps
           \/ Chosen' = {} /\ Fails("unresolved")
    BY Zenon, <1>7 DEF FetchAvailable, Chosen
  <2>2. listing' # None
    BY <2>1, ListingAssumption
  <2>3. CASE Fails("unresolved")
    <3>1. stage' = "failed" /\ failure' = "permanent"
      <4>1. stage' = "failed" /\ failure' = classifyServiceError("unresolved")
        BY Zenon, <1>2, <2>3
      <4>2. classifyServiceError("unresolved") = "permanent"
        BY DEF classifyServiceError
      <4> QED BY Zenon, <4>1, <4>2
    <3>2. Chosen' = {}
      BY Zenon, <2>1, <3>1
    <3>3. PTypes'
      BY Zenon, <1>0, <1>2, <2>1, <2>3 DEF PTypes
    <3>4. ListingUsed' /\ DepsRead' /\ AskedWanted'
      BY <1>0, <2>1, <2>2, <3>1, <3>2 DEF ListingUsed, DepsRead, AskedWanted
    <3> QED BY <3>3, <3>4 DEF PInv
  <2>4. CASE ~ Fails("unresolved")
    <3>1. exact' \in Chosen' /\ stage' = "resolved" /\ reqs' = reqs /\ deps' = deps
      BY <2>1, <2>4
    <3>2. PTypes'
      BY Zenon, <1>0, <2>1, <3>1 DEF PTypes
    <3>3. ListingUsed' /\ DepsRead' /\ AskedWanted'
      BY <1>0, <2>1, <2>2, <3>1 DEF ListingUsed, DepsRead, AskedWanted
    <3> QED BY <3>2, <3>3 DEF PInv
  <2> QED BY <2>3, <2>4
<1>8. CASE RequestRelease
  BY <1>0, <1>8 DEF RequestRelease, PInv, PTypes, DepsRead, AskedWanted, ListingUsed
<1>9. CASE FetchRelease
  <2>1. /\ stage = "releasing" /\ stage' = "requirements" /\ reqs' \in Requirements
        /\ asked' = {} /\ wanted' = {} /\ deps' = deps /\ listing' = listing
    BY <1>9 DEF FetchRelease
  <2>2. PTypes'
    BY Zenon, <1>0, <1>1, <2>1 DEF PTypes
  <2> QED BY <1>0, <2>1, <2>2 DEF PInv, DepsRead, AskedWanted, ListingUsed
<1>10. CASE \E n \in Name : FetchPackage(n)
  <2>1. PICK n : /\ stage' = "fetching" /\ n \in DOMAIN deps /\ asked' = deps[n] /\ stage = "dependencies"
                 /\ wanted' = Demands(n) /\ reqs' = <<>> /\ deps' = NoDeps /\ listing' = listing
    BY <1>10 DEF FetchPackage
  <2>2. PTypes'
    BY Zenon, <1>0, <1>1, <2>1 DEF PTypes
  <2>3. AskedWanted'
    BY Zenon, <1>0, <2>1, DemandsMerged DEF AskedWanted
  <2> QED BY <1>0, <2>1, <2>2, <2>3 DEF PInv, DepsRead, ListingUsed
<1>11. CASE \E error \in RequestError : RequestFails(error)
  <2>1. PICK error : /\ Fails(error) /\ stage \in {"fetching", "releasing"}
                     /\ asked' = asked /\ wanted' = wanted /\ listing' = listing
    BY <1>11 DEF RequestFails
  <2>2. listing = None
    BY <1>0, <2>1 DEF ListingUsed
  <2>3. stage' = "failed"
    BY <1>2, <2>1
  <2>4. PTypes'
    BY Zenon, <1>0, <1>2, <2>1 DEF PTypes
  <2>5. AskedWanted'
    BY <1>0, <2>1 DEF AskedWanted
  <2> QED BY <2>1, <2>2, <2>3, <2>4, <2>5 DEF PInv, DepsRead, ListingUsed
<1>12. CASE UNCHANGED pvars
  <2>1. /\ stage' = stage /\ reqs' = reqs /\ deps' = deps /\ asked' = asked /\ wanted' = wanted
        /\ listing' = listing /\ exact' = exact /\ failure' = failure
    BY <1>12 DEF pvars
  <2>2. Chosen' = Chosen /\ ParsedReqs' = ParsedReqs
    BY Zenon, <2>1 DEF Chosen, ParsedReqs
  <2> QED BY Zenon, <1>0, <2>1, <2>2 DEF PInv, PTypes, DepsRead, AskedWanted, ListingUsed
<1> QED BY <1>3, <1>4, <1>5, <1>6, <1>7, <1>8, <1>9, <1>10, <1>11, <1>12 DEF PNext

(* It holds in every reachable state, whatever the registry answers.       *)
LEMMA ResolutionInvariant == PSpec => []PInv
<1> QED BY PInvInit, PInvNext, PTL DEF PSpec

-----------------------------------------------------------------------------
(* Releases that a listing offers.                                         *)
LEMMA ListedVersions ==
    ASSUME PInv, listing # None
    PROVE  /\ DOMAIN listing \ Legacy \subseteq Version /\ IsFiniteSet(DOMAIN listing)
           /\ Available(listing) = {v \in DOMAIN listing \ Legacy : FALSE \in listing[v]}
<1>1. listing \in Listing
  BY DEF PInv, PTypes
<1>2. DOMAIN listing \subseteq Release /\ IsFiniteSet(DOMAIN listing)
  BY Zenon, <1>1, ListingAssumption
<1>3. DOMAIN listing \ Legacy \subseteq Version
  BY <1>2, ReleaseAssumption
<1> QED BY <1>2, <1>3 DEF Available

(* Compare, a chain of special cases for missing parts, is the order of    *)
(* PEP 440's sort keys, for any two versions a resolution meets.           *)
THEOREM ComparePEP440 == PSpec => []CompareIsPEP440
<1>1. PInv => CompareIsPEP440
  <2> SUFFICES ASSUME PInv PROVE CompareIsPEP440
    OBVIOUS
  <2>1. Compared \subseteq Version
    <3>1. CASE listing = None
      BY <3>1 DEF Compared
    <3>2. CASE listing # None
      <4>1. \A c \in asked : c.v \in Version
        BY DEF PInv, PTypes, Constraint, versionClause
      <4>2. DOMAIN listing \ Legacy \subseteq Version
        BY <3>2, ListedVersions
      <4> QED BY <3>2, <4>1, <4>2 DEF Compared
    <3> QED BY <3>1, <3>2
  <2> SUFFICES ASSUME NEW v \in Version, NEW w \in Version
               PROVE  Compare(v, w) = IF PEP!Precedes(v, w) THEN -1
                                      ELSE IF PEP!Precedes(w, v) THEN 1 ELSE 0
    BY Zenon, <2>1 DEF CompareIsPEP440
  <2>2. /\ Compare(v, w) \in {-1, 0, 1}
        /\ Compare(v, w) = -1 <=> PEP!Precedes(v, w)
        /\ Compare(v, w) = 1 <=> PEP!Precedes(w, v)
    BY CompareIs
  <2> QED BY <2>2
<1> QED BY <1>1, ResolutionInvariant, PTL

(* matchesClauses reads the clauses of a constraint as PEP 440 does, but   *)
(* for the three cases named.                                              *)
THEOREM ClausesPEP440 == PSpec => []SpecifiersArePEP440
<1>1. PInv => SpecifiersArePEP440
  <2> SUFFICES ASSUME PInv, listing # None, Parses(asked),
                      NEW v \in DOMAIN listing \ Legacy, NEW c \in asked,
                      ~ LongerThan(v, c), ~ BelowDev(v, c), ~ OneSegment(c)
               PROVE  Matches(v, c) = PEP!Satisfies(v, c)
    BY Zenon DEF SpecifiersArePEP440
  <2>1. v \in Version
    BY ListedVersions
  <2>2. c \in versionClause /\ ClauseParses(c)
    BY DEF PInv, PTypes, Constraint
  <2> QED BY Zenon, <2>1, <2>2, MatchesIs
<1> QED BY <1>1, ResolutionInvariant, PTL

-----------------------------------------------------------------------------
(* A finite, nonempty set of versions has one that no other follows.       *)
LEMMA LatestExists ==
    ASSUME NEW S, S \subseteq Version, IsFiniteSet(S), S # {}
    PROVE  \E v \in S : \A w \in S : ~ PEP!Precedes(v, w)
<1> DEFINE Over(v) == {w \in S : PEP!Precedes(v, w)}
           T == {Cardinality(Over(v)) : v \in S}
<1>1. \A v \in S : IsFiniteSet(Over(v)) /\ Cardinality(Over(v)) \in Nat
  BY FS_Subset, FS_CardinalityType
<1>2. T \subseteq Nat /\ T # {}
  <2>1. \A v \in S : Cardinality(Over(v)) \in T
    BY Zenon
  <2>2. ASSUME NEW t \in T PROVE t \in Nat
    <3>1. PICK v \in S : t = Cardinality(Over(v))
      BY Zenon
    <3> QED BY Zenon, <1>1, <3>1
  <2> HIDE DEF T
  <2> QED BY Zenon, <2>1, <2>2
<1>3. PICK t \in T : \A s \in T : t <= s
  <2> HIDE DEF T
  <2> QED BY <1>2, LeastExists
<1>4. PICK v \in S : t = Cardinality(Over(v))
  BY Zenon
<1>5. ASSUME NEW w \in S, PEP!Precedes(v, w) PROVE FALSE
  <2>0. v \in Version /\ w \in Version
    BY Zenon
  <2>1. ~ PEP!Precedes(w, w)
    <3>1. (Compare(w, w) = -1 <=> PEP!Precedes(w, w)) /\ (Compare(w, w) = 1 <=> PEP!Precedes(w, w))
      BY Zenon, <2>0, CompareIs
    <3> QED BY <3>1
  <2>2. \A x \in S : PEP!Precedes(w, x) => PEP!Precedes(v, x)
    BY Zenon, <1>5, <2>0, PrecedesTransitive
  <2>3. Over(w) \in SUBSET Over(v) /\ w \in Over(v) /\ w \notin Over(w)
    BY Zenon, <1>5, <2>1, <2>2
  <2>4. Cardinality(Over(w)) \in T
    BY Zenon
  <2>5. t <= Cardinality(Over(w))
    BY Zenon, <1>3, <2>4
  <2>6. IsFiniteSet(Over(v)) /\ Cardinality(Over(v)) \in Nat /\ Cardinality(Over(w)) \in Nat
    BY Zenon, <1>1
  <2> HIDE DEF Over, T
  <2>7. Cardinality(Over(w)) <= Cardinality(Over(v)) /\ Cardinality(Over(w)) # Cardinality(Over(v))
    <3>1. /\ Cardinality(Over(w)) <= Cardinality(Over(v))
          /\ Cardinality(Over(v)) = Cardinality(Over(w)) => Over(v) = Over(w)
      BY Zenon, <2>3, <2>6, FS_Subset
    <3> QED BY Zenon, <2>3, <3>1
  <2> QED BY <1>4, <2>5, <2>6, <2>7
<1> QED BY Zenon, <1>5

(* ResolveVersion chooses one, if there is a candidate.                    *)
LEMMA ResolveIs ==
    ASSUME NEW C, NEW available, available \subseteq Version, IsFiniteSet(available)
    PROVE  /\ ResolveVersion(C, available) =
                 {v \in Candidates(C, available) :
                     \A w \in Candidates(C, available) : ~ PEP!Precedes(v, w)}
           /\ ResolveVersion(C, available) = {} => \A v \in available : ~ matchesClauses(v, C)
<1> DEFINE matching == {v \in available : matchesClauses(v, C)}
           stable == {v \in matching : ~ IsPrerelease(v)}
           candidates == Candidates(C, available)
<1>1. candidates = IF PermitsPrerelease(C) \/ stable = {} THEN matching ELSE stable
  BY Zenon DEF Candidates
<1>2. candidates \in SUBSET available /\ (candidates = {} => matching = {})
  BY <1>1
<1>3. \A v \in available : matchesClauses(v, C) => v \in matching
  OBVIOUS
<1> HIDE DEF matching, stable
<1>4. ResolveVersion(C, available) = {v \in candidates : \A w \in candidates : Compare(w, v) <= 0}
  BY Zenon DEF ResolveVersion
<1> HIDE DEF candidates
<1>5. IsFiniteSet(candidates) /\ candidates \subseteq Version
  BY <1>2, FS_Subset
<1>6. \A v, w \in candidates : Compare(w, v) <= 0 <=> ~ PEP!Precedes(v, w)
  <2> SUFFICES ASSUME NEW v \in Version, NEW w \in Version
               PROVE  Compare(w, v) <= 0 <=> ~ PEP!Precedes(v, w)
    BY Zenon, <1>5
  <2>1. Compare(w, v) \in {-1, 0, 1} /\ (Compare(w, v) = 1 <=> PEP!Precedes(v, w))
    BY CompareIs
  <2> QED BY <2>1
<1>7. ResolveVersion(C, available) = {v \in candidates : \A w \in candidates : ~ PEP!Precedes(v, w)}
  BY Zenon, <1>4, <1>6
<1>8. candidates # {} => ResolveVersion(C, available) # {}
  <2> SUFFICES ASSUME candidates # {} PROVE ResolveVersion(C, available) # {}
    OBVIOUS
  <2>1. PICK v \in candidates : \A w \in candidates : ~ PEP!Precedes(v, w)
    BY <1>5, LatestExists
  <2> QED BY Zenon, <1>7, <2>1
<1> QED BY Zenon, <1>2, <1>3, <1>7, <1>8 DEF candidates

(* The release chosen is a latest one of those that the constraint admits, *)
(* prereleases only where they are wanted; and nothing is chosen only if   *)
(* there is nothing to choose, or the constraint does not parse.           *)
THEOREM BestResolved == PSpec => []ResolveBest
<1>1. PInv => ResolveBest
  <2> SUFFICES ASSUME PInv PROVE ResolveBest
    OBVIOUS
  <2> DEFINE fit == {v \in DOMAIN listing \ Legacy :
                        FALSE \in listing[v] /\ \A C \in wanted : \A c \in C : Matches(v, c)}
             named == \E C \in wanted : \E c \in C : ~ c.prefix /\ PEP!IsPre(c.v)
             best == {v \in fit : \/ ~ PEP!IsPre(v) \/ named
                                  \/ \A w \in fit : PEP!IsPre(w)}
             available == Available(listing)
             stable == {v \in fit : ~ PEP!IsPre(v)}
  <2>0. asked = UNION wanted /\ \A C \in wanted : Parses(C)
    BY DEF PInv, AskedWanted
  <2>1. ASSUME listing # None
        PROVE  /\ available \subseteq Version /\ IsFiniteSet(available)
               /\ fit = {v \in available : matchesClauses(v, asked)}
    <3>1. /\ DOMAIN listing \ Legacy \subseteq Version /\ IsFiniteSet(DOMAIN listing)
          /\ available = {v \in DOMAIN listing \ Legacy : FALSE \in listing[v]}
      BY Zenon, <2>1, ListedVersions
    <3>2. available \in SUBSET DOMAIN listing /\ available \subseteq Version
      BY <3>1
    <3>3. fit = {v \in available : matchesClauses(v, asked)}
      <4>1. \A v : matchesClauses(v, asked) <=> \A C \in wanted : \A c \in C : Matches(v, c)
        BY Zenon, <2>0 DEF matchesClauses
      <4> HIDE DEF available
      <4> QED BY Zenon, <3>1, <4>1
    <3> HIDE DEF available, fit
    <3> QED BY <3>1, <3>2, <3>3, FS_Subset
  <2>2. Constraint(asked)
    BY DEF PInv, PTypes
  <2>3. ASSUME stage = "resolved"
        PROVE  exact \in best /\ ~ \E w \in best : PEP!Precedes(exact, w)
    <3>1. listing # None /\ Parses(asked) /\ exact \in ResolveVersion(asked, available)
      BY <2>3 DEF PInv, ListingUsed, Chosen
    <3>2. fit = {v \in available : matchesClauses(v, asked)}
      BY Zenon, <2>1, <3>1
    <3>3. stable = {v \in {u \in available : matchesClauses(u, asked)} : ~ IsPrerelease(v)}
      BY Zenon, <3>2 DEF PEP!IsPre, IsPrerelease
    <3>4. Candidates(asked, available) = IF PermitsPrerelease(asked) \/ stable = {} THEN fit ELSE stable
      BY Zenon, <3>2, <3>3 DEF Candidates
    <3>5. /\ exact \in Candidates(asked, available)
          /\ \A w \in Candidates(asked, available) : ~ PEP!Precedes(exact, w)
      <4>1. available \subseteq Version /\ IsFiniteSet(available)
        BY Zenon, <2>1, <3>1
      <4> HIDE DEF available
      <4>2. ResolveVersion(asked, available) =
               {v \in Candidates(asked, available) :
                   \A w \in Candidates(asked, available) : ~ PEP!Precedes(v, w)}
        BY <4>1, ResolveIs
      <4> QED BY Zenon, <3>1, <4>2
    <3>6. PermitsPrerelease(asked) => named
      BY Zenon, <2>0 DEF PermitsPrerelease, IsPrerelease, PEP!IsPre
    <3>7. ASSUME named, ~ PermitsPrerelease(asked) PROVE stable = {}
      <4>1. PICK c \in asked : ~ c.prefix /\ PEP!IsPre(c.v)
        BY Zenon, <2>0, <3>7
      <4>2. c.op = "==="
        BY Zenon, <3>7, <4>1 DEF PermitsPrerelease, IsPrerelease, PEP!IsPre
      <4>3. \A v \in fit : v = c.v
        BY Zenon, <3>2, <4>1, <4>2 DEF matchesClauses, Matches
      <4> QED BY Zenon, <4>1, <4>3
    <3>8. best = Candidates(asked, available)
      <4>1. CASE PermitsPrerelease(asked) \/ stable = {}
        <5>1. Candidates(asked, available) = fit
          BY <3>4, <4>1
        <5>2. named \/ \A w \in fit : PEP!IsPre(w)
          BY Zenon, <3>6, <4>1
        <5> QED BY Zenon, <5>1, <5>2
      <4>2. CASE ~ PermitsPrerelease(asked) /\ stable # {}
        <5>1. Candidates(asked, available) = stable
          BY <3>4, <4>2
        <5>2. ~ named /\ ~ \A w \in fit : PEP!IsPre(w)
          BY Zenon, <3>7, <4>2
        <5> QED BY Zenon, <5>1, <5>2
      <4> QED BY <4>1, <4>2
    <3> HIDE DEF best
    <3> QED BY Zenon, <3>5, <3>8
  <2>4. ASSUME stage = "failed", listing # None
        PROVE  fit = {} \/ ArbitraryEqualityCombined
    <3>1. Chosen = {}
      BY <2>4 DEF PInv, ListingUsed
    <3>2. CASE Parses(asked)
      <4>1. ResolveVersion(asked, available) = {}
        BY <3>1, <3>2 DEF Chosen
      <4>2. \A v \in available : ~ matchesClauses(v, asked)
        BY Zenon, <2>1, <2>4, <4>1, ResolveIs
      <4>3. fit = {v \in available : matchesClauses(v, asked)}
        BY Zenon, <2>1, <2>4
      <4> QED BY Zenon, <4>2, <4>3
    <3>3. CASE ~ Parses(asked)
      <4>1. PICK c \in asked : c.op = "===" /\ Cardinality(asked) # 1
        BY Zenon, <2>2, <3>3, ParsesIs DEF Constraint
      <4>2. PICK C \in wanted : c \in C
        BY Zenon, <2>0, <4>1
      <4>3. Cardinality(C) = 1
        BY Zenon, <2>0, <4>1, <4>2 DEF Parses
      <4>4. PICK d \in asked : d \notin C
        BY Zenon, <2>0, <4>1, <4>2, <4>3
      <4>5. PICK D \in wanted : d \in D
        BY Zenon, <2>0, <4>4
      <4> QED BY Zenon, <4>1, <4>2, <4>4, <4>5 DEF ArbitraryEqualityCombined
    <3> QED BY <3>2, <3>3
  <2> QED BY Zenon, <2>3, <2>4 DEF ResolveBest
<1> QED BY <1>1, ResolutionInvariant, PTL
=============================================================================
