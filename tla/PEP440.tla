------------------------------- MODULE PEP440 -------------------------------
(***************************************************************************)
(* What PEP 440 says of versions and specifiers, on the version records of *)
(* PyPIVersion, as sort keys rather than by cases.                         *)
(***************************************************************************)
LOCAL INSTANCE Integers
LOCAL INSTANCE Sequences

(* Tuples of numbers in dictionary order.                                  *)
Before(a, b) ==
    \E i \in DOMAIN b :
        /\ i <= Len(a) + 1 /\ \A k \in 1 .. i - 1 : a[k] = b[k]
        /\ i <= Len(a) => a[i] < b[i]

(* Trailing zeros of a release do not count.                               *)
Stripped(release) ==
    LET nonzero == {i \in DOMAIN release : release[i] # 0}
    IN SubSeq(release, 1, IF nonzero = {} THEN 0
                          ELSE CHOOSE i \in nonzero : \A k \in nonzero : k <= i)

Flat(local) == [i \in 1 .. 2 * Len(local) |-> local[(i + 1) \div 2][2 - (i % 2)]]

(* Dev releases, prereleases, final releases and post-releases of one      *)
(* release, in this order; .devN precedes what it is appended to.          *)
SortKey(v) ==
    <<<<v.epoch>>,
      Stripped(v.release),
      IF v.pre # <<>> THEN <<1>> \o v.pre
      ELSE IF v.post = <<>> /\ v.dev # <<>> THEN <<0>> ELSE <<2>>,
      v.post,
      IF v.dev = <<>> THEN <<1>> ELSE <<0>> \o v.dev,
      Flat(v.local)>>

Precedes(v, w) ==
    LET a == SortKey(v)  b == SortKey(w) IN
    \E i \in DOMAIN a : Before(a[i], b[i]) /\ \A k \in 1 .. i - 1 : a[k] = b[k]

IsPre(v) == v.pre # <<>> \/ v.dev # <<>>

SameRelease(v, w) == v.epoch = w.epoch /\ Stripped(v.release) = Stripped(w.release)

(* Prefix matching pads the candidate with zeros.                          *)
HasPrefix(v, epoch, prefix) ==
    /\ v.epoch = epoch
    /\ \A i \in DOMAIN prefix :
          prefix[i] = IF i <= Len(v.release) THEN v.release[i] ELSE 0

(* Whether a version satisfies a version specifier's clause.               *)
Satisfies(v, c) ==
    LET public == IF c.v.local = <<>> THEN [v EXCEPT !.local = <<>>] ELSE v
        same == ~ Precedes(public, c.v) /\ ~ Precedes(c.v, public)
        shorter == SubSeq(c.v.release, 1, Len(c.v.release) - 1) IN
    \/ c.op = "===" /\ v = c.v
    \/ c.op = "==" /\ c.prefix /\ HasPrefix(v, c.v.epoch, c.v.release)
    \/ c.op = "!=" /\ c.prefix /\ ~ HasPrefix(v, c.v.epoch, c.v.release)
    \/ c.op = "==" /\ ~ c.prefix /\ same
    \/ c.op = "!=" /\ ~ c.prefix /\ ~ same
    \/ c.op = ">=" /\ ~ Precedes(public, c.v)
    \/ c.op = "<=" /\ ~ Precedes(c.v, public)
    \/ c.op = "~=" /\ ~ Precedes(public, c.v) /\ HasPrefix(v, c.v.epoch, shorter)
    \/ /\ c.op = "<" /\ Precedes(public, c.v)
       /\ IsPre(v) /\ SameRelease(v, c.v) => IsPre(c.v)
    \/ /\ c.op = ">" /\ Precedes(c.v, public)
       /\ v.post # <<>> /\ SameRelease(v, c.v) => c.v.post # <<>>
=============================================================================
