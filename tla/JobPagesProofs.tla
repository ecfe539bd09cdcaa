--------------------------- MODULE JobPagesProofs ---------------------------
(* Theorems about the listings of JobApi, for any number of jobs, pagers,  *)
(* callers and page sizes.                                                 *)
EXTENDS JobApiProofs, WellFoundedInduction

(* A finite set has a maximal element in every strict order.               *)
LEMMA MaximalExists ==
    ASSUME NEW S, IsFiniteSet(S), S # {}, NEW G,
           \A x \in S : <<x, x>> \notin G,
           \A x, y, z \in S : <<x, y>> \in G /\ <<y, z>> \in G => <<x, z>> \in G
    PROVE  \E x \in S : \A y \in S : <<x, y>> \notin G
<1> DEFINE Over(x) == {y \in S : <<x, y>> \in G}
           T == {Cardinality(Over(x)) : x \in S}
<1>1. \A x \in S : IsFiniteSet(Over(x)) /\ Cardinality(Over(x)) \in Nat
  BY FS_Subset, FS_CardinalityType
<1>2. T \subseteq Nat /\ T # {}
  <2>1. PICK x \in S : TRUE
    OBVIOUS
  <2>2. Cardinality(Over(x)) \in T
    OBVIOUS
  <2>3. ASSUME NEW t \in T PROVE t \in Nat
    <3>1. PICK y \in S : t = Cardinality(Over(y))
      OBVIOUS
    <3> QED BY <1>1, <3>1
  <2> HIDE DEF T
  <2> QED BY <2>2, <2>3
<1>3. PICK t \in T : \A s \in T : ~ (<<s, t>> \in OpToRel(<, Nat))
  <2> HIDE DEF T
  <2> QED BY <1>2, NatLessThanWellFounded, WFMin
<1>4. \A s \in T : ~ (s < t)
  <2> HIDE DEF T
  <2> QED BY <1>2, <1>3 DEF OpToRel
<1>5. PICK x \in S : t = Cardinality(Over(x))
  OBVIOUS
<1>6. ASSUME NEW y \in S, <<x, y>> \in G PROVE FALSE
  <2>1. Over(y) \in SUBSET Over(x) /\ Over(x) # Over(y)
    BY <1>6
  <2>2. Cardinality(Over(y)) <= Cardinality(Over(x)) /\ Cardinality(Over(y)) # Cardinality(Over(x))
    <3> HIDE DEF Over
    <3> QED BY <1>1, <2>1, FS_Subset
  <2>3. Cardinality(Over(y)) \in T
    OBVIOUS
  <2> HIDE DEF Over
  <2> QED BY <1>1, <1>4, <1>5, <2>2, <2>3
<1> QED BY <1>6
-----------------------------------------------------------------------------
(* The sort keys.                                                          *)
Above(view, j, q) == Less(SortKey(view, j), SortKey(view, q))

(* Rows are totally ordered by their sort keys, because ids are distinct.  *)
LEMMA KeyOrder ==
    ASSUME SubmitType, NEW view \in View
    PROVE  /\ \A j \in Job : SortKey(view, j) \in Nat \X Nat
           /\ \A j \in Job : ~ Above(view, j, j)
           /\ \A j, q \in Job : j # q => Above(view, j, q) \/ Above(view, q, j)
           /\ \A j, q, r \in Job : Above(view, j, q) /\ Above(view, q, r) => Above(view, j, r)
<1>1. \A j \in Job : cols[j].at \in Nat /\ Rank[j] \in Nat
  BY RankAssumption DEF SubmitType, Cols
<1>2. \A j \in Job : SortKey(view, j) \in Nat \X Nat /\ SortKey(view, j)[2] = Rank[j]
  BY <1>1 DEF SortKey
<1>3. \A j, q \in Job : Rank[j] = Rank[q] => j = q
  BY RankAssumption
<1> QED BY <1>2, <1>3 DEF Above, Less

(* A finite, nonempty set of rows has a first row of the listing's order,  *)
(* and a last one, which is what Last chooses.                             *)
LEMMA FirstRow ==
    ASSUME SubmitType, NEW view \in View, NEW R \in SUBSET Job, IsFiniteSet(R), R # {}
    PROVE  \E j \in R : \A q \in R : ~ Above(view, j, q)
<1> DEFINE G == {e \in R \X R : Above(view, e[1], e[2])}
<1>1. \A x, y \in R : <<x, y>> \in G <=> Above(view, x, y)
  OBVIOUS
<1>2. /\ \A x \in R : <<x, x>> \notin G
      /\ \A x, y, z \in R : <<x, y>> \in G /\ <<y, z>> \in G => <<x, z>> \in G
  <2> HIDE DEF G
  <2> QED BY <1>1, KeyOrder
<1>3. \E x \in R : \A y \in R : <<x, y>> \notin G
  <2> HIDE DEF G
  <2> QED BY <1>2, MaximalExists
<1> HIDE DEF G
<1> QED BY <1>1, <1>3

(* The last row of a set, whose key becomes the cursor.                    *)
LEMMA LastRow ==
    ASSUME SubmitType, NEW view \in View, NEW R \in SUBSET Job, IsFiniteSet(R), R # {}
    PROVE  Last(view, R) \in R /\ \A q \in R : ~ Above(view, q, Last(view, R))
<1> DEFINE G == {e \in R \X R : Above(view, e[2], e[1])}
<1>1. \A x, y \in R : <<x, y>> \in G <=> Above(view, y, x)
  OBVIOUS
<1>2. /\ \A x \in R : <<x, x>> \notin G
      /\ \A x, y, z \in R : <<x, y>> \in G /\ <<y, z>> \in G => <<x, z>> \in G
  <2> HIDE DEF G
  <2> QED BY <1>1, KeyOrder
<1>3. \E x \in R : \A y \in R : <<x, y>> \notin G
  <2> HIDE DEF G
  <2> QED BY <1>2, MaximalExists
<1>4. \E x \in R : \A y \in R : ~ Above(view, y, x)
  <2> HIDE DEF G
  <2> QED BY <1>1, <1>3
<1> QED BY <1>4 DEF Last, Above
-----------------------------------------------------------------------------
(* ORDER BY ... LIMIT n of a finite set of rows: a row that precedes a     *)
(* returned one is returned too.                                           *)
LEMMA FirstUpward ==
    ASSUME SubmitType, NEW view \in View, NEW R \in SUBSET Job, IsFiniteSet(R), NEW n \in Nat,
           NEW j \in First(view, R, n), NEW q \in R, Above(view, j, q)
    PROVE  q \in First(view, R, n)
<1> DEFINE Up(x) == {r \in R : Above(view, x, r)}
<1>1. \A x \in R : x \in First(view, R, n) <=> Cardinality(Up(x)) < n
  BY DEF First, Above
<1>2. j \in R
  BY DEF First
<1>3. Up(q) \in SUBSET Up(j) /\ IsFiniteSet(Up(j))
  BY <1>2, KeyOrder, FS_Subset
<1>4. Cardinality(Up(q)) <= Cardinality(Up(j)) /\ Cardinality(Up(j)) \in Nat /\ Cardinality(Up(q)) \in Nat
  <2> HIDE DEF Up
  <2> QED BY <1>3, FS_Subset, FS_CardinalityType
<1> HIDE DEF Up
<1> QED BY <1>1, <1>2, <1>4

(* It returns a row if there is one and n is not zero.                     *)
LEMMA FirstNonempty ==
    ASSUME SubmitType, NEW view \in View, NEW R \in SUBSET Job, IsFiniteSet(R), R # {},
           NEW n \in Nat \ {0}
    PROVE  First(view, R, n) # {}
<1>1. PICK j \in R : \A q \in R : ~ Above(view, j, q)
  BY FirstRow
<1>2. {q \in R : Less(SortKey(view, j), SortKey(view, q))} = {}
  BY <1>1 DEF Above
<1>3. j \in First(view, R, n)
  BY <1>2, FS_EmptySet DEF First
<1> QED BY <1>3

(* It returns all rows if it returns fewer than n.                         *)
LEMMA FirstAll ==
    ASSUME SubmitType, NEW view \in View, NEW R \in SUBSET Job, IsFiniteSet(R), NEW n \in Nat,
           Cardinality(First(view, R, n)) < n
    PROVE  First(view, R, n) = R
<1> DEFINE F == First(view, R, n)
<1>1. F \subseteq R
  BY DEF First
<1>2. SUFFICES ASSUME R \ F # {} PROVE FALSE
  BY <1>1
<1>3. IsFiniteSet(R \ F) /\ R \ F \in SUBSET Job /\ IsFiniteSet(F)
  BY <1>1, FS_Subset
<1>4. PICK j \in R \ F : \A q \in R \ F : ~ Above(view, j, q)
  <2> HIDE DEF F
  <2> QED BY <1>2, <1>3, FirstRow
<1> DEFINE U == {q \in R : Less(SortKey(view, j), SortKey(view, q))}
<1>5. U \in SUBSET F
  BY <1>4 DEF Above
<1>6. Cardinality(U) <= Cardinality(F) /\ Cardinality(U) \in Nat /\ Cardinality(F) \in Nat
  <2> HIDE DEF U, F
  <2> QED BY <1>3, <1>5, FS_Subset, FS_CardinalityType
<1>7. ~ (Cardinality(U) < n)
  BY <1>4 DEF First
<1> HIDE DEF U
<1> QED BY <1>6, <1>7

(* A page is all of what was fetched if that is at most n rows.            *)
LEMMA FirstFits ==
    ASSUME SubmitType, NEW view \in View, NEW R \in SUBSET Job, IsFiniteSet(R), NEW n \in Nat,
           Cardinality(R) <= n
    PROVE  First(view, R, n) = R
<1> SUFFICES ASSUME NEW j \in R PROVE j \in First(view, R, n)
  BY DEF First
<1> DEFINE U == {q \in R : Less(SortKey(view, j), SortKey(view, q))}
<1>1. U \in SUBSET R /\ j \notin U
  BY KeyOrder DEF Above
<1>2. Cardinality(U) <= Cardinality(R) /\ Cardinality(U) # Cardinality(R)
      /\ Cardinality(U) \in Nat /\ Cardinality(R) \in Nat
  <2> HIDE DEF U
  <2> QED BY <1>1, FS_Subset, FS_CardinalityType
<1>3. Cardinality(U) < n
  <2> HIDE DEF U
  <2> QED BY <1>2
<1> QED BY <1>3 DEF First
-----------------------------------------------------------------------------
(* One query of a walk, and the row behind its cursor.                     *)
Remaining(w) == Past(w.view, w.cursor, Listed(w.view))
Fetched(w) == First(w.view, Remaining(w), w.limit + 1)
Page(w) == First(w.view, Fetched(w), w.limit)
CursorOf(w) == CursorRow(w.view, Fetched(w), w.limit)
More(w) == Cardinality(Fetched(w)) > w.limit

Rows == {j \in Job : Exists(j)}

(* The page has rows that remain, and the query fetches finitely many.     *)
LEMMA PageType ==
    ASSUME SubmitType, IsFiniteSet(Rows), NEW w \in Walking
    PROVE  /\ w.view \in View /\ w.limit \in Nat \ {0}
           /\ Listed(w.view) \subseteq Rows
           /\ Remaining(w) \in SUBSET Rows /\ IsFiniteSet(Remaining(w))
           /\ Fetched(w) \in SUBSET Remaining(w) /\ IsFiniteSet(Fetched(w))
           /\ Page(w) \in SUBSET Fetched(w) /\ IsFiniteSet(Page(w))
<1>1. w.view \in View /\ w.limit \in Nat \ {0}
  BY LimitAssumption DEF Walking
<1>2. Listed(w.view) \subseteq Rows
  BY DEF Listed, Rows
<1>3. Remaining(w) \in SUBSET Rows
  BY <1>2 DEF Remaining, Past
<1>4. Fetched(w) \in SUBSET Remaining(w)
  BY DEF Fetched, First
<1>5. Page(w) \in SUBSET Fetched(w)
  BY DEF Page, First
<1>6. IsFiniteSet(Remaining(w))
  BY <1>3, FS_Subset
<1>7. IsFiniteSet(Fetched(w))
  BY <1>4, <1>6, FS_Subset
<1>8. IsFiniteSet(Page(w))
  BY <1>5, <1>7, FS_Subset
<1> QED BY <1>1, <1>2, <1>3, <1>4, <1>5, <1>6, <1>7, <1>8

(* When more remains, the cursor is the key of the page's last row, and    *)
(* every remaining row that is not on the page comes after it.             *)
LEMMA CursorCuts ==
    ASSUME SubmitType, IsFiniteSet(Rows), NEW w \in Walking, More(w)
    PROVE  /\ CursorOf(w) \in Page(w)
           /\ \A q \in Page(w) : ~ Above(w.view, q, CursorOf(w))
           /\ \A j \in Remaining(w) \ Page(w) : Above(w.view, j, CursorOf(w))
<1> DEFINE view == w.view  n == w.limit  R == Remaining(w)  F == Fetched(w)  P == Page(w)
<1>0. /\ view \in View /\ n \in Nat \ {0} /\ n + 1 \in Nat
      /\ R \in SUBSET Job /\ IsFiniteSet(R)
      /\ F \in SUBSET R /\ F \in SUBSET Job /\ IsFiniteSet(F)
      /\ P \in SUBSET F /\ P \in SUBSET Job /\ IsFiniteSet(P)
  BY PageType DEF Rows
<1>1. F = First(view, R, n + 1) /\ P = First(view, F, n) /\ CursorOf(w) = Last(view, P)
  BY DEF Fetched, Page, CursorOf, CursorRow
<1>2. F # {}
  BY <1>0, FS_EmptySet DEF More
<1> DEFINE c == CursorOf(w)
<1> HIDE DEF view, n, R, F, P, c
<1>3. P # {}
  BY <1>0, <1>1, <1>2, FirstNonempty
<1>4. c \in P /\ \A q \in P : ~ Above(view, q, c)
  BY <1>0, <1>1, <1>3, LastRow DEF c
<1>5. ASSUME NEW j \in R \ P PROVE Above(view, j, c)
  <2>1. SUFFICES ASSUME ~ Above(view, j, c) PROVE FALSE
    OBVIOUS
  <2>2. Above(view, c, j)
    BY <1>0, <1>4, <1>5, <2>1, KeyOrder
  <2>3. j \in F
    BY <1>0, <1>1, <1>4, <2>2, FirstUpward
  <2>4. j \in P
    BY <1>0, <1>1, <1>4, <2>2, <2>3, FirstUpward
  <2> QED BY <1>5, <2>4
<1> QED BY <1>4, <1>5 DEF view, n, R, F, P, c

(* When no more remains, the page has all the remaining rows.              *)
LEMMA LastPage ==
    ASSUME SubmitType, IsFiniteSet(Rows), NEW w \in Walking, ~ More(w)
    PROVE  Page(w) = Remaining(w)
<1> DEFINE view == w.view  n == w.limit  R == Remaining(w)  F == Fetched(w)
<1>0. /\ view \in View /\ n \in Nat \ {0} /\ n \in Nat /\ n + 1 \in Nat
      /\ R \in SUBSET Job /\ IsFiniteSet(R)
      /\ F \in SUBSET Job /\ IsFiniteSet(F)
  BY PageType DEF Rows
<1>1. Cardinality(F) <= n /\ Cardinality(F) < n + 1
  BY <1>0, FS_CardinalityType DEF More
<1>2. F = First(view, R, n + 1) /\ Page(w) = First(view, F, n)
  BY DEF Fetched, Page
<1> HIDE DEF view, n, R, F
<1>3. F = R
  BY <1>0, <1>1, <1>2, FirstAll
<1>4. Page(w) = F
  BY <1>0, <1>1, <1>2, FirstFits
<1> QED BY <1>3, <1>4 DEF R
-----------------------------------------------------------------------------
OnPage(w, j) == \E i \in DOMAIN w.pages : j \in w.pages[i]
Descending(w) ==
    \A i, k \in DOMAIN w.pages : i < k =>
        \A q \in w.pages[i], r \in w.pages[k] : Above(w.view, r, q)

(* What a walk keeps between two queries: the rows returned are not past   *)
(* its cursor; a row that every query could have returned was returned or  *)
(* is past the cursor; the pages descend.  A walk that has ended still has *)
(* its pages, whose rows exist and keep their sort keys.                   *)
NotPast(w) ==
    \A j \in Job : OnPage(w, j) =>
        Exists(j) /\ w.cursor # <<>> /\ ~ Less(SortKey(w.view, j), w.cursor)
Covered(w) ==
    \A j \in w.steady :
        /\ Exists(j)
        /\ OnPage(w, j) \/ w.cursor = <<>> \/ Less(SortKey(w.view, j), w.cursor)
WalkOK(w) ==
    /\ w.pc = "walking" => NotPast(w) /\ Covered(w) /\ Descending(w)
    /\ w.pc = "done" => w.missed = {} /\ Descending(w) /\ \A j \in Job : OnPage(w, j) => Exists(j)

(* Keys and cursors are compared lexicographically.                        *)
LEMMA LessOrder ==
    ASSUME NEW a \in Nat \X Nat, NEW b \in Nat \X Nat, NEW c \in Nat \X Nat
    PROVE  /\ Less(a, b) /\ ~ Less(c, b) => Less(a, c)
           /\ Less(a, b) /\ Less(b, c) => Less(a, c)
BY DEF Less

(* A cursor is not the absence of one.                                     *)
LEMMA CursorReal ==
    ASSUME NEW a \in Nat \X Nat
    PROVE  a # <<>>
<1>1. PICK x \in Nat, y \in Nat : a = <<x, y>>
  OBVIOUS
<1>2. Len(<<x, y>>) = 2 /\ Len(<<>>) = 0
  OBVIOUS
<1> QED BY <1>1, <1>2

(* The record of a walk after a page, as PageRead writes it.               *)
Advanced(w) ==
    [w EXCEPT !.pages = Append(w.pages, Page(w)), !.steady = w.steady \cap Listed(w.view),
              !.cursor = SortKey(w.view, CursorOf(w))]
Ended(w) ==
    LET pages == Append(w.pages, Page(w)) IN
    [pc |-> "done", view |-> w.view, pages |-> pages,
     missed |-> (w.steady \cap Listed(w.view)) \ UNION {pages[i] : i \in DOMAIN pages}]

(* Appending a page.                                                       *)
LEMMA PageAppended ==
    ASSUME NEW w \in Walking, NEW P \in SUBSET Job
    PROVE  /\ Append(w.pages, P) \in Seq(SUBSET Job)
           /\ DOMAIN Append(w.pages, P) = DOMAIN w.pages \cup {Len(w.pages) + 1}
           /\ \A i \in DOMAIN w.pages : Append(w.pages, P)[i] = w.pages[i] /\ i < Len(w.pages) + 1
           /\ Append(w.pages, P)[Len(w.pages) + 1] = P
           /\ DOMAIN w.pages \subseteq Nat
<1>1. w.pages \in Seq(SUBSET Job)
  BY DEF Walking
<1> QED BY <1>1

(* The next page, be it the last or not, descends from the ones before.    *)
LEMMA NextDescends ==
    ASSUME SubmitType, IsFiniteSet(Rows), NEW w \in Walking, WalkOK(w),
           NEW v, v.view = w.view, v.pages = Append(w.pages, Page(w))
    PROVE  Descending(v) /\ \A j \in Job : OnPage(v, j) => Exists(j)
<1> DEFINE P == Page(w)
<1>1. /\ w.view \in View /\ P \in SUBSET Job
      /\ \A j \in P : Exists(j) /\ (w.cursor = <<>> \/ Less(SortKey(w.view, j), w.cursor))
  BY PageType DEF Remaining, Past, Rows
<1>2. \A j \in Job : SortKey(w.view, j) \in Nat \X Nat
  BY <1>1, KeyOrder
<1>3. w.cursor = <<>> \/ w.cursor \in Nat \X Nat
  BY DEF Walking
<1>4. NotPast(w) /\ Descending(w)
  BY DEF WalkOK, Walking
<1> HIDE DEF P
<1>5. v.pages = Append(w.pages, P)
  BY DEF P
<1>6. \A j \in Job : OnPage(v, j) => OnPage(w, j) \/ j \in P
  BY <1>1, <1>5, PageAppended DEF OnPage
<1>7. Descending(v)
  <2> SUFFICES ASSUME NEW i \in DOMAIN v.pages, NEW k \in DOMAIN v.pages, i < k,
                      NEW q \in v.pages[i], NEW r \in v.pages[k]
               PROVE  Above(w.view, r, q)
    BY DEF Descending
  <2>1. i \in DOMAIN w.pages /\ v.pages[i] = w.pages[i]
    BY <1>1, <1>5, PageAppended
  <2>2. CASE k \in DOMAIN w.pages
    BY <1>1, <1>5, <1>4, <2>1, <2>2, PageAppended DEF Descending
  <2>3. CASE k = Len(w.pages) + 1
    <3>1. r \in P
      BY <1>1, <1>5, <2>3, PageAppended
    <3>2. q \in Job /\ OnPage(w, q)
      BY <2>1 DEF OnPage, Walking
    <3>3. w.cursor \in Nat \X Nat /\ ~ Less(SortKey(w.view, q), w.cursor)
      BY <1>3, <1>4, <3>2 DEF NotPast
    <3>4. Less(SortKey(w.view, r), w.cursor)
      BY <1>1, <3>1, <3>3, CursorReal
    <3>5. r \in Job
      BY <1>1, <3>1
    <3> QED BY <1>2, <3>2, <3>3, <3>4, <3>5, LessOrder DEF Above
  <2> QED BY <1>1, <1>5, <2>2, <2>3, PageAppended
<1>8. \A j \in Job : OnPage(v, j) => Exists(j)
  BY <1>1, <1>4, <1>6 DEF NotPast
<1> QED BY <1>7, <1>8

(* A query that leaves rows for another one.                               *)
LEMMA AdvancedOK ==
    ASSUME SubmitType, IsFiniteSet(Rows), NEW w \in Walking, WalkOK(w), More(w)
    PROVE  Advanced(w) \in Walking /\ WalkOK(Advanced(w))
<1> DEFINE v == Advanced(w)  P == Page(w)  c == CursorOf(w)
<1>0. /\ w.view \in View /\ P \subseteq Remaining(w) /\ P \in SUBSET Job
      /\ \A j \in P : Exists(j) /\ (w.cursor = <<>> \/ Less(SortKey(w.view, j), w.cursor))
  BY PageType DEF Remaining, Past, Rows
<1>1. /\ c \in P /\ \A q \in P : ~ Above(w.view, q, c)
      /\ \A j \in Remaining(w) \ P : Above(w.view, j, c)
  BY CursorCuts
<1>2. \A j \in Job : SortKey(w.view, j) \in Nat \X Nat
  BY <1>0, KeyOrder
<1>3. w.cursor = <<>> \/ w.cursor \in Nat \X Nat
  BY DEF Walking
<1>4. w.steady \in SUBSET Job /\ w.pc = "walking" /\ w.limit \in Limit
  BY DEF Walking
<1>5. /\ v.pc = "walking" /\ v.view = w.view /\ v.limit = w.limit
      /\ v.pages = Append(w.pages, P) /\ v.steady = w.steady \cap Listed(w.view)
      /\ v.cursor = SortKey(w.view, c)
  BY DEF Walking, Advanced
<1>6. v \in Walking
  <2>1. SortKey(w.view, c) \in Nat \X Nat
    BY <1>0, <1>1, <1>2
  <2>2. Append(w.pages, P) \in Seq(SUBSET Job)
    BY <1>0, PageAppended
  <2> HIDE DEF P, c
  <2> QED BY <1>4, <2>1, <2>2 DEF Advanced, Walking, P, c
<1>7. NotPast(w) /\ Covered(w) /\ Descending(w)
  BY <1>4 DEF WalkOK
<1> HIDE DEF v, P, c
<1>8. \A j \in Job : OnPage(v, j) <=> OnPage(w, j) \/ j \in P
  BY <1>0, <1>5, PageAppended DEF OnPage
<1>9. v.cursor \in Nat \X Nat /\ v.cursor # <<>>
  BY <1>0, <1>1, <1>2, <1>5, CursorReal
<1>10. NotPast(v)
  <2> SUFFICES ASSUME NEW j \in Job, OnPage(v, j)
               PROVE  Exists(j) /\ ~ Less(SortKey(w.view, j), v.cursor)
    BY <1>5, <1>9 DEF NotPast
  <2>1. CASE OnPage(w, j)
    <3>1. Exists(j) /\ w.cursor \in Nat \X Nat /\ ~ Less(SortKey(w.view, j), w.cursor)
      BY <1>3, <1>7, <2>1 DEF NotPast
    <3>2. Less(v.cursor, w.cursor)
      BY <1>0, <1>1, <1>5, <3>1, CursorReal
    <3> QED BY <1>2, <1>9, <3>1, <3>2, LessOrder
  <2>2. CASE j \in P
    BY <1>0, <1>1, <1>5, <2>2 DEF Above
  <2> QED BY <1>8, <2>1, <2>2
<1>11. Covered(v)
  <2> SUFFICES ASSUME NEW j \in w.steady, j \in Listed(w.view)
               PROVE  Exists(j) /\ (OnPage(v, j) \/ Less(SortKey(w.view, j), v.cursor))
    BY <1>5 DEF Covered
  <2>1. j \in Job /\ Exists(j) /\ (OnPage(w, j) \/ w.cursor = <<>> \/ Less(SortKey(w.view, j), w.cursor))
    BY <1>4, <1>7 DEF Covered
  <2>2. CASE ~ OnPage(w, j) /\ j \notin P
    <3>1. j \in Remaining(w)
      BY <2>1, <2>2 DEF Remaining, Past
    <3> QED BY <1>1, <1>5, <2>1, <2>2, <3>1 DEF Above
  <2> QED BY <1>8, <2>1, <2>2
<1>12. Descending(v)
  BY <1>4, <1>5, NextDescends DEF P
<1> QED BY <1>5, <1>6, <1>10, <1>11, <1>12 DEF WalkOK, v

(* The last query of a walk: its page descends too, and nothing is missed. *)
LEMMA EndedOK ==
    ASSUME SubmitType, IsFiniteSet(Rows), NEW w \in Walking, WalkOK(w), ~ More(w)
    PROVE  Ended(w) \in Walked /\ WalkOK(Ended(w))
<1> DEFINE pages == Append(w.pages, Page(w))
           missed == (w.steady \cap Listed(w.view)) \ UNION {pages[i] : i \in DOMAIN pages}
<1>0. Page(w) \in SUBSET Job /\ w.steady \in SUBSET Job /\ w.pc = "walking"
  BY PageType DEF Rows, Walking
<1>1. ASSUME NEW j \in w.steady \cap Listed(w.view)
      PROVE  \E i \in DOMAIN pages : j \in pages[i]
  <2>1. OnPage(w, j) \/ w.cursor = <<>> \/ Less(SortKey(w.view, j), w.cursor)
    BY <1>0 DEF WalkOK, Covered
  <2>2. CASE OnPage(w, j)
    BY <1>0, <2>2, PageAppended DEF OnPage
  <2>3. CASE w.cursor = <<>> \/ Less(SortKey(w.view, j), w.cursor)
    <3>1. j \in Page(w)
      BY <2>3, LastPage DEF Remaining, Past
    <3> QED BY <1>0, <3>1, PageAppended
  <2> QED BY <2>1, <2>2, <2>3
<1>2. missed = {}
  BY <1>1
<1>3. PICK v : v = Ended(w)
  OBVIOUS
<1>4. v = [pc |-> "done", view |-> w.view, pages |-> pages, missed |-> missed]
  BY <1>3 DEF Ended
<1>5. w.view \in View /\ pages \in Seq(SUBSET Job)
  BY <1>0, PageAppended DEF Walking
<1> HIDE DEF missed
<1>6. v.pc = "done" /\ v.view = w.view /\ v.pages = pages /\ v.missed = missed
  BY <1>4
<1>7. Descending(v) /\ \A j \in Job : OnPage(v, j) => Exists(j)
  BY <1>6, NextDescends
<1> HIDE DEF pages
<1>8. v \in Walked
  BY <1>2, <1>4, <1>5 DEF Walked
<1> QED BY <1>2, <1>3, <1>6, <1>7, <1>8 DEF WalkOK
-----------------------------------------------------------------------------
(* A row that exists stays, with its columns.                              *)
RowsStay == \A j \in Job : Exists(j) => Exists(j)' /\ cols'[j] = cols[j]

(* What a walk keeps does not depend on rows that come or change status.   *)
LEMMA WalkStays ==
    ASSUME RowsStay, NEW w \in {IdleWalk} \cup Walking \cup Walked, WalkOK(w)
    PROVE  WalkOK(w)'
<1>1. \A j \in Job : Exists(j) => Exists(j)' /\ SortKey(w.view, j)' = SortKey(w.view, j)
  BY DEF RowsStay, SortKey
<1>2. ASSUME w.pages \in Seq(SUBSET Job), Descending(w), \A j \in Job : OnPage(w, j) => Exists(j)
      PROVE  Descending(w)'
  <2>1. ASSUME NEW i \in DOMAIN w.pages, NEW q \in w.pages[i]
        PROVE  q \in Job /\ Exists(q)
    BY <1>2, <2>1 DEF OnPage
  <2> QED BY <1>1, <1>2, <2>1 DEF Descending, Above
<1>3. CASE w.pc = "walking"
  <2>0. w \in Walking
    BY <1>3 DEF IdleWalk, Walked
  <2>1. NotPast(w) /\ Covered(w) /\ Descending(w) /\ w.steady \subseteq Job
    BY <1>3, <2>0 DEF WalkOK, Walking
  <2>2. NotPast(w)'
    BY <1>1, <2>1 DEF NotPast, OnPage
  <2>3. Covered(w)'
    BY <1>1, <2>1 DEF Covered, OnPage
  <2>4. w.pages \in Seq(SUBSET Job)
    BY <2>0 DEF Walking
  <2>5. Descending(w)'
    BY <1>2, <2>1, <2>4 DEF NotPast
  <2> QED BY <1>3, <2>2, <2>3, <2>5 DEF WalkOK
<1>4. CASE w.pc = "done"
  <2>1. w.pages \in Seq(SUBSET Job)
    BY <1>4 DEF IdleWalk, Walking, Walked
  <2>2. w.missed = {} /\ Descending(w) /\ \A j \in Job : OnPage(w, j) => Exists(j)
    BY <1>4 DEF WalkOK
  <2>3. Descending(w)'
    BY <1>2, <2>1, <2>2
  <2>4. (\A j \in Job : OnPage(w, j) => Exists(j))'
    BY <1>1, <2>2 DEF OnPage
  <2> QED BY <1>4, <2>2, <2>3, <2>4 DEF WalkOK
<1>5. CASE w.pc \notin {"walking", "done"}
  BY <1>5 DEF WalkOK
<1> QED BY <1>3, <1>4, <1>5

(* A new row adds one row and leaves the others alone.                     *)
LEMMA InsertRow ==
    ASSUME SubmitType, NEW new \in Job, NEW r, Insert(new, r)
    PROVE  RowsStay /\ Rows' = Rows \cup {new}
<1>1. /\ \A j \in Job : j # new => status'[j] = status[j] /\ cols'[j] = cols[j]
      /\ status'[new] = "pending" /\ status[new] = "none"
  BY DEF Insert, Exists, SubmitType
<1> QED BY <1>1 DEF RowsStay, Rows, Exists

(* Every step leaves the existing rows alone and adds at most one.         *)
LEMMA RowStep ==
    ASSUME SubmitType, [Next]_vars
    PROVE  RowsStay /\ (Rows' = Rows \/ \E new \in Job : Rows' = Rows \cup {new})
<1>1. CASE UNCHANGED <<status, cols>>
  BY <1>1 DEF RowsStay, Rows, Exists
<1>2. CASE \E c \in Client, j \in Job : SubmitCommit(c, j)
  <2>1. PICK c \in Client, j \in Job : SubmitCommit(c, j)
    BY <1>2
  <2>2. PICK r : Insert(j, r)
    BY <2>1 DEF SubmitCommit
  <2> QED BY <2>2, InsertRow
<1>3. ASSUME NEW new \in Job, \/ \E j \in Job, m \in 0 .. MaxAttempts : Retry(j, new, m)
                             \/ \E o \in Replayer : ReplayCommit(o, new)
      PROVE  RowsStay /\ Rows' = Rows \cup {new}
  <2>1. PICK r : Insert(new, r)
    BY <1>3 DEF Retry, ReplayCommit
  <2> QED BY <2>1, InsertRow
<1>4. CASE \E j \in Job : Move(j)
  <2>1. PICK j \in Job : Move(j)
    BY <1>4
  <2>2. PICK to \in {"pending", "running", "failed", "dead_lettered"} :
            <<status[j], to>> \in Moves /\ status' = [status EXCEPT ![j] = to]
    BY <2>1 DEF Move
  <2>3. status[j] # "none" /\ cols' = cols
    BY <2>1, <2>2 DEF Moves, Move
  <2>4. \A q \in Job : status'[q] = "none" <=> status[q] = "none"
    BY <2>2, <2>3 DEF SubmitType
  <2> QED BY <2>3, <2>4 DEF RowsStay, Rows, Exists
<1>5. CASE \E c \in Client :
             \/ \E k \in (Key \cap callers) \cup {NoKey}, q \in Request : SubmitBegin(c, k, q)
             \/ SubmitInsert(c) \/ SubmitExisting(c) \/ SubmitAbort(c)
  BY <1>1, <1>5 DEF SubmitBegin, SubmitInsert, SubmitExisting, SubmitAbort
<1>6. CASE \E p \in Pager : (\E view \in View, n \in Limit : WalkBegin(p, view, n)) \/ PageRead(p)
  BY <1>1, <1>6 DEF WalkBegin, PageRead
<1>7. CASE Tick \/ UNCHANGED vars
  BY <1>1, <1>7 DEF Tick, vars
<1>8. CASE \E o \in Replayer :
             \/ \E j \in Job, m \in 0 .. MaxAttempts : ReplayBegin(o, j, m)
             \/ ReplayLock(o) \/ ReplayAbort(o)
  BY <1>1, <1>8 DEF ReplayBegin, ReplayLock, ReplayRead, ReplayAbort
<1> QED BY <1>2, <1>3, <1>4, <1>5, <1>6, <1>7, <1>8 DEF Next
-----------------------------------------------------------------------------
WalkType == walk \in [Pager -> {IdleWalk} \cup Walking \cup Walked]

(* The inductive invariant of the listings.                                *)
WalkInv ==
    /\ WalkType /\ IsFiniteSet(Rows)
    /\ \A p \in Pager : WalkOK(walk[p])

(* A listing has not begun, and there is no row.                           *)
LEMMA WalkInit == Init => WalkInv
<1> SUFFICES ASSUME Init PROVE WalkInv
  OBVIOUS
<1>1. Rows = {}
  BY DEF Init, Rows, Exists
<1>2. \A p \in Pager : walk[p] = IdleWalk
  BY DEF Init
<1>3. \A p \in Pager : WalkOK(walk[p])
  BY <1>2 DEF WalkOK, IdleWalk
<1> QED BY <1>1, <1>3, FS_EmptySet DEF Init, WalkInv, WalkType

(* A walk begins before the first row of its listing.                      *)
LEMMA BegunOK ==
    ASSUME NEW view \in View, NEW n \in Limit,
           NEW w, w = [pc |-> "walking", view |-> view, limit |-> n,
                       cursor |-> <<>>, pages |-> <<>>, steady |-> Listed(view)]
    PROVE  w \in Walking /\ WalkOK(w)
<1>1. Listed(view) \in SUBSET Job /\ \A j \in Listed(view) : Exists(j)
  BY DEF Listed
<1>2. /\ w.pc = "walking" /\ w.view = view /\ w.limit = n /\ w.cursor = <<>>
      /\ w.pages = <<>> /\ w.steady = Listed(view)
  OBVIOUS
<1>3. DOMAIN w.pages = {}
  BY <1>2
<1>4. NotPast(w) /\ Descending(w)
  BY <1>3 DEF NotPast, Descending, OnPage
<1>5. Covered(w)
  BY <1>1, <1>2 DEF Covered
<1>6. <<>> \in Seq(SUBSET Job)
  OBVIOUS
<1>7. w \in Walking
  BY <1>1, <1>6 DEF Walking
<1> QED BY <1>2, <1>4, <1>5, <1>7 DEF WalkOK

(* A step of one pager, to a record that is right as things stand.         *)
LEMMA PagerStep ==
    ASSUME WalkInv, RowsStay, Rows' = Rows, NEW p \in Pager,
           NEW v \in {IdleWalk} \cup Walking \cup Walked, WalkOK(v),
           walk' = [walk EXCEPT ![p] = v]
    PROVE  WalkInv'
<1>1. WalkType' /\ IsFiniteSet(Rows)'
  BY DEF WalkInv, WalkType
<1>2. ASSUME NEW s \in Pager PROVE WalkOK(walk[s])'
  <2>1. PICK w : w = walk'[s]
    OBVIOUS
  <2>2. w \in {IdleWalk} \cup Walking \cup Walked /\ WalkOK(w)
    BY <2>1 DEF WalkInv, WalkType
  <2>3. WalkOK(w)'
    BY <2>2, WalkStays
  <2> QED BY <2>1, <2>3
<1> QED BY <1>1, <1>2 DEF WalkInv

(* PageRead is a query that advances the walk or ends it.                  *)
LEMMA PageReadIs ==
    ASSUME NEW p \in Pager, PageRead(p)
    PROVE  /\ walk[p].pc = "walking"
           /\ walk' = [walk EXCEPT ![p] =
                 IF More(walk[p]) THEN Advanced(walk[p]) ELSE Ended(walk[p])]
BY DEF PageRead, More, Advanced, Ended, Fetched, Page, Remaining, CursorOf

(* Every step keeps what walks keep.                                       *)
LEMMA WalkStep ==
    ASSUME SubmitInv, WalkInv, [Next]_vars
    PROVE  WalkInv'
<1>0. SubmitType /\ IsFiniteSet(Rows)
  BY DEF SubmitInv, WalkInv
<1>1. RowsStay /\ (Rows' = Rows \/ \E new \in Job : Rows' = Rows \cup {new})
  BY <1>0, RowStep
<1>2. CASE walk' = walk
  <2>1. WalkType' /\ IsFiniteSet(Rows')
    BY <1>0, <1>1, <1>2, FS_AddElement DEF WalkInv, WalkType
  <2>2. ASSUME NEW s \in Pager PROVE WalkOK(walk[s])'
    <3>1. PICK w : w = walk[s]
      OBVIOUS
    <3>2. w \in {IdleWalk} \cup Walking \cup Walked /\ WalkOK(w)
      BY <3>1 DEF WalkInv, WalkType
    <3>3. WalkOK(w)'
      BY <1>1, <3>2, WalkStays
    <3> QED BY <1>2, <3>1, <3>3
  <2> QED BY <2>1, <2>2 DEF WalkInv
<1>3. ASSUME NEW p \in Pager, NEW view \in View, NEW n \in Limit, WalkBegin(p, view, n)
      PROVE  WalkInv'
  <2>1. PICK v : v = [pc |-> "walking", view |-> view, limit |-> n, cursor |-> <<>>,
                      pages |-> <<>>, steady |-> Listed(view)]
    OBVIOUS
  <2>2. v \in Walking /\ WalkOK(v)
    BY <2>1, BegunOK
  <2>3. Rows' = Rows /\ walk' = [walk EXCEPT ![p] = v]
    BY <1>3, <2>1 DEF WalkBegin, Rows, Exists
  <2> QED BY <1>1, <2>2, <2>3, PagerStep
<1>4. ASSUME NEW p \in Pager, PageRead(p)
      PROVE  WalkInv'
  <2>1. PICK w : w = walk[p]
    OBVIOUS
  <2>2. w.pc = "walking" /\ w \in Walking /\ WalkOK(w)
    BY <1>4, <2>1, PageReadIs DEF WalkInv, WalkType, IdleWalk, Walked
  <2>3. PICK v : v = IF More(w) THEN Advanced(w) ELSE Ended(w)
    OBVIOUS
  <2>4. v \in Walking \cup Walked /\ WalkOK(v)
    BY <1>0, <2>2, <2>3, AdvancedOK, EndedOK
  <2>5. Rows' = Rows
    BY <1>4 DEF PageRead, Rows, Exists
  <2>6. walk' = [walk EXCEPT ![p] = v]
    BY <1>4, <2>1, <2>3, PageReadIs
  <2> QED BY <1>1, <2>4, <2>5, <2>6, PagerStep
<1>5. CASE \E c \in Client :
             \/ \E k \in (Key \cap callers) \cup {NoKey}, q \in Request : SubmitBegin(c, k, q)
             \/ SubmitInsert(c) \/ SubmitExisting(c) \/ SubmitAbort(c)
             \/ \E j \in Job : SubmitCommit(c, j)
  BY <1>2, <1>5 DEF SubmitBegin, SubmitInsert, SubmitExisting, SubmitAbort, SubmitCommit
<1>6. CASE \/ \E j, new \in Job, m \in 0 .. MaxAttempts : Retry(j, new, m)
           \/ \E o \in Replayer :
                 \/ \E j \in Job, m \in 0 .. MaxAttempts : ReplayBegin(o, j, m)
                 \/ ReplayLock(o) \/ ReplayAbort(o)
                 \/ \E new \in Job : ReplayCommit(o, new)
  BY <1>2, <1>6 DEF Retry, ReplayBegin, ReplayLock, ReplayRead, ReplayAbort, ReplayCommit
<1>7. CASE Tick \/ UNCHANGED vars \/ \E j \in Job : Move(j)
  BY <1>2, <1>7 DEF Tick, vars, Move
<1> QED BY <1>3, <1>4, <1>5, <1>6, <1>7 DEF Next

(* For any number of jobs, pagers and callers, and any page sizes: a walk  *)
(* through a listing returns no row twice, its pages descend, the last one *)
(* included, and it misses no row that each of its queries could have      *)
(* returned (List, ListDLQ).                                               *)
THEOREM PagesKept == Spec => []PagesExact
<1>1. Init => SubmitInv /\ ReplayType /\ WalkInv
  BY SubmitInit, WalkInit DEF Init, ReplayType
<1>2. SubmitInv /\ ReplayType /\ WalkInv /\ [Next]_vars => (SubmitInv /\ ReplayType /\ WalkInv)'
  BY SubmitStep, WalkStep
<1>3. WalkInv => PagesExact
  BY DEF WalkInv, WalkOK, PagesExact, Descending, Above
<1> QED BY <1>1, <1>2, <1>3, PTL DEF Spec
-----------------------------------------------------------------------------
(* created_at is never ahead of the clock: a transaction that is still     *)
(* open has begun in the past.  Replayed entries are dead-lettered jobs.   *)
Stamped ==
    /\ \A j \in Job : cols[j].at <= clock
    /\ \A c \in Client : call[c].pc \in {"begun", "inserted"} => call[c].at <= clock
    /\ \A o \in Replayer : replay[o].pc \in {"begun", "locked"} => replay[o].at <= clock
ReplayedDead ==
    /\ \A j \in Job : replayed[j] # NoJob => status[j] = "dead_lettered"
    /\ \A o \in Replayer : replay[o].pc = "locked" => status[replay[o].entry] = "dead_lettered"
CallersOK == callers \in Population

RestInv == Stamped /\ ReplayedDead /\ CallersOK

(* A step of one client's call keeps the timestamps.                       *)
LEMMA StampedCall ==
    ASSUME SubmitType, Stamped, UNCHANGED <<cols, clock, replay>>, NEW c \in Client, NEW v,
           call' = [call EXCEPT ![c] = v],
           v.pc \in {"begun", "inserted"} => v.at <= clock
    PROVE  Stamped'
<1>1. \A d \in Client : call'[d] = IF d = c THEN v ELSE call[d]
  BY DEF SubmitType
<1> QED BY <1>1 DEF Stamped

(* An answer is not an open transaction.                                   *)
LEMMA AnswerClosed ==
    ASSUME SubmitType, Stamped, UNCHANGED <<cols, clock, replay>>, NEW c \in Client, NEW code, NEW j,
           Answers(c, code, j) \/ Goes(c, IdleCall)
    PROVE  Stamped'
<1>1. CASE Goes(c, IdleCall)
  BY <1>1, StampedCall DEF Goes, IdleCall
<1>2. CASE Answers(c, code, j) /\ call[c].key = NoKey
  BY <1>2, StampedCall DEF Answers, Goes, IdleCall
<1>3. CASE Answers(c, code, j) /\ call[c].key # NoKey
  <2>1. PICK v : v = [pc |-> "answered", key |-> call[c].key, req |-> call[c].req,
                      code |-> code, job |-> j]
    OBVIOUS
  <2>2. call' = [call EXCEPT ![c] = v] /\ v.pc = "answered"
    BY <1>3, <2>1 DEF Answers, Goes
  <2> QED BY <2>2, StampedCall
<1> QED BY <1>1, <1>2, <1>3

(* The timestamps of rows, when one is inserted and no call opens.         *)
LEMMA StampedInsert ==
    ASSUME SubmitType, Stamped, clock' = clock, NEW new \in Job, NEW r, Insert(new, r), r.at <= clock,
           \A c \in Client : call'[c].pc \in {"begun", "inserted"} => call'[c] = call[c],
           \A o \in Replayer : replay'[o].pc \in {"begun", "locked"} => replay'[o] = replay[o]
    PROVE  Stamped'
<1>1. \A j \in Job : cols'[j] = IF j = new THEN r ELSE cols[j]
  BY DEF Insert, SubmitType
<1> QED BY <1>1 DEF Stamped

(* Nothing leaves the dead-lettered rows.                                  *)
LEMMA DeadStay ==
    ASSUME SubmitType, [Next]_vars, NEW j \in Job, status[j] = "dead_lettered"
    PROVE  status'[j] = "dead_lettered"
<1>1. ASSUME NEW new \in Job, NEW r, Insert(new, r) PROVE status'[j] = "dead_lettered"
  BY <1>1 DEF Insert, Exists, SubmitType
<1>2. ASSUME NEW q \in Job, Move(q) PROVE status'[j] = "dead_lettered"
  BY <1>2 DEF Move, Moves, SubmitType
<1>3. CASE status' = status
  BY <1>3
<1>4. CASE \E c \in Client :
             \/ \E k \in (Key \cap callers) \cup {NoKey}, q \in Request : SubmitBegin(c, k, q)
             \/ SubmitInsert(c) \/ SubmitExisting(c) \/ SubmitAbort(c)
  BY <1>3, <1>4 DEF SubmitBegin, SubmitInsert, SubmitExisting, SubmitAbort
<1>5. CASE \E c \in Client, q \in Job : SubmitCommit(c, q)
  BY <1>1, <1>5 DEF SubmitCommit
<1>6. CASE \/ \E q, new \in Job, m \in 0 .. MaxAttempts : Retry(q, new, m)
           \/ \E o \in Replayer, new \in Job : ReplayCommit(o, new)
  BY <1>1, <1>6 DEF Retry, ReplayCommit
<1>7. CASE \E p \in Pager : (\E view \in View, n \in Limit : WalkBegin(p, view, n)) \/ PageRead(p)
  BY <1>3, <1>7 DEF WalkBegin, PageRead
<1>8. CASE Tick \/ UNCHANGED vars
  BY <1>3, <1>8 DEF Tick, vars
<1>9. CASE \E o \in Replayer :
             \/ \E q \in Job, m \in 0 .. MaxAttempts : ReplayBegin(o, q, m)
             \/ ReplayLock(o) \/ ReplayAbort(o)
  BY <1>3, <1>9 DEF ReplayBegin, ReplayLock, ReplayRead, ReplayAbort
<1> QED BY <1>2, <1>4, <1>5, <1>6, <1>7, <1>8, <1>9 DEF Next

(* A step of one replayer keeps the timestamps.                            *)
LEMMA StampedReplay ==
    ASSUME ReplayType, Stamped, UNCHANGED <<cols, clock, call>>, NEW o \in Replayer, NEW v,
           Replies(o, v), v.pc \in {"begun", "locked"} => v.at <= clock
    PROVE  Stamped'
<1>1. \A u \in Replayer : replay'[u] = IF u = o THEN v ELSE replay[u]
  BY DEF ReplayType, Replies
<1> QED BY <1>1 DEF Stamped

(* The SELECT ... FOR UPDATE of a replay goes on with one of three records. *)
LEMMA LockLeads ==
    ASSUME ReplayType, NEW o \in Replayer, ReplayLock(o)
    PROVE  /\ replay[o] \in Replaying /\ replay[o].pc = "begun"
           /\ \E v \in {IdleReplay} \cup Replaying \cup Replied :
                 /\ Replies(o, v) /\ v.pc # "begun"
                 /\ v.pc = "locked" => v.at = replay[o].at /\ v.entry = replay[o].entry
                 /\ v.pc = "locked" => status[replay[o].entry] = "dead_lettered"
<1>1. replay[o] \in Replaying /\ replay[o].pc = "begun"
  BY ReplayCases DEF ReplayLock
<1> DEFINE e == replay[o].entry
           a == [pc |-> "answered", entry |-> e, code |-> 409, job |-> NoJob]
           b == [replay[o] EXCEPT !.pc = "locked"]
<1>2. IdleReplay.pc = "idle" /\ a.pc = "answered"
  BY DEF IdleReplay
<1>3. b.pc = "locked" /\ b.at = replay[o].at /\ b.entry = e
  BY <1>1 DEF Replaying
<1>4. \/ Replies(o, IdleReplay) \/ Replies(o, a)
      \/ Replies(o, b) /\ status[e] = "dead_lettered"
  BY DEF ReplayLock, ReplayRead
<1>5. a \in Replied /\ b \in Replaying
  BY <1>1 DEF Replied, Replaying
<1> HIDE DEF a, b
<1> QED BY <1>1, <1>2, <1>3, <1>4, <1>5

(* The COMMIT of a replay leaves it with no transaction.                   *)
LEMMA CommitLeads ==
    ASSUME ReplayType, NEW o \in Replayer, NEW new \in Job, ReplayCommit(o, new)
    PROVE  \E v : Replies(o, v) /\ v.pc \in {"idle", "answered"}
<1> DEFINE a == [pc |-> "answered", entry |-> replay[o].entry, code |-> 202, job |-> new]
<1>1. IdleReplay.pc = "idle" /\ a.pc = "answered"
  BY DEF IdleReplay
<1>2. Replies(o, IdleReplay) \/ Replies(o, a)
  BY DEF ReplayCommit
<1> HIDE DEF a
<1> QED BY <1>1, <1>2

(* Every step keeps the timestamps.                                        *)
LEMMA StampedStep ==
    ASSUME SubmitType, ReplayType, Stamped, [Next]_vars
    PROVE  Stamped'
<1>0. clock \in Nat /\ \A j \in Job : cols[j].at \in Nat
  BY MaxClockAssumption DEF SubmitType, Cols
<1>1. ASSUME NEW c \in Client, NEW k \in Key \cup {NoKey}, NEW q \in Request, SubmitBegin(c, k, q)
      PROVE  Stamped'
  <2>1. PICK v : v = [pc |-> "begun", key |-> k, req |-> q, at |-> clock]
    OBVIOUS
  <2>2. call' = [call EXCEPT ![c] = v] /\ v.at <= clock /\ UNCHANGED <<cols, clock, replay>>
    BY <1>0, <1>1, <2>1 DEF SubmitBegin, Goes
  <2> QED BY <2>2, StampedCall
<1>2. ASSUME NEW c \in Client, SubmitInsert(c)
      PROVE  Stamped'
  <2>1. call[c] \in Open /\ call[c].at <= clock
    BY <1>2, CallCases DEF SubmitInsert, Stamped
  <2>2. PICK v : v = [call[c] EXCEPT !.pc = "inserted"]
    OBVIOUS
  <2>3. v.at = call[c].at
    BY <2>1, <2>2 DEF Open
  <2>4. call' = [call EXCEPT ![c] = v] /\ UNCHANGED <<cols, clock, replay>>
    BY <1>2, <2>2 DEF SubmitInsert
  <2> QED BY <2>1, <2>3, <2>4, StampedCall
<1>3. ASSUME NEW c \in Client, SubmitExisting(c) \/ SubmitAbort(c)
      PROVE  Stamped'
  BY <1>3, AnswerClosed DEF SubmitExisting, SubmitAbort
<1>4. ASSUME NEW c \in Client, NEW j \in Job, SubmitCommit(c, j)
      PROVE  Stamped'
  <2>1. call[c] \in Open /\ call[c].at <= clock
    BY <1>4, CallCases DEF SubmitCommit, Stamped
  <2>2. PICK r : Insert(j, r) /\ r.at = call[c].at
    BY <1>4 DEF SubmitCommit
  <2>3. \A d \in Client : call'[d].pc \in {"begun", "inserted"} => call'[d] = call[d]
    <3>1. PICK v : call' = [call EXCEPT ![c] = v] /\ v.pc \in {"idle", "answered"}
      <4> DEFINE told == [pc |-> "answered", key |-> call[c].key, req |-> call[c].req,
                          code |-> 202, job |-> j]
      <4>1. IdleCall.pc = "idle" /\ told.pc = "answered"
        BY DEF IdleCall
      <4>2. call' = [call EXCEPT ![c] = IdleCall] \/ call' = [call EXCEPT ![c] = told]
        BY <1>4 DEF SubmitCommit, Answers, Goes
      <4> HIDE DEF told
      <4> QED BY <4>1, <4>2
    <3> QED BY <3>1 DEF SubmitType
  <2>4. UNCHANGED <<clock, replay>>
    BY <1>4 DEF SubmitCommit
  <2> QED BY <2>1, <2>2, <2>3, <2>4, StampedInsert
<1>5. ASSUME NEW j \in Job, NEW new \in Job, NEW m \in 0 .. MaxAttempts, Retry(j, new, m)
      PROVE  Stamped'
  <2> DEFINE row == [NoCols EXCEPT !.at = clock, !.max = IF m = 0 THEN cols[j].max ELSE m]
  <2>1. row.at = clock /\ row.at <= clock
    BY <1>0 DEF NoCols
  <2>2. Insert(new, row) /\ UNCHANGED <<clock, call, replay>>
    BY <1>5 DEF Retry
  <2> HIDE DEF row
  <2> QED BY <2>1, <2>2, StampedInsert
<1>6. CASE Tick
  <2>1. clock' = clock + 1 /\ UNCHANGED <<cols, call, replay>>
    BY <1>6 DEF Tick
  <2>2. \A c \in Client : call[c].pc \in {"begun", "inserted"} => call[c].at \in Nat
    BY CallCases DEF Open
  <2>3. \A o \in Replayer : replay[o].pc \in {"begun", "locked"} => replay[o].at \in Nat
    BY ReplayCases DEF Replaying
  <2> QED BY <1>0, <2>1, <2>2, <2>3 DEF Stamped
<1>7. CASE UNCHANGED <<cols, clock, call, replay>>
  BY <1>7 DEF Stamped
<1>8. CASE \E p \in Pager : (\E view \in View, n \in Limit : WalkBegin(p, view, n)) \/ PageRead(p)
  BY <1>7, <1>8 DEF WalkBegin, PageRead
<1>9. CASE UNCHANGED vars \/ \E j \in Job : Move(j)
  BY <1>7, <1>9 DEF vars, Move
<1>10. ASSUME NEW o \in Replayer, NEW j \in Job, NEW m \in 0 .. MaxAttempts, ReplayBegin(o, j, m)
       PROVE  Stamped'
  <2>1. PICK v : v = [pc |-> "begun", entry |-> j, max |-> m, at |-> clock]
    OBVIOUS
  <2>2. Replies(o, v) /\ v.at <= clock /\ UNCHANGED <<cols, clock, call>>
    BY <1>0, <1>10, <2>1 DEF ReplayBegin
  <2> QED BY <2>2, StampedReplay
<1>11. ASSUME NEW o \in Replayer, ReplayLock(o)
       PROVE  Stamped'
  <2>1. replay[o].at <= clock /\ UNCHANGED <<cols, clock, call>>
    BY <1>11, LockLeads DEF Stamped, ReplayLock, ReplayRead
  <2>2. PICK v \in {IdleReplay} \cup Replaying \cup Replied :
            /\ Replies(o, v) /\ v.pc # "begun"
            /\ v.pc = "locked" => v.at = replay[o].at /\ v.entry = replay[o].entry
            /\ v.pc = "locked" => status[replay[o].entry] = "dead_lettered"
    BY <1>11, LockLeads
  <2> QED BY <2>1, <2>2, StampedReplay
<1>12. ASSUME NEW o \in Replayer, ReplayAbort(o)
       PROVE  Stamped'
  BY <1>12, StampedReplay DEF ReplayAbort, IdleReplay
<1>13. ASSUME NEW o \in Replayer, NEW new \in Job, ReplayCommit(o, new)
       PROVE  Stamped'
  <2>1. PICK r \in Cols : Insert(new, r) /\ r.at = replay[o].at
    BY <1>13, ReplayRow
  <2>2. replay[o].at <= clock /\ UNCHANGED <<clock, call>>
    BY <1>13 DEF ReplayCommit, Stamped
  <2>3. PICK v : Replies(o, v) /\ v.pc \in {"idle", "answered"}
    BY <1>13, CommitLeads
  <2>4. \A u \in Replayer : replay'[u].pc \in {"begun", "locked"} => replay'[u] = replay[u]
    BY <2>3 DEF Replies, ReplayType
  <2> QED BY <2>1, <2>2, <2>4, StampedInsert
<1> QED BY <1>1, <1>2, <1>3, <1>4, <1>5, <1>6, <1>8, <1>9, <1>10, <1>11, <1>12, <1>13 DEF Next

(* Only dead-lettered jobs are replayed or about to be.                    *)
LEMMA ReplayedDeadStep ==
    ASSUME SubmitType, ReplayType, ReplayedDead, [Next]_vars
    PROVE  ReplayedDead'
<1>1. \A j \in Job : status[j] = "dead_lettered" => status'[j] = "dead_lettered"
  BY DeadStay
<1>2. \A o \in Replayer : replay[o].pc = "locked" => replay[o].entry \in Job
  BY ReplayCases DEF Replaying
<1>3. CASE UNCHANGED <<replayed, replay>>
  BY <1>1, <1>2, <1>3 DEF ReplayedDead
<1>4. ASSUME replayed' = replayed, NEW o \in Replayer, NEW v, Replies(o, v),
             v.pc = "locked" => v.entry \in Job /\ status[v.entry] = "dead_lettered"
      PROVE  ReplayedDead'
  <2>1. \A u \in Replayer : replay'[u] = IF u = o THEN v ELSE replay[u]
    BY <1>4 DEF ReplayType, Replies
  <2> QED BY <1>1, <1>2, <1>4, <2>1 DEF ReplayedDead
<1>5. ASSUME NEW o \in Replayer, NEW j \in Job, NEW m \in 0 .. MaxAttempts, ReplayBegin(o, j, m)
      PROVE  ReplayedDead'
  <2>1. PICK v : v = [pc |-> "begun", entry |-> j, max |-> m, at |-> clock]
    OBVIOUS
  <2>2. Replies(o, v) /\ v.pc = "begun" /\ replayed' = replayed
    BY <1>5, <2>1 DEF ReplayBegin
  <2> QED BY <1>4, <2>2
<1>6. ASSUME NEW o \in Replayer, ReplayLock(o)
      PROVE  ReplayedDead'
  <2>1. replay[o].entry \in Job /\ replayed' = replayed
    BY <1>6, LockLeads DEF Replaying, ReplayLock, ReplayRead
  <2>2. PICK v \in {IdleReplay} \cup Replaying \cup Replied :
            /\ Replies(o, v) /\ v.pc # "begun"
            /\ v.pc = "locked" => v.at = replay[o].at /\ v.entry = replay[o].entry
            /\ v.pc = "locked" => status[replay[o].entry] = "dead_lettered"
    BY <1>6, LockLeads
  <2> QED BY <1>4, <2>1, <2>2
<1>7. ASSUME NEW o \in Replayer, ReplayAbort(o)
      PROVE  ReplayedDead'
  BY <1>4, <1>7 DEF ReplayAbort, IdleReplay
<1>8. ASSUME NEW o \in Replayer, NEW new \in Job, ReplayCommit(o, new)
      PROVE  ReplayedDead'
  <2>1. replay[o].pc = "locked" /\ replayed' = [replayed EXCEPT ![replay[o].entry] = new]
    BY <1>8 DEF ReplayCommit
  <2>2. PICK v : Replies(o, v) /\ v.pc \in {"idle", "answered"}
    BY <1>8, CommitLeads
  <2>3. \A u \in Replayer : replay'[u] = IF u = o THEN v ELSE replay[u]
    BY <2>2 DEF ReplayType, Replies
  <2>4. \A j \in Job : replayed'[j] # NoJob => status[j] = "dead_lettered"
    BY <2>1 DEF ReplayedDead, ReplayType
  <2> QED BY <1>1, <1>2, <2>2, <2>3, <2>4 DEF ReplayedDead
<1>9. CASE \E c \in Client :
             \/ \E k \in (Key \cap callers) \cup {NoKey}, q \in Request : SubmitBegin(c, k, q)
             \/ SubmitInsert(c) \/ SubmitExisting(c) \/ SubmitAbort(c)
             \/ \E j \in Job : SubmitCommit(c, j)
  BY <1>3, <1>9 DEF SubmitBegin, SubmitInsert, SubmitExisting, SubmitAbort, SubmitCommit
<1>10. CASE \E p \in Pager : (\E view \in View, n \in Limit : WalkBegin(p, view, n)) \/ PageRead(p)
  BY <1>3, <1>10 DEF WalkBegin, PageRead
<1>11. CASE \/ Tick \/ UNCHANGED vars \/ \E j \in Job : Move(j)
            \/ \E j, new \in Job, m \in 0 .. MaxAttempts : Retry(j, new, m)
  BY <1>3, <1>11 DEF Tick, vars, Move, Retry
<1> QED BY <1>5, <1>6, <1>7, <1>8, <1>9, <1>10, <1>11 DEF Next

(* Every step keeps the rest of the types.                                 *)
LEMMA RestStep ==
    ASSUME SubmitType, ReplayType, RestInv, [Next]_vars
    PROVE  RestInv'
<1>1. Stamped' /\ ReplayedDead'
  BY StampedStep, ReplayedDeadStep DEF RestInv
<1>2. CallersOK'
  BY DEF RestInv, CallersOK, Next, vars, SubmitBegin, SubmitInsert, SubmitExisting, SubmitAbort,
         SubmitCommit, WalkBegin, PageRead, Retry, ReplayBegin, ReplayLock, ReplayRead,
         ReplayCommit, ReplayAbort, Move, Tick
<1> QED BY <1>1, <1>2 DEF RestInv

(* Type correctness of the API's state: no row is dated after the clock,   *)
(* and only dead-lettered jobs were replayed.                              *)
THEOREM ApiTypeCorrect == Spec => []ATypeOK
<1> DEFINE Inv == SubmitInv /\ ReplayType /\ WalkInv /\ RestInv
<1>1. Init => Inv
  <2>1. Init => RestInv /\ ReplayType
    BY DEF Init, RestInv, Stamped, ReplayedDead, CallersOK, NoCols, IdleCall, IdleReplay, ReplayType
  <2> QED BY <2>1, SubmitInit, WalkInit
<1>2. Inv /\ [Next]_vars => Inv'
  BY SubmitStep, WalkStep, RestStep DEF SubmitInv
<1>3. Inv => ATypeOK
  <2> SUFFICES ASSUME Inv PROVE ATypeOK
    OBVIOUS
  <2>1. SubmitType /\ WalkType /\ Stamped /\ ReplayedDead /\ CallersOK
    BY DEF SubmitInv, WalkInv, RestInv
  <2>2. clock \in 0 .. MaxClock /\ cols \in [Job -> Cols]
    BY <2>1 DEF SubmitType
  <2>3. \A j \in Job : cols[j].at \in 0 .. clock
    BY <2>1, <2>2, MaxClockAssumption DEF Cols, Stamped
  <2>4. cols \in [Job -> [key : Key \cup {NoKey}, hash : Hash \cup {NoHash},
                           at : 0 .. clock, max : 0 .. MaxAttempts, from : Job \cup {NoJob}]]
    BY <2>2, <2>3 DEF Cols
  <2> QED BY <2>1, <2>4 DEF ATypeOK, SubmitType, ReplayType, Status, WalkType, ReplayedDead, CallersOK
<1> QED BY <1>1, <1>2, <1>3, PTL DEF Spec
=============================================================================
