--------------------------- MODULE SelectionProofs --------------------------
(* Theorems about Selection, for any number of modules and versions and    *)
(* any contents of the proxy.                                              *)
EXTENDS Selection, WellFoundedInduction, TLAPS

(* A nonempty set of versions has a highest one.                           *)
LEMMA HighestExists ==
    ASSUME NEW n \in Nat, NEW S \in SUBSET (0 .. n), S # {}
    PROVE  \E x \in S : \A y \in S : x >= y
<1> DEFINE T == {n - v : v \in S}
<1>1. T \subseteq Nat /\ T # {}
  <2>1. PICK s \in S : TRUE
    OBVIOUS
  <2>2. n - s \in T
    OBVIOUS
  <2>3. T \subseteq Nat
    OBVIOUS
  <2> QED BY <2>2, <2>3
<1>2. PICK t \in T : \A y \in T : ~ (<<y, t>> \in OpToRel(<, Nat))
  <2> HIDE DEF T
  <2> QED BY <1>1, NatLessThanWellFounded, WFMin
<1>3. \A y \in T : ~ (y < t)
  BY <1>1, <1>2 DEF OpToRel
<1>4. PICK x \in S : t = n - x
  OBVIOUS
<1>5. ASSUME NEW y \in S PROVE x >= y
  BY <1>3, <1>4
<1> QED BY <1>5

(* selectHigher returns a required version that none exceeds, or 0 when    *)
(* there is none.                                                          *)
LEMMA SelectHigher ==
    ASSUME NEW V \in SUBSET (1 .. MaxVersion)
    PROVE  /\ selectHigher(V) \in V \cup {0}
           /\ \A v \in V : selectHigher(V) >= v
<1>1. V \cup {0} \in SUBSET (0 .. MaxVersion) /\ V \cup {0} # {}
  BY SelectionAssumption
<1>2. \E x \in V \cup {0} : \A y \in V \cup {0} : x >= y
  BY <1>1, HighestExists, SelectionAssumption
<1>3. Max(V \cup {0}) \in V \cup {0} /\ \A y \in V \cup {0} : Max(V \cup {0}) >= y
  BY <1>2 DEF Max
<1> QED BY <1>3 DEF selectHigher
-----------------------------------------------------------------------------
(* The requirements of a fetched module are coordinates.                   *)
LEMMA ReqsTyped ==
    ASSUME STypeOK, NEW c \in InCache
    PROVE  c \in Coordinate /\ cache[c].reqs \subseteq Coordinate
<1>1. c \in Coordinate /\ cache[c] # NotCached
  BY DEF InCache, NotCached
<1>2. PICK meta \in Metadata : cache[c] = Cached(meta)
  BY <1>1 DEF STypeOK
<1> QED BY <1>1, <1>2 DEF Metadata, Cached

(* Everything required is a coordinate.                                    *)
LEMMA RequiredTyped ==
    ASSUME STypeOK
    PROVE  Required(full) \subseteq Coordinate
BY ReqsTyped DEF Required, STypeOK

(* What computeSelected gives for a module: a required version that is     *)
(* not below any other required one, or 0 when none is required.           *)
LEMMA SelectedIsHighest ==
    ASSUME STypeOK, NEW p \in Module
    PROVE  /\ computeSelected(full)[p] \in 0 .. MaxVersion
           /\ computeSelected(full)[p] = 0 \/ <<p, computeSelected(full)[p]>> \in Required(full)
           /\ \A v \in 1 .. MaxVersion :
                 <<p, v>> \in Required(full) => computeSelected(full)[p] >= v
<1> DEFINE V == {v \in 1 .. MaxVersion : <<p, v>> \in Required(full)}
<1>1. computeSelected(full)[p] = selectHigher(V)
  BY DEF computeSelected
<1>2. V \in SUBSET (1 .. MaxVersion)
  OBVIOUS
<1>3. selectHigher(V) \in V \cup {0} /\ \A v \in V : selectHigher(V) >= v
  <2> HIDE DEF V
  <2> QED BY <1>2, SelectHigher
<1> QED BY <1>1, <1>2, <1>3, SelectionAssumption
-----------------------------------------------------------------------------
(* What is chained to the root by requirements that pruning keeps.         *)
ChainClosed(S) ==
    /\ rootReqs \subseteq S
    /\ \A c \in S \cap InCache : IsLoaded(full, c) => cache[c].reqs \subseteq S

(* The inductive invariant.  Seeded and Least say of every state what      *)
(* LoadModesExact says after the last pass; Supported, that a version once *)
(* selected stays required; Chained, that all that was ever fetched is     *)
(* chained to the root; Settled, what the end of an iteration leaves; and  *)
(* Backed, that the proxy returned what is in the cache.                   *)
Seeded == rootLegacy => rootReqs \subseteq full
Least == \A S \in SUBSET Coordinate : FullClosed(S) => full \subseteq S
Supported == \A p \in Module : selected[p] = 0 \/ <<p, selected[p]>> \in Required(full)
Chained == \A S \in SUBSET Coordinate : ChainClosed(S) => InCache \subseteq S
Settled ==
    /\ pc # "loop" => Pass(full) = full /\ selected = computeSelected(full)
    /\ pc = "fetch" => missingCoordinates(selected) # {}
    /\ pc = "done" => missingCoordinates(selected) = {}

Backed == InCache \subseteq served

SelectionInv == STypeOK /\ Seeded /\ Least /\ Supported /\ Chained /\ Settled /\ Backed

(* What no step takes back: modes are not lowered, and what was fetched    *)
(* stays as it is.                                                         *)
Grown ==
    /\ rootReqs' = rootReqs /\ rootLegacy' = rootLegacy
    /\ full \subseteq full'
    /\ \A c \in InCache : c \in InCache' /\ cache'[c] = cache[c]

(* A round whose metadata Select takes; any other one is an error.         *)
RoundTaken ==
    /\ pc = "fetch" /\ pc' = "loop"
    /\ \E fetched \in [missingCoordinates(selected) -> Metadata] :
          cache' = [c \in Coordinate |->
              IF c \in DOMAIN fetched THEN Cached(fetched[c]) ELSE cache[c]]
    /\ served' = served \cup missingCoordinates(selected)
    /\ UNCHANGED <<rootLegacy, rootReqs, full, selected>>

LEMMA RoundOutcome == FetchRound => RoundTaken \/ FetchError
<1> DEFINE missing == missingCoordinates(selected)
<1> SUFFICES ASSUME FetchRound, ~ FetchError PROVE RoundTaken
  OBVIOUS
<1>1. PICK got \in SUBSET missing, failed \in SUBSET missing : \E fetched \in [got -> Metadata] :
          IF Complete(failed, fetched)
          THEN /\ cache' = [c \in Coordinate |->
                      IF c \in missing THEN Cached(ResultOf(fetched, c)) ELSE cache[c]]
               /\ served' = served \cup got /\ pc' = "loop"
          ELSE UNCHANGED <<cache, served>> /\ pc' = "failed"
  BY Zenon DEF FetchRound
<1>2. PICK fetched \in [got -> Metadata] :
          IF Complete(failed, fetched)
          THEN /\ cache' = [c \in Coordinate |->
                      IF c \in missing THEN Cached(ResultOf(fetched, c)) ELSE cache[c]]
               /\ served' = served \cup got /\ pc' = "loop"
          ELSE UNCHANGED <<cache, served>> /\ pc' = "failed"
  BY Zenon, <1>1
<1>3. pc = "fetch" /\ UNCHANGED <<rootLegacy, rootReqs, full, selected>>
  BY Zenon DEF FetchRound
<1>4. Complete(failed, fetched)
  BY <1>2, <1>3 DEF FetchError
<1> HIDE DEF missing
<1>5. got = missing /\ DOMAIN fetched = missing
  BY <1>4 DEF Complete, missing
<1>6. \A c \in missing : ResultOf(fetched, c) = fetched[c]
  BY <1>5 DEF ResultOf
<1>7. cache' = [c \in Coordinate |-> IF c \in DOMAIN fetched THEN Cached(fetched[c]) ELSE cache[c]]
  BY <1>2, <1>4, <1>5, <1>6
<1> QED BY <1>2, <1>3, <1>4, <1>5, <1>7 DEF RoundTaken, missing

(* The steps of Select.                                                    *)
LEMMA Steps ==
    ASSUME [Next]_vars
    PROVE  propagateLoadModes \/ Iterate \/ RoundTaken \/ FetchError \/ UNCHANGED vars
BY RoundOutcome DEF Next

(* A round that is taken adds exactly the missing coordinates to the cache.*)
LEMMA RoundFetches ==
    ASSUME RoundTaken
    PROVE  /\ InCache' = InCache \cup missingCoordinates(selected)
           /\ \A c \in InCache : cache'[c] = cache[c]
           /\ \A c \in Coordinate :
                 cache'[c] = cache[c] \/ \E meta \in Metadata : cache'[c] = Cached(meta)
<1> DEFINE missing == missingCoordinates(selected)
<1>1. PICK fetched \in [missing -> Metadata] :
          cache' = [c \in Coordinate |->
              IF c \in DOMAIN fetched THEN Cached(fetched[c]) ELSE cache[c]]
  BY DEF RoundTaken
<1>2. missing \subseteq Coordinate /\ missing \cap InCache = {}
  BY DEF missingCoordinates, BuildList
<1> HIDE DEF missing
<1>3. \A c \in Coordinate : cache'[c] = IF c \in missing THEN Cached(fetched[c]) ELSE cache[c]
  BY <1>1
<1>4. \A c \in missing : Cached(fetched[c]).cached
  BY DEF Cached
<1>5. InCache' = InCache \cup missing
  BY <1>2, <1>3, <1>4 DEF InCache
<1>6. \A c \in InCache : cache'[c] = cache[c]
  BY <1>2, <1>3 DEF InCache
<1>7. \A c \in Coordinate :
          cache'[c] = cache[c] \/ \E meta \in Metadata : cache'[c] = Cached(meta)
  BY <1>1, <1>3
<1> QED BY <1>5, <1>6, <1>7 DEF missing

(* No step of Select takes back a mode or a fetched module.                *)
LEMMA Grows ==
    ASSUME [Next]_vars
    PROVE  Grown
<1>1. CASE RoundTaken
  BY <1>1, RoundFetches DEF Grown, RoundTaken
<1>2. CASE propagateLoadModes
  BY <1>2 DEF Grown, propagateLoadModes, Pass, InCache
<1>3. CASE Iterate \/ FetchError \/ UNCHANGED vars
  BY <1>3 DEF Grown, Iterate, FetchError, vars, InCache
<1> QED BY <1>1, <1>2, <1>3, Steps

(* A set that is closed after a step was closed before it.                 *)
LEMMA GrownClosed ==
    ASSUME Grown, NEW S
    PROVE  /\ FullClosed(S)' => FullClosed(S)
           /\ ChainClosed(S)' => ChainClosed(S)
BY DEF Grown, FullClosed, ChainClosed, IsLoaded
(* What was required stays required.                                       *)
LEMMA GrownRequired ==
    ASSUME Grown
    PROVE  Required(full) \subseteq Required(full)'
BY DEF Grown, Required, IsLoaded
-----------------------------------------------------------------------------
(* The type invariant: it holds initially, and every step keeps it.        *)
LEMMA TypeInit == Init => STypeOK
<1> SUFFICES ASSUME Init PROVE STypeOK
  OBVIOUS
<1>1. full \subseteq Coordinate /\ rootReqs \subseteq Coordinate
  BY DEF Init
<1>2. \A c \in Coordinate : cache[c] = NotCached
  BY DEF Init
<1>3. selected \in [Module -> 0 .. MaxVersion]
  BY SelectionAssumption DEF Init
<1> QED BY <1>1, <1>2, <1>3 DEF Init, STypeOK

(* A step keeps the types: computeSelected stays within the versions, and  *)
(* a pass promotes coordinates only.                                       *)
LEMMA TypeStep ==
    ASSUME STypeOK, [Next]_vars
    PROVE  STypeOK'
<1>1. CASE propagateLoadModes
  <2>1. full' \subseteq Coordinate
    BY <1>1, ReqsTyped DEF propagateLoadModes, Pass, STypeOK, InCache
  <2> QED BY <1>1, <2>1 DEF propagateLoadModes, STypeOK
<1>2. CASE Iterate
  <2>1. selected' \in [Module -> 0 .. MaxVersion]
    BY <1>2, SelectedIsHighest DEF Iterate, computeSelected
  <2>2. pc' \in {"loop", "fetch", "done", "failed"}
    BY <1>2 DEF Iterate
  <2> QED BY <1>2, <2>1, <2>2 DEF Iterate, STypeOK
<1>3. CASE RoundTaken
  <2>1. \A c \in Coordinate :
            cache'[c] = NotCached \/ \E meta \in Metadata : cache'[c] = Cached(meta)
    BY <1>3, RoundFetches DEF STypeOK
  <2>2. served' \subseteq Coordinate
    BY <1>3 DEF RoundTaken, STypeOK, missingCoordinates, BuildList
  <2> QED BY <1>3, <2>1, <2>2 DEF RoundTaken, STypeOK
<1>4. CASE FetchError \/ UNCHANGED vars
  BY <1>4 DEF FetchError, STypeOK, vars
<1> QED BY <1>1, <1>2, <1>3, <1>4, Steps

(* The build list consists of required coordinates.                        *)
LEMMA BuildListRequired ==
    ASSUME STypeOK, Supported
    PROVE  BuildList(selected) \subseteq Required(full)
<1> SUFFICES ASSUME NEW c \in Coordinate, selected[c[1]] = c[2]
             PROVE  c \in Required(full)
  BY DEF BuildList
<1>1. c = <<c[1], c[2]>> /\ c[1] \in Module /\ c[2] # 0
  BY DEF Coordinate
<1> QED BY <1>1 DEF Supported

(* What is required is in every set that is chained to the root.           *)
LEMMA RequiredChained ==
    ASSUME STypeOK, Chained, NEW S \in SUBSET Coordinate, ChainClosed(S)
    PROVE  Required(full) \subseteq S
BY DEF Chained, ChainClosed, Required

(* The invariant holds when Select starts, with an empty cache.            *)
LEMMA InvInit == Init => SelectionInv
<1> SUFFICES ASSUME Init PROVE SelectionInv
  OBVIOUS
<1>1. STypeOK
  BY TypeInit
<1>2. InCache = {}
  BY DEF Init, InCache, NotCached
<1>3. Seeded
  BY DEF Init, Seeded
<1>4. Least
  BY DEF Init, Least, FullClosed
<1>5. Supported
  BY DEF Init, Supported
<1>6. Chained
  BY <1>2 DEF Chained
<1>7. Settled
  BY DEF Init, Settled
<1>8. Backed
  BY <1>2 DEF Backed
<1> QED BY <1>1, <1>3, <1>4, <1>5, <1>6, <1>7, <1>8 DEF SelectionInv

(* A pass promotes nothing that a closed set does not contain.             *)
LEMMA PassLeast ==
    ASSUME NEW S, FullClosed(S), full \subseteq S
    PROVE  Pass(full) \subseteq S
BY DEF Pass, FullClosed, Expands, IsLoaded

(* Every step keeps the invariant.  Seeded, Least, Supported and Chained   *)
(* hold because nothing is taken back (Grown); Settled, because only       *)
(* Iterate leaves the loop.                                                *)
LEMMA InvStep ==
    ASSUME SelectionInv, [Next]_vars
    PROVE  SelectionInv'
<1>0. STypeOK /\ Seeded /\ Least /\ Supported /\ Chained /\ Settled /\ Backed
  BY DEF SelectionInv
<1>1. Grown
  BY Grows
<1>2. STypeOK'
  BY <1>0, TypeStep
<1>3. Seeded'
  BY <1>0, <1>1 DEF Seeded, Grown
<1>4. Least'
  <2> SUFFICES ASSUME NEW S \in SUBSET Coordinate, FullClosed(S)'
               PROVE  full' \subseteq S
    BY DEF Least, Coordinate
  <2>1. FullClosed(S) /\ full \subseteq S
    BY <1>0, <1>1, GrownClosed DEF Least
  <2>2. full' = full \/ full' = Pass(full)
    BY Steps DEF vars, propagateLoadModes, Iterate, RoundTaken, FetchError
  <2> QED BY <2>1, <2>2, PassLeast
<1>5. Supported'
  <2>1. Required(full) \subseteq Required(full)'
    BY <1>1, GrownRequired
  <2>2. selected' = selected \/ selected' = computeSelected(full)
    BY Steps DEF vars, propagateLoadModes, Iterate, RoundTaken, FetchError
  <2>3. \A p \in Module : selected'[p] = 0 \/ <<p, selected'[p]>> \in Required(full)
    BY <1>0, <2>2, SelectedIsHighest DEF Supported
  <2> QED BY <2>1, <2>3 DEF Supported
<1>6. Chained'
  <2> SUFFICES ASSUME NEW S \in SUBSET Coordinate, ChainClosed(S)'
               PROVE  InCache' \subseteq S
    BY DEF Chained, Coordinate
  <2>1. ChainClosed(S) /\ InCache \subseteq S
    BY <1>0, <1>1, GrownClosed DEF Chained
  <2>2. BuildList(selected) \subseteq S
    BY <1>0, <2>1, BuildListRequired, RequiredChained
  <2>3. InCache' = InCache \/ InCache' = InCache \cup missingCoordinates(selected)
    <3>1. CASE RoundTaken
      BY <3>1, RoundFetches
    <3>2. CASE cache' = cache
      BY <3>2 DEF InCache
    <3> QED BY <3>1, <3>2, Steps DEF vars, propagateLoadModes, Iterate, FetchError
  <2> QED BY <2>1, <2>2, <2>3 DEF missingCoordinates
<1>7. Settled'
  <2>1. CASE propagateLoadModes \/ RoundTaken
    BY <2>1 DEF propagateLoadModes, RoundTaken, Settled
  <2>2. CASE Iterate
    <3>1. Pass(full)' = Pass(full) /\ computeSelected(full)' = computeSelected(full)
      BY <2>2 DEF Iterate, Pass, computeSelected, Required, InCache, IsLoaded, Expands
    <3>2. missingCoordinates(selected)' = missingCoordinates(selected')
      BY <2>2 DEF Iterate, missingCoordinates, InCache, BuildList
    <3> QED BY <2>2, <3>1, <3>2 DEF Iterate, Settled
  <2>3. CASE FetchError \/ UNCHANGED vars
    <3>1. UNCHANGED <<rootLegacy, rootReqs, cache, full, selected>>
      BY <2>3 DEF FetchError, vars
    <3>2. /\ Pass(full)' = Pass(full) /\ computeSelected(full)' = computeSelected(full)
          /\ missingCoordinates(selected)' = missingCoordinates(selected)
      BY <3>1 DEF Pass, computeSelected, Required, InCache, IsLoaded, Expands,
                  missingCoordinates, BuildList
    <3>3. (pc' = "failed" /\ pc = "fetch") \/ pc' = pc
      BY <2>3 DEF FetchError, vars
    <3> QED BY <1>0, <3>1, <3>2, <3>3 DEF Settled
  <2> QED BY <2>1, <2>2, <2>3, Steps
<1>8. Backed'
  <2>1. CASE RoundTaken
    BY <1>0, <2>1, RoundFetches DEF Backed, RoundTaken
  <2>2. CASE UNCHANGED <<cache, served>>
    BY <1>0, <2>2 DEF Backed, InCache
  <2> QED BY <2>1, <2>2, Steps DEF vars, propagateLoadModes, Iterate, FetchError
<1> QED BY <1>2, <1>3, <1>4, <1>5, <1>6, <1>7, <1>8 DEF SelectionInv

(* The invariant holds throughout.                                         *)
LEMMA Invariance == Spec => []SelectionInv
BY InvInit, InvStep, PTL DEF Spec
-----------------------------------------------------------------------------
(* Type correctness of Select's state.                                     *)
THEOREM SelectionTypeCorrect == Spec => []STypeOK
<1>1. SelectionInv => STypeOK
  BY DEF SelectionInv
<1> QED BY <1>1, Invariance, PTL

(* Whatever the order of rounds and promotions, the modes with which       *)
(* Select decides are the least closed set: after the last pass the modes  *)
(* are closed, and no pass promoted more than every closed set contains.   *)
THEOREM LoadModesKept == Spec => []LoadModesExact
<1>1. ASSUME SelectionInv PROVE LoadModesExact
  <2> SUFFICES ASSUME pc # "loop" PROVE FullClosed(full)
    BY <1>1 DEF SelectionInv, Least, LoadModesExact
  <2>1. Pass(full) = full /\ Seeded
    BY <1>1 DEF SelectionInv, Settled
  <2>2. ASSUME NEW c \in InCache
        PROVE  /\ cache[c].legacy /\ c \notin rootReqs => c \in full
               /\ cache[c].legacy \/ c \in full => cache[c].reqs \subseteq full
    BY <2>1 DEF Pass, Expands, IsLoaded
  <2> QED BY <2>1, <2>2 DEF FullClosed, Seeded
<1> QED BY <1>1, Invariance, PTL

(* The build list is reachable from the root through fetched modules that  *)
(* pruning keeps, also where superseded modules stay in the cache.         *)
THEOREM BuildListKept == Spec => []BuildListReachable
<1>1. ASSUME SelectionInv PROVE BuildListReachable
  <2> SUFFICES ASSUME NEW S \in SUBSET Coordinate, ChainClosed(S)
               PROVE  BuildList(selected) \subseteq S
    BY DEF BuildListReachable, ChainClosed
  <2> QED BY <1>1, BuildListRequired, RequiredChained DEF SelectionInv
<1> QED BY <1>1, Invariance, PTL

(* The returned graph is closed, no edge leads below the version that was  *)
(* required, and no module in it is one that the proxy never returned.     *)
THEOREM GraphKept == Spec => []GraphSound
<1>1. ASSUME SelectionInv PROVE GraphSound
  <2> SUFFICES ASSUME pc = "done" PROVE GraphSound
    BY DEF GraphSound
  <2>0. STypeOK /\ selected = computeSelected(full)
    BY <1>1 DEF SelectionInv, Settled
  <2>1. rootReqs \cup UNION {cache[c].reqs : c \in Loaded} \subseteq Required(full)
    BY DEF Required, Loaded
  <2>2. ASSUME NEW r \in Required(full)
        PROVE  selected[r[1]] >= r[2] /\ <<r[1], selected[r[1]]>> \in BuildList(selected)
    <3>1. r \in Coordinate
      BY <2>0, RequiredTyped
    <3>2. r = <<r[1], r[2]>> /\ r[1] \in Module /\ r[2] \in 1 .. MaxVersion
      BY <3>1 DEF Coordinate
    <3>3. selected[r[1]] >= r[2] /\ selected[r[1]] \in 0 .. MaxVersion
      BY <2>0, <3>2, SelectedIsHighest
    <3>4. selected[r[1]] \in 1 .. MaxVersion
      BY <3>2, <3>3, SelectionAssumption
    <3> QED BY <3>2, <3>3, <3>4 DEF BuildList, Coordinate
  <2>3. buildSelection \subseteq BuildList(selected)
    BY <2>1, <2>2 DEF buildSelection, EdgesFrom
  <2>4. BuildList(selected) \subseteq served
    <3>1. missingCoordinates(selected) = {} /\ InCache \subseteq served
      BY <1>1 DEF SelectionInv, Settled, Backed
    <3> QED BY <3>1 DEF missingCoordinates
  <2> QED BY <2>1, <2>2, <2>3, <2>4 DEF GraphSound
<1> QED BY <1>1, Invariance, PTL

(* A round never lowers a selected version: what supported it is still     *)
(* required, so the new maximum is not below it.                           *)
THEOREM SelectionGrowsKept == Spec => SelectionGrows
<1>1. ASSUME SelectionInv, [Next]_vars PROVE [Growing]_vars
  <2>0. STypeOK /\ Supported
    BY <1>1 DEF SelectionInv
  <2>1. \A p \in Module : selected[p] \in 0 .. MaxVersion
    BY <2>0 DEF STypeOK
  <2>2. CASE selected' = selected
    BY <2>1, <2>2 DEF Growing
  <2>3. CASE selected' = computeSelected(full)
    <3> SUFFICES ASSUME NEW p \in Module PROVE computeSelected(full)[p] >= selected[p]
      BY <2>3 DEF Growing
    <3>1. CASE selected[p] = 0
      <4>1. computeSelected(full)[p] \in 0 .. MaxVersion
        BY <2>0, SelectedIsHighest
      <4> QED BY <3>1, <4>1, SelectionAssumption
    <3>2. CASE selected[p] # 0
      <4>1. selected[p] \in 1 .. MaxVersion /\ <<p, selected[p]>> \in Required(full)
        BY <2>0, <2>1, <3>2 DEF Supported
      <4> QED BY <2>0, <4>1, SelectedIsHighest
    <3> QED BY <3>1, <3>2
  <2> QED BY <1>1, <2>2, <2>3, Steps DEF vars, propagateLoadModes, Iterate, RoundTaken, FetchError
<1> QED BY <1>1, Invariance, PTL DEF Spec, SelectionGrows

(* Every round fetches something new and keeps what it had, and every pass *)
(* but the last promotes a module.                                         *)
THEOREM RoundsAdvanceKept == Spec => RoundsAdvance
<1>1. ASSUME SelectionInv, [Next]_vars PROVE [Advancing]_vars
  <2>1. CASE propagateLoadModes
    BY <2>1 DEF propagateLoadModes, Pass, Advancing
  <2>2. CASE Iterate
    BY <2>2 DEF Iterate, Advancing
  <2>3. CASE RoundTaken
    <3>1. missingCoordinates(selected) # {}
      BY <1>1, <2>3 DEF SelectionInv, Settled, RoundTaken
    <3>2. missingCoordinates(selected) \cap InCache = {}
      BY DEF missingCoordinates
    <3>3. InCache' # InCache
      BY <2>3, <3>1, <3>2, RoundFetches
    <3> QED BY <2>3, <3>3, RoundFetches DEF RoundTaken, Advancing
  <2>4. CASE FetchError
    BY <2>4 DEF FetchError, Advancing
  <2> QED BY <1>1, <2>1, <2>2, <2>3, <2>4, Steps DEF Advancing, vars
<1> QED BY <1>1, Invariance, PTL DEF Spec, RoundsAdvance
=============================================================================
