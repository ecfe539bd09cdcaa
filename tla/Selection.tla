------------------------------ MODULE Selection -----------------------------
(***************************************************************************)
(* Minimal version selection with graph pruning: gomod.Select              *)
(* (internal/gomod/selection.go) over a RoundFetcher, whose production     *)
(* implementation, QueueRoundFetcher.FetchRound (internal/gomod/queue.go), *)
(* runs a job for each coordinate of a round and returns the metadata of   *)
(* the whole round or an error.                                            *)
(*                                                                         *)
(* What the proxy publishes is not fixed beforehand: the metadata of a     *)
(* coordinate is chosen when it is fetched, so that one instance covers    *)
(* every module graph up to the bound.  Versions are natural numbers in    *)
(* the order of CompareVersions; 0 is the absence of a requirement.        *)
(***************************************************************************)
EXTENDS Naturals, FiniteSets, FiniteSetsExt

CONSTANTS
    Module,      \* module paths
    MaxVersion,  \* bound: versions of a module
    MaxRequire   \* bound: requirements of a go.mod file

ASSUME SelectionAssumption == {MaxVersion, MaxRequire} \subseteq Nat

VARIABLES
    rootLegacy,  \* the root's go directive predates graph pruning
    rootReqs,    \* the root's requirements
    cache,       \* metadataCache
    full,        \* loadModes: the coordinates with mode loadFull
    selected,    \* the latest result of computeSelected
    served,      \* history: the coordinates whose metadata the proxy returned
    pc           \* "loop", "fetch", "done", "failed"

vars == <<rootLegacy, rootReqs, cache, full, selected, served, pc>>
-----------------------------------------------------------------------------
Coordinate == Module \X (1 .. MaxVersion)

(* legacy: pruningEnabled is false for its go directive.                   *)
Metadata ==
    [legacy : BOOLEAN, reqs : {R \in SUBSET Coordinate : Cardinality(R) <= MaxRequire}]
NotCached == [legacy |-> FALSE, reqs |-> {}, cached |-> FALSE]
Cached(meta) == [legacy |-> meta.legacy, reqs |-> meta.reqs, cached |-> TRUE]

InCache == {c \in Coordinate : cache[c].cached}

(* A requirement of a root with pruning has mode loadDirect unless it is   *)
(* promoted; the rest has loadNone.                                        *)
IsLoaded(f, c) == c \in f \cup rootReqs

(* One pass of propagateLoadModes over the cache: a legacy module that     *)
(* nothing has loaded is promoted, and so are the requirements of a module *)
(* that is loaded in full or is legacy.  Modes are never lowered.          *)
ExpandsLoaded(f, c) == IsLoaded(f, c) \/ cache[c].legacy
Expands(f, c) == c \in f \/ cache[c].legacy

Pass(f) ==
    f \cup {c \in InCache : cache[c].legacy /\ ~ IsLoaded(f, c)}
      \cup UNION {cache[c].reqs : c \in {d \in InCache : Expands(f, d)}}

(* computeSelected: the highest version of each module that the root or a  *)
(* loaded coordinate of the cache requires.                                *)
RequiredBySelected(f) ==
    rootReqs \cup
    UNION {cache[c].reqs : c \in {d \in InCache : IsLoaded(f, d) /\ selected[d[1]] = d[2]}}
RequiredAnyMode(f) == rootReqs \cup UNION {cache[c].reqs : c \in InCache}
Required(f) == rootReqs \cup UNION {cache[c].reqs : c \in {d \in InCache : IsLoaded(f, d)}}

selectOffByOne(versions) == Max({v + 1 : v \in versions} \cup {0})
selectHigher(versions) == Max(versions \cup {0})
computeSelected(f) ==
    [p \in Module |-> selectHigher({v \in 1 .. MaxVersion : <<p, v>> \in Required(f)})]

BuildList(sel) == {c \in Coordinate : sel[c[1]] = c[2]}
missingAll(sel) == BuildList(sel)
missingCoordinates(sel) == BuildList(sel) \ InCache

(* buildSelection: the final graph has the edges of the root and of the    *)
(* loaded modules of the build list, redirected to the selected versions.  *)
LoadedAll == BuildList(selected) \cap InCache
Loaded == {c \in BuildList(selected) \cap InCache : IsLoaded(full, c)}
EdgesFrom(reqs) == {<<r[1], selected[r[1]]>> : r \in reqs}
buildSelection == EdgesFrom(rootReqs) \cup UNION {EdgesFrom(cache[c].reqs) : c \in Loaded}
-----------------------------------------------------------------------------
Init ==
    /\ rootLegacy \in BOOLEAN
    /\ rootReqs \in {R \in SUBSET Coordinate : Cardinality(R) <= MaxRequire + 1}
    /\ cache = [c \in Coordinate |-> NotCached]
    /\ full = IF rootLegacy THEN rootReqs ELSE {}
    /\ selected = [p \in Module |-> 0] /\ served = {}
    /\ pc = "loop"

(* propagateLoadModes: another pass, as long as one changes something.     *)
propagateLoadModes ==
    /\ pc = "loop" /\ Pass(full) # full
    /\ full' = Pass(full)
    /\ UNCHANGED <<rootLegacy, rootReqs, cache, selected, served, pc>>

(* The rest of an iteration of Select's loop, up to the fetch.             *)
Iterate ==
    /\ pc = "loop" /\ Pass(full) = full
    /\ selected' = computeSelected(full)
    /\ pc' = IF missingCoordinates(selected') = {} THEN "done" ELSE "fetch"
    /\ UNCHANGED <<rootLegacy, rootReqs, cache, full, served>>

(* addFetchRound takes the metadata of every requested coordinate from the *)
(* map of results, in which an absent one would read as empty.             *)
ResultOf(fetched, c) ==
    IF c \in DOMAIN fetched THEN fetched[c] ELSE [legacy |-> FALSE, reqs |-> {}]

(* What FetchRound and addFetchRound ask of a round: no job recorded a     *)
(* failure, and every coordinate has a result.                             *)
CompleteUnchecked(failed, fetched) == failed = {}
Complete(failed, fetched) == failed = {} /\ missingCoordinates(selected) \subseteq DOMAIN fetched

(* The jobs of a round have ended.  A job has put a result, has recorded a *)
(* failure that is not to be retried, or has used up its attempts on other *)
(* errors, which leaves neither.                                           *)
FetchRound ==
    LET missing == missingCoordinates(selected) IN
    /\ pc = "fetch"
    /\ \E got, failed \in SUBSET missing : \E fetched \in [got -> Metadata] :
          IF Complete(failed, fetched)
          THEN /\ cache' = [c \in Coordinate |->
                      IF c \in missing THEN Cached(ResultOf(fetched, c)) ELSE cache[c]]
               /\ served' = served \cup got /\ pc' = "loop"
          ELSE UNCHANGED <<cache, served>> /\ pc' = "failed"
    /\ UNCHANGED <<rootLegacy, rootReqs, full, selected>>

(* A chunk could not be submitted, was cancelled or did not shut down in   *)
(* time, or metadata is invalid: Select returns an error and no selection. *)
FetchError ==
    /\ pc = "fetch" /\ pc' = "failed"
    /\ UNCHANGED <<rootLegacy, rootReqs, cache, full, selected, served>>

Next == propagateLoadModes \/ Iterate \/ FetchRound \/ FetchError

Spec == Init /\ [][Next]_vars
-----------------------------------------------------------------------------
STypeOK ==
    /\ rootLegacy \in BOOLEAN /\ rootReqs \subseteq Coordinate
    /\ \A c \in Coordinate :
          cache[c] = NotCached \/ \E meta \in Metadata : cache[c] = Cached(meta)
    /\ full \subseteq Coordinate /\ served \subseteq Coordinate
    /\ selected \in [Module -> 0 .. MaxVersion]
    /\ pc \in {"loop", "fetch", "done", "failed"}

(* A set of coordinates that would be right to load in full: the seeds are *)
(* in it, and so is everything required by a fetched module that is in it  *)
(* or is legacy.                                                           *)
FullClosed(S) ==
    /\ rootLegacy => rootReqs \subseteq S
    /\ \A c \in InCache :
          /\ cache[c].legacy /\ c \notin rootReqs => c \in S
          /\ cache[c].legacy \/ c \in S => cache[c].reqs \subseteq S

(* Whatever the order in which rounds delivered the metadata and modes     *)
(* were promoted, the modes that Select accumulates are the ones a single  *)
(* computation over the whole cache would give, the least closed set.      *)
LoadModesExact ==
    pc # "loop" =>
        /\ FullClosed(full)
        /\ \A S \in SUBSET Coordinate : FullClosed(S) => full \subseteq S

(* Nothing is in the build list that a chain of requirements from the root *)
(* does not lead to, through fetched modules that pruning keeps, although  *)
(* modules that were selected once and superseded later stay in the cache  *)
(* (TestSelectPrunesTransitiveMetadataForModernGraph).                     *)
BuildListReachable ==
    pc # "loop" =>
        \A S \in SUBSET Coordinate :
            /\ rootReqs \subseteq S
            /\ \A c \in S \cap InCache : IsLoaded(full, c) => cache[c].reqs \subseteq S
            => BuildList(selected) \subseteq S

(* The selection that Select returns is closed: each edge leads to a       *)
(* selected coordinate, and that is not below the version required; and it *)
(* is whole: whatever jobs of a round failed or were lost, the metadata of *)
(* every selected coordinate is what the proxy returned for it.            *)
GraphSound ==
    pc = "done" =>
        /\ BuildList(selected) \subseteq served
        /\ buildSelection \subseteq BuildList(selected)
        /\ \A r \in rootReqs \cup UNION {cache[c].reqs : c \in Loaded} : selected[r[1]] >= r[2]

(* A round only raises versions, and never drops a module, although what   *)
(* it selects supersedes modules whose requirements led there.             *)
Growing == \A p \in Module : selected'[p] >= selected[p]
SelectionGrows == [][Growing]_vars

(* Select returns: a round keeps what was fetched before and fetches at    *)
(* least one coordinate more, of which there are finitely many, and a pass *)
(* over the modes that is not the last promotes one.                       *)
Advancing ==
    \/ pc' # pc /\ (pc = "fetch" /\ pc' = "loop" => InCache # InCache')
       /\ \A c \in InCache : cache'[c] = cache[c]
    \/ pc' = pc /\ cache' = cache /\ full # full' /\ full \subseteq full'
RoundsAdvance == [][Advancing]_vars
=============================================================================
