----------------------------- MODULE PyPIClient -----------------------------
(***************************************************************************)
(* The Python side of an audit (internal/pypi/client.go and requirement.go,*)
(* internal/depfile/python.go): requirements, of a manifest or of a        *)
(* release, are merged into one constraint per package, and the constraint *)
(* of a package is resolved by two requests to the registry, a listing of  *)
(* the releases and the metadata of the release chosen.                    *)
(*                                                                         *)
(* This is the life of one chain of jobs: each FetchPackage is a job of    *)
(* its own.  The registry is external.  What it answers is chosen when it  *)
(* is asked, so that its two answers need not agree: a release may be gone *)
(* by the second request.                                                  *)
(***************************************************************************)
EXTENDS PyPIMarker

CONSTANTS
    Release,        \* names of releases: versions, and texts that are none
    Legacy,         \* those that ParseVersion rejects
    Listing,        \* the listings the registry may serve, see Files
    Requirements,   \* the sequences of requirements that manifests and releases have
    NormalizeName,  \* the normalized form of the names in requirements
    Target,         \* the environment the audit is for
    None            \* no value

(* A listing has, for each release, the yanked flags of its files.         *)
Files == SUBSET BOOLEAN

ASSUME ReleaseAssumption == Legacy \subseteq Release /\ Release \ Legacy \subseteq Version
ASSUME ListingAssumption ==
    /\ None \notin Listing
    /\ \A l \in Listing : /\ DOMAIN l \subseteq Release /\ IsFiniteSet(DOMAIN l)
                         /\ \A r \in DOMAIN l : l[r] \in Files
ASSUME RequirementsAssumption ==
    \A given \in Requirements :
        /\ IsFiniteSet(DOMAIN given)
        /\ \A i \in DOMAIN given :
              /\ given[i].name \in DOMAIN NormalizeName
              /\ given[i].constraint \subseteq versionClause /\ IsFiniteSet(given[i].constraint)

VARIABLES
    stage,    \* how far the job is
    reqs,     \* the requirements read
    deps,     \* package -> constraint
    asked,    \* the constraint of the package to fetch
    wanted,   \* history: the constraints that its requirements have
    listing,  \* the listing that was served for it
    exact,    \* the release chosen
    failure   \* the kind of the error

pvars == <<stage, reqs, deps, asked, wanted, listing, exact, failure>>

Name == {NormalizeName[n] : n \in DOMAIN NormalizeName}

NoDeps == <<>>

PInit ==
    /\ stage = "idle" /\ reqs = <<>> /\ deps = NoDeps
    /\ asked = {} /\ wanted = {} /\ listing = None /\ exact = None /\ failure = None
-----------------------------------------------------------------------------
(* The errors of a request; metadata whose name or version is missing or   *)
(* invalid counts as undecodable.                                          *)
RequestError == {"network", "rate limit", "502-504", "404", "other status", "undecodable"}

(* classifyServiceError.                                                   *)
classifyServiceError(error) ==
    IF error \in {"network", "rate limit", "502-504"} THEN "transient" ELSE "permanent"

Fails(error) ==
    /\ stage' = "failed" /\ failure' = classifyServiceError(error)
    /\ reqs' = <<>> /\ deps' = NoDeps /\ exact' = None

(* ParseRequirement: it fails on what is not supported (URLs, extras), on  *)
(* a bad constraint and on a bad marker, also if the marker is false.      *)
ParseRequirement(q) ==
    LET marked == IF q.marker = <<>> THEN Parsed(TRUE, 1) ELSE EvaluateMarker(q.marker, Target) IN
    [ok |-> q.supported /\ Parses(q.constraint) /\ marked.ok,
     name |-> NormalizeName[q.name], constraint |-> q.constraint, active |-> marked.value]

(* parseReleaseDependencies and pythonDependencies: the active             *)
(* requirements of a package are joined by commas.                         *)
MergedFirst(parsed) ==
    LET Active == {i \in DOMAIN parsed : parsed[i].active}
        Of(n) == {i \in Active : parsed[i].name = n}
    IN [n \in {parsed[i].name : i \in Active} |-> parsed[Min(Of(n))].constraint]
Merged(parsed) ==
    LET Active == {i \in DOMAIN parsed : parsed[i].active} IN
    [n \in {parsed[i].name : i \in Active} |->
        UNION {parsed[i].constraint : i \in {k \in Active : parsed[k].name = n}}]

(* ParsePyProject or ParseRequirements reads a manifest.                   *)
ReadManifest ==
    /\ stage = "idle" /\ stage' = "requirements" /\ reqs' \in Requirements
    /\ UNCHANGED <<deps, asked, wanted, listing, exact, failure>>

(* It cannot be read: it is malformed, leaves its dependencies to a build  *)
(* backend, or has pip's directives and options.                           *)
ManifestRejected ==
    /\ stage = "idle" /\ Fails("manifest") /\ UNCHANGED <<asked, wanted, listing>>

(* Every requirement is parsed before any is used.                         *)
ParseDependencies ==
    LET parsed == [i \in DOMAIN reqs |-> ParseRequirement(reqs[i])] IN
    /\ stage = "requirements"
    /\ \/ /\ \A i \in DOMAIN parsed : parsed[i].ok
          /\ stage' = "dependencies" /\ deps' = Merged(parsed)
          /\ UNCHANGED <<reqs, asked, wanted, listing, exact, failure>>
       \/ /\ \E i \in DOMAIN parsed : ~ parsed[i].ok
          /\ Fails("requirement") /\ UNCHANGED <<asked, wanted, listing>>

(* The job of one of the dependencies.                                     *)
Demands(n) ==
    {q.constraint : q \in {p \in {reqs[i] : i \in DOMAIN reqs} :
        /\ NormalizeName[p.name] = n
        /\ p.marker = <<>> \/ EvaluateMarker(p.marker, Target).value}}
FetchPackage(n) ==
    /\ stage = "dependencies" /\ n \in DOMAIN deps
    /\ stage' = "fetching" /\ asked' = deps[n] /\ wanted' = Demands(n)
    /\ reqs' = <<>> /\ deps' = NoDeps
    /\ UNCHANGED <<listing, exact, failure>>

(* A transient failure is retried from the beginning.                      *)
RetryFetch ==
    /\ stage = "failed" /\ failure = "transient"
    /\ stage' = "fetching" /\ failure' = None
    /\ UNCHANGED <<reqs, deps, asked, wanted, listing, exact>>

(* fetchAvailableVersions skips what is no version, has no file, or only   *)
(* yanked ones.                                                            *)
Available(l) == {r \in DOMAIN l \ Legacy : FALSE \in l[r]}

(* The listing, and ResolveVersion on it.                                  *)
FetchAvailable ==
    /\ stage = "fetching" /\ listing' \in Listing
    /\ LET chosen == IF Parses(asked) THEN ResolveVersion(asked, Available(listing')) ELSE {} IN
       \/ /\ \E v \in chosen : exact' = v
          /\ stage' = "resolved" /\ UNCHANGED <<reqs, deps, failure>>
       \/ chosen = {} /\ Fails("unresolved")
    /\ UNCHANGED <<asked, wanted>>

(* The second request; the listing is not used again.                      *)
RequestRelease ==
    /\ stage = "resolved" /\ stage' = "releasing"
    /\ listing' = None /\ exact' = None
    /\ UNCHANGED <<reqs, deps, asked, wanted, failure>>

(* The metadata of the release: its requirements are read like those of a  *)
(* manifest.                                                               *)
FetchRelease ==
    /\ stage = "releasing" /\ stage' = "requirements"
    /\ reqs' \in Requirements /\ asked' = {} /\ wanted' = {}
    /\ UNCHANGED <<deps, listing, exact, failure>>

RequestFails(error) ==
    /\ stage \in {"fetching", "releasing"}
    /\ Fails(error) /\ UNCHANGED <<asked, wanted, listing>>

PNext ==
    \/ ReadManifest \/ ManifestRejected \/ ParseDependencies \/ RetryFetch
    \/ FetchAvailable \/ RequestRelease \/ FetchRelease
    \/ \E n \in Name : FetchPackage(n)
    \/ \E error \in RequestError : RequestFails(error)

PSpec == PInit /\ [][PNext]_pvars
-----------------------------------------------------------------------------
PEP == INSTANCE PEP440

(* Compare, a chain of special cases for missing parts, orders any two     *)
(* versions that meet in a resolution as PEP 440's sort key does.          *)
Compared == IF listing = None THEN {}
            ELSE (DOMAIN listing \ Legacy) \cup {c.v : c \in {d \in asked : ~ d.prefix}}
CompareIsPEP440 ==
    \A v, w \in Compared :
        Compare(v, w) = IF PEP!Precedes(v, w) THEN -1 ELSE IF PEP!Precedes(w, v) THEN 1 ELSE 0

(* matchesClauses reads a clause as PEP 440 does, wildcards, local parts,  *)
(* and the exclusions of < and > included, but for three cases: a wildcard *)
(* or ~= that is longer than the candidate's release (PEP 440 pads the     *)
(* candidate with zeros), < a development release of the candidate's       *)
(* release, and ~= with one release segment, which PEP 440 does not allow. *)
LongerThan(v, c) ==
    \/ c.prefix /\ Len(v.release) < Len(c.v.release)
    \/ c.op = "~=" /\ Len(v.release) < Len(c.v.release) - 1
BelowDev(v, c) ==
    /\ c.op = "<" /\ c.v.pre = <<>> /\ c.v.dev # <<>>
    /\ PEP!IsPre(v) /\ PEP!SameRelease(v, c.v)
OneSegment(c) == c.op = "~=" /\ Len(c.v.release) = 1
SpecifiersArePEP440 ==
    listing # None /\ Parses(asked) =>
        \A v \in DOMAIN listing \ Legacy, c \in asked :
            \/ Matches(v, c) = PEP!Satisfies(v, c)
            \/ LongerThan(v, c) \/ BelowDev(v, c) \/ OneSegment(c)

(* Whatever is listed, in whatever order: the release chosen has a file    *)
(* that is not yanked and satisfies each of the requirements of the package*)
(* whose marker holds, however many there are and under whatever spelling; *)
(* none that does so and has a later version was passed over, except       *)
(* prereleases, which are taken only if a clause names one or nothing      *)
(* stable will do.  Nothing is chosen only if nothing satisfies them all,  *)
(* or one demands a text by === and another demands anything else.         *)
ArbitraryEqualityCombined ==
    \E C, D \in wanted : C # D /\ D # {} /\ \E c \in C : c.op = "==="
ResolveBest ==
    LET fit == {v \in DOMAIN listing \ Legacy :
                    FALSE \in listing[v] /\ \A C \in wanted : \A c \in C : Matches(v, c)}
        best == {v \in fit : \/ ~ PEP!IsPre(v)
                             \/ \E C \in wanted : \E c \in C : ~ c.prefix /\ PEP!IsPre(c.v)
                             \/ \A w \in fit : PEP!IsPre(w)} IN
    /\ stage = "resolved" => exact \in best /\ ~ \E w \in best : PEP!Precedes(exact, w)
    /\ stage = "failed" /\ listing # None => fit = {} \/ ArbitraryEqualityCombined
=============================================================================
