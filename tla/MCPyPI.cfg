\* Fourteen releases, listings of up to three; an audit for CPython 3.12 on Linux.
CONSTANTS
    legacy = legacy
    None = None
    Text <- MCTextSet
    TextRank <- MCTextRank
    Within <- MCWithin
    Denotes <- MCDenotes
    Release <- MCRelease
    Legacy <- MCLegacy
    Listing <- MCListing
    Requirements <- MCRequirements
    NormalizeName <- MCNormalizeName
    Target <- MCTarget
    Truth <- MCTruth
    Wildcards <- MCWildcards
SPECIFICATION PSpec
CHECK_DEADLOCK FALSE
INVARIANTS CompareIsPEP440 SpecifiersArePEP440 ResolveBest MarkersExact
