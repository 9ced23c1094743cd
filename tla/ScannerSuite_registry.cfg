SPECIFICATION Spec
CONSTANTS
    Snapshots <- SmallSnapshots
    Weights <- FewWeights
    EdgeTables <- FewTables
    Pivot = 6
    Dollar = 8
INVARIANTS TypeOK InvalidationAhead MirrorImages RegimesAgree
    WallsBracketSpot MaxPainBalances
