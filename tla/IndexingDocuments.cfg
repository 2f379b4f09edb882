SPECIFICATION IndexingSpec
CONSTANTS
    Target = 6
    MaxTokens = 8
    MinTokens = 3
    Overlap = 2
    MaxOverlap = 3
    TableMax = 6
    ListMax = 6
    ForceSplit = 10
    FrontMatterMode = "metadata_only"
    ReferencesMode = "separate"
    EquationMode = "merge_with_context"
    TableMode = "conditional"
    RowLimit = 3
    Documents <- MCDocuments
    Reconstruct = TRUE
    BatchSize = 2
    MaxRetries = 1
INVARIANT PathsFollowHeadings
INVARIANT NothingLost
INVARIANT TextFits
INVARIANT VectorsMatch
INVARIANT ListedIsFound
CHECK_DEADLOCK FALSE
