SPECIFICATION Spec
CONSTANTS
    MaxSafe = 300
    MaxTextLength = 4
    MaxExpressionNodes = 8
    MaxExpressionDepth = 4
    IntegerBytes = 2
    MaxKeyBytes = 12
    MaxResultRows = 4
    MaxOrderedRows = 5
    MaxPredicateNodes = 14
    MaxPredicateDepth = 4
    MaxInValues = 4
    Sources <- MCSources
    Judged <- MCJudged
    KeySchemas <- MCKeySchemas
    RowsOf <- MCRowsOf
    Filters <- MCFilters
    FilterSchema <- Filtered
    Patterns <- MCPatterns
    Texts <- MCTexts
    Selects <- MCSelects
    JoinSelects <- MCJoinSelects
    AggregateSelects <- MCAggregateSelects
    NestedSelects <- MCNestedSelects
PROPERTIES ParsesAsWritten RowsSurviveTheirBytes StoredRowsAreJudgedAsSql LikeFindsEveryMatch QueriesReturnTheirSlice JoinsAreNestedLoops GroupsHoldTheirRows NestedRowsGatherTheirOwn
