SPECIFICATION Spec
CONSTANTS
    Null = Null
    NoRow = NoRow
    NoTransaction = NoTransaction
    Tables <- MCTables
    Columns <- TwoWaysColumns
    PrimaryKey <- MCPrimaryKey
    NotNull <- MCNotNull
    Default <- TwoWaysDefault
    Indexes = {}
    ForeignKeyChoices <- TwoWays
    InitialContents <- TwoWaysContents
    Statements <- TwoWaysStatements
    Scripts = {}
    KeptChoices = {0, 9}
    MaxKeys = 5
    MaxChangedKeys = 2
    MaxBytes = 11
    MaxOperations = 16
    MaxRevision = 1
    MaxSteps = 3
INVARIANT ConstraintsAlwaysHold
VIEW Live
CHECK_DEADLOCK FALSE
