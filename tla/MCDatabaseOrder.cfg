SPECIFICATION Spec
CONSTANTS
    Null = Null
    NoRow = NoRow
    NoTransaction = NoTransaction
    Tables <- MCTables
    Columns <- MCColumns
    PrimaryKey <- MCPrimaryKey
    NotNull <- MCNotNull
    Default <- MCDefault
    Indexes <- MCIndexes
    ForeignKeyChoices <- MCForeignKeyChoices
    InitialContents <- MCInitialContents
    Statements <- MCStatements
    Scripts <- MCScripts
    KeptChoices = {0, 9}
    MaxKeys = 5
    MaxChangedKeys = 2
    MaxBytes = 11
    MaxOperations = 16
    MaxRevision = 1
    MaxSteps = 2
INVARIANT VisitsInKeyOrder
VIEW Live
CHECK_DEADLOCK FALSE
