CONSTANTS
  MaxCatalogTables = 3
  MaxCatalogIndexes = 2
  MaxTreeId = 9
  MaxColumns = 4
  ChunkEntries = 1
  MaxRevision = 3
  MaxOpens = 1
  Scripts <- MCScripts
  Targets <- MCTargets
SPECIFICATION Spec
INVARIANTS RecordsOpenAsTheCatalog ForeignKeysStayMet RowsKeepTheirValues SchemasAreReached
CHECK_DEADLOCK FALSE
