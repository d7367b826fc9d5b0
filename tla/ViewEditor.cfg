SPECIFICATION Spec
CONSTANTS
    null = null
    blank = blank
    Null = null
    Blank = blank
    NumericColumns <- MCNumeric
    Columns <- MCColumns
    TextColumns <- MCText
    Values <- MCValues
    Matches <- MCMatches
    Rows <- MCAllRows
    Buckets <- MCBuckets
    BuilderRows <- MCBuilderRows
    MaxOps = 2
    MaxBuilderRows = 2
CONSTRAINT Little
PROPERTIES  ExcludedStayHidden
CHECK_DEADLOCK FALSE
