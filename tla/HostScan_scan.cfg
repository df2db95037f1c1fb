SPECIFICATION ScanSpec
CONSTANTS
    Ids <- MCIds
    FirstRead <- MCFirstRead
    Entries <- MCEntries
    Headings <- MCHeadings
    Tools <- MCTools
    Places <- MCPlaces
    MaxEdits = 1
    MaxFlows = 1
    MaxQueries = 1
    MaxFiles = 1
    WatchedFiles <- MCIds
CHECK_DEADLOCK FALSE
INVARIANTS
    RowsAreOfOneMoment
    
    MissingToolIsVisible
