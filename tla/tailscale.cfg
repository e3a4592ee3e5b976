SPECIFICATION FairSpec
CONSTANTS
    Exits = {x1}
    None = None
    InboxCap = 1
    LookupOutcomes = {TRUE}
INVARIANTS
    
    TableGivenBack
    
PROPERTIES
    ImplementsContract
    StopEndsSession
