SPECIFICATION Spec
CONSTANTS
    Present <- Environment
    MaxOffset = 3
    Files = 2
    Definition <- TextDefinition
    Starts <- Directories
    Edits <- Writes
    MaxEdits = 2
    MaxUnread = 1
INVARIANTS TableFollowsDisk DeliveryAsAccepted ReadyMeansBuilt
PROPERTIES ChangesLoaded
CHECK_DEADLOCK FALSE
