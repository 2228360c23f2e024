CONSTANTS
    None = None
    FileType <- Html
    Available <- TheAvailable
    Accepts <- TheAccepts
    MaxInodes = 3
    MaxWrites = 3
    MaxTime = 2
SPECIFICATION Spec
INVARIANTS StaticInvariant NotModifiedIsTrue NegotiationIsRight
CHECK_DEADLOCK FALSE
