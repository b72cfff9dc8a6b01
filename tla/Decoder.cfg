\* Inputs of up to three pieces of two-piece units: an input may begin and end
\* anywhere, and contain a whole unit and the beginning of the next.
CONSTANTS
    PiecesPerUnit = 2
    Delay = 1
    Backlog = 1
    MaxUnits = 5
    MaxInput = 3
SPECIFICATION FairSpec
INVARIANTS InOrder AllDelivered
PROPERTIES CallsReturn
