CONSTANTS
    Pool <- MCPool
    Classes <- MCClasses
    PathClasses <- MCPathClasses
    MaxEvents = 3
SPECIFICATION Spec
INVARIANTS
    TypeOK
    EnumerationComplete
    PathOutlivesMoves
    FoundByPath
    AssociationsTrue
