SPECIFICATION LibrarySpec
CONSTANTS
    Instances = {i1}
    Methods = {m1}
    Generators = {g1}
    NoUser = NoUser
INVARIANTS
    UpWhileUsed
