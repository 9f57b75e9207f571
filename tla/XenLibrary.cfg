SPECIFICATION LibrarySpec
CONSTANTS
    Instances = {i1}
    Methods = {}
    Generators = {g1}
    NoUser = NoUser
INVARIANTS
    LibraryTypeOK
    UpWhileUsed
