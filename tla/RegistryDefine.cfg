SPECIFICATION Spec
CONSTANTS
    c1 = c1
    c2 = c2
    c3 = c3
    name = name
    email = email
    one = one
    many = many
    NoClient = NoClient
    Clients = {c1, c2, c3}
    Idents = {name, email}
    Defs = {one, many}
    MaxID = 3
    MaxOpens = 1
SYMMETRY Symmetry
INVARIANTS
    TypeOK
    CachedIsStored
    AnswersAgree
    CacheCoherent
    StoreKeyed
PROPERTY DefinitionsAreForever
CHECK_DEADLOCK FALSE
