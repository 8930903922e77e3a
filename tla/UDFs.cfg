CONSTANTS
    Clients = {c1, c2, c3}
    Conns = {k1, k2}
    NoConn = NoConn
    Names = {f, bad}
    BadNames = {bad}
    Arities = {1, 2}
    MaxVersion = 2
SPECIFICATION Spec
INVARIANT RegisteredIsCallable
PROPERTY NeverDowngraded
SYMMETRY Symmetry
