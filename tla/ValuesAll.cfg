SPECIFICATION Spec
CONSTANTS
    Half = 4
    NsPerMs = 2
    Texts = {"", "a"}
INVARIANTS
    RoundTrip
    IntOrderBySign
    FloatOrderKept
    InferredEncodes
