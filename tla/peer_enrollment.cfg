CONSTANTS
    Process = {p, q}
    Id = {i}
    Policy = {x, y}
    Initiators = {"a"}
    None = None
SPECIFICATION EnrollmentSpec
INVARIANTS
    LedgersAgree
    ActiveIsProven
    ConnectIsTruthful
PROPERTIES
    IdentityKept
SYMMETRY Symmetry
CHECK_DEADLOCK FALSE
