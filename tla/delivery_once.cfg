CONSTANTS
    Message = {m1, m2}
    Call = {d1, d2, d3}
    Conn = {k1, k2}
    NoConn = NoConn
    Frames = 2
SPECIFICATION Spec
INVARIANTS
    FramesOnceInOrder
    WrittenIsComplete
    AnswersAligned
SYMMETRY Symmetry
CHECK_DEADLOCK FALSE
