SPECIFICATION Spec
CONSTANTS
    Runs = {p1, p2, p3}
    MaxVersion = 1
    NoRun = NoRun
    NoFile = NoFile
INVARIANTS TypeOK DestIsWhole AcknowledgedSurvives NothingLeftBehind
PROPERTY OnlyOverlapsGoBack
SYMMETRY RunSymmetry
CHECK_DEADLOCK FALSE
