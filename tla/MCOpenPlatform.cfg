SPECIFICATION Spec
CONSTANTS
    Request = {r1, r2}
    NoApp = NoApp
    MaxValues = 3
    MaxFaults = 1
SYMMETRY Symmetry
CONSTRAINT FewValues
INVARIANTS
    AppInv
    AgreesAlone
PROPERTIES
    LifecycleIsKept
    NothingComesBack
CHECK_DEADLOCK FALSE
