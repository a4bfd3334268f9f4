\* Pressure, step counter and light records over the int16 edge values.
CONSTANTS
    DecodeKinds <- WordKinds
    Int16Vals <- WordVals
    BiasVals <- NoBias
    Indeterminate = Indeterminate
SPECIFICATION Spec
INVARIANT TypeOK
INVARIANT PressureMatchesReference
