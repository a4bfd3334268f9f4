\* Two rotation-vector kinds with components around the unit sphere.
CONSTANTS
    DecodeKinds <- RotationKinds
    Int16Vals <- RotationVals
    BiasVals <- NoBias
    Indeterminate = Indeterminate
SPECIFICATION Spec
INVARIANT RotationVectorUnitQuaternion
