SPECIFICATION QualitySpec
CONSTANTS
    MinAdaptiveQuality = 10
    QualityStepUp = 5
    QualityStepDown = 10
    ByteSize = 256
    Qualities = {5}
    Seeds = {45}
    Shares = {0, 33}
    Rtts = {0, 2}
    MaxActivations = 1
    MaxChanges = 3
INVARIANT CapIsUpperBound
CHECK_DEADLOCK FALSE
