\* Two ranks.  Gamma and Lambda are integers, so that equal sums are equal terms.
SPECIFICATION EstimateSpec
CONSTANTS
    NumRows = 4
    ResponseLength = 2
    Scale = 12
    TokenScale = 2
    Gamma = 2
    Lambda = 3
    StepWeight = 5
    ClipLow = 2
    ClipHigh = 3
    DualClip = 20
    ClipValue = 1
    Ranks = 2
    LossEstimators = {"reinforce"}
    Similar <- MCSimilar
    PromptLength <- MCPromptLength
    Ratio <- MCRatio
    Prediction <- MCPrediction
    BatchFamilies <- MCBatchFamilies
    MicroBatches <- MCMicroBatches
INVARIANTS
    ReturnsAsDefined
    OutcomesAsDefined
    LossAsDefined
CHECK_DEADLOCK FALSE
