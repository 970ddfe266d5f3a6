SPECIFICATION FairSpec
CONSTANTS
    D = 2
    Speeds <- MCSpeeds
    Samples <- MCSamples
    BufFrames = 2

    
PROPERTIES
    NoFrameSkipped
    IsHeard
    EndsIfMoving
