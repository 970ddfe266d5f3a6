SPECIFICATION Spec
CONSTANTS
    Ticks <- MCTicks
    StartTime = 15
    MaxTime = 60
PROPERTIES
    StepsTakeTableTime
