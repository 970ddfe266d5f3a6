SPECIFICATION Spec
CONSTANTS
    Thread <- MCThread
    Freqs <- MCFreqs
    Milli = 4
    Limit = 32
    MaxCount = 9
INVARIANTS
    InTime
