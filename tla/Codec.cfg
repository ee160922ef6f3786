SPECIFICATION Spec
CONSTANTS
    Entries <- MCEntries
    Messages <- MCMessages
    Flips = {1, 8}
    FirstSeq = {254}
    Sizes = {9, 1000}
    MaxFrames = 3
    MaxFaults = 1
CHECK_DEADLOCK FALSE
INVARIANTS
    OnlyWhatWasSentComesOut
    EveryFrameIsCounted
    DamageIsContained
