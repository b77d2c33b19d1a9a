SPECIFICATION FairSpec
CONSTANTS
    Period = 12
    MaxGap = 14
INVARIANT
    CountsPresses
PROPERTIES
    HeldButtonStaysQuiet
    PeriodsEnd
