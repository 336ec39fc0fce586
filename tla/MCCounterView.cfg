SPECIFICATION FairSpec
CONSTANTS
    i1 = i1
    i2 = i2
    Off = Off
    Null = Null
    Intervals = {i1, i2}
    FirstInterval = 1
    IntervalStep = 2
    TargetInterval = 2
    Scale = 6
    Digits <- MCDigits
    Text <- MCText
    MaxNum = 2
    MaxVisits = 2
    MaxChanges = 2
INVARIANTS
    TypeOK
    LoopsConserved
    DisplayTracksAnswers
    GraphFollowsInterval
PROPERTIES
    CountNeverRunsBack
    DisplayCatchesUp
    RemovedFallsSilent
CHECK_DEADLOCK FALSE
