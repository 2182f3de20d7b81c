CONSTANTS
    MaxAutoResumes = 3
    MaxApiRetries = 1
    MaxBackends = 3
    MaxPipe = 2
    MaxHeld = 2
    Budgets <- MCBudgets
    Msgs = {"m1", "m2"}
SPECIFICATION ChatSpec
INVARIANTS
    TypeInvariant
    WorkIsOnDisk
    RunningTurnIsCounted
    LoopGuard
    WordsNeverVanish
PROPERTIES
    IdleStopKillsNoWork
    NoTwin
    DeadWorkIsFollowed
    DotSettles
    IdleDriverStops
    NoSecondTurn
    EventuallySettled
CHECK_DEADLOCK FALSE
