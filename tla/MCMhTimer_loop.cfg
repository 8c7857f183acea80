\* Timers are set, run, set again, also while they are set, and deleted around a sleeping loop.
SPECIFICATION LoopSpec
CONSTANTS
    Timer = {t1, t2, t3}
    Delay = {1, 2}
    W = 16
    Horizon = 3
    MaxCopies = 3
INVARIANTS LoopTypeOK SleepsUntilDue
PROPERTIES DueTimersRun LoopGoesOn
