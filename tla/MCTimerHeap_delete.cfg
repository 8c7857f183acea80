\* Timers are deleted while they are set.
SPECIFICATION Spec
CONSTANTS
    Timer = {t1, t2, t3, t4, t5, t6}
    Time = {0, 1, 2}
SYMMETRY Interchangeable
PROPERTY InOrder
