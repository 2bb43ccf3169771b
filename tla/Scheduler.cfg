SPECIFICATION Spec
CONSTANTS
    Wait = 4
    Ticks = 16
    Boot = 14
    Timers = {t1, t2, t3}
    Blocks = {b1, b2}
    Cells = 3
    NULL = NULL
    MaxStall = 2
INVARIANTS KeepsTime 
PROPERTIES CatchesUp
