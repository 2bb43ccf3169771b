SPECIFICATION Spec
CONSTANTS
    w1 = w1
    w2 = w2
    l1 = l1
    l2 = l2
    Apps = {a1}
    Writers = {w1}
    Loggers = {l1}
    Stl <- OneWriter
    SizeLimit = 1
    LineSizes = {2}
    NoFile = NoFile
    Overwrites = FALSE
    MaxLines = 2
    MaxMinutes = 1
    MaxToggles = 2
    MaxCrashes = 1
    MaxFails = 1
INVARIANTS LinesReachFiles
PROPERTIES WrittenStaysWritten 
CHECK_DEADLOCK FALSE
