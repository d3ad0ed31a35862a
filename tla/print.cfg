CONSTANTS
    bar = bar  kitchen = kitchen
    Printers = {bar, kitchen}
    Copies <- MCCopies
    MaxAttempts = 3
    Loops = {1, 2}
    Flaky = TRUE
    MaxJobs = 2
    MaxEdits = 1
    MaxCrashes = 1
SPECIFICATION FairSpec
INVARIANTS TypeOK NoDoubleSend PrintedInFull TicketsExplained
PROPERTIES ImplementsSpool Drains
CHECK_DEADLOCK FALSE
