CONSTANTS
    bar = bar  kitchen = kitchen
    Printers = {kitchen}
    Copies <- MCCopies
    MaxAttempts = 5
    Loops = {1}
    Flaky = FALSE
    MaxJobs = 1
    MaxEdits = 0
    MaxCrashes = 0
SPECIFICATION FairSpec
PROPERTY PrintsWhenPrinterReturns
CHECK_DEADLOCK FALSE
