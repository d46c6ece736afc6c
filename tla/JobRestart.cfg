SPECIFICATION FairSpec
CONSTANTS
    Jobs = {export}
    Handled = {export}
    Workers = {w1}
    MaxAttempts = 2
    MaxCrashes = 1
CHECK_DEADLOCK FALSE
PROPERTY
    JobsSurviveRestart
