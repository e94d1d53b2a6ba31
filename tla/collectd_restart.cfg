\* A daemon that is down at midnight opens yesterday's file as today's: the day is never published.
SPECIFICATION Spec
CONSTANTS
    CommitEveryN = 2
    RetryCount = 2
    NULL = NULL
    FirstDay = 0
    MaxDay = 2
    MaxPolicies = 2
    MaxCrashes = 1
    MaxFails = 1
\* The system may stop: a file with only some of its tables ends the daemon at every start.
CHECK_DEADLOCK FALSE
INVARIANT CollectedIsFetchable
