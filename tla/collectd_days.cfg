\* Two rollovers with a crash, a failing commit and clock changes at every step: no row is lost, doubled or misdated beyond what the code concedes, the storage implements the day box, commits and rollovers happen, and the daemon comes up again.
SPECIFICATION FairSpec
CONSTANTS
    CommitEveryN = 2
    RetryCount = 2
    NULL = NULL
    FirstDay = 0
    MaxDay = 2
    MaxPolicies = 2
    MaxCrashes = 1
    MaxFails = 1
\* The system may stop: a file with only some of its tables ends the daemon at every start.
CHECK_DEADLOCK FALSE
INVARIANTS TypeOK UncommittedBounded TodayAccounted PublishedComplete
PROPERTIES ImplementsDayBox CommitsEventually RolloverEnds StartsAgain
