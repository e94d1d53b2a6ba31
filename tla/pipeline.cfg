\* One storage, fetcher and reportd over two midnights: rollovers before, between and during a list and its details, and a crash of either daemon.
SPECIFICATION Spec
CONSTANTS
    Domain = a
    Record = r1
    Command = "f1"
    CommitEveryN = 1
    RetryCount = 1
    KeepDays = 3
    MaxRetriesDomainlist = 0
    NULL = NULL
    MaxDay = 3
    MaxPolicies = 1
    MaxCrashes = 1
    MaxFails = 0
INVARIANTS ReportsAreTrue
PROPERTIES PunctualAnswersAreTrue
