\* Several days with the shortest keep_days for which no day can be set up again, records and a policy type that end the daemon until their day is deleted, and a fetcher or a script that may hang.
SPECIFICATION Spec
CONSTANTS
    r1 = r1
    r2 = r2
    d1 = d1
    d2 = d2
    NULL = NULL
    Domains = {a}
    Records = {r1, r2}
    Dests = {d1, d2}
    Fetchers <- OneFetcher
    Payloads <- UnnamedToo
    Ruas <- TwiceRuas
    UnknownRuas = {}
    RaisingDests = {}
    UnknownPolicies <- OnlyUnnamed
    KeepDays = 3
    MaxRetriesDomainlist = 0
    MaxRetriesDelivery = 0
    FetchersHang = TRUE
    ScriptsHang = TRUE
    MaxDay = 4
    MaxCrashes = 1
INVARIANTS ReportIdsUnique ListsAreAtomic
PROPERTIES ReportedOnce
\* The system stops when a fetcher hangs and nobody kills the daemon.
CHECK_DEADLOCK FALSE
