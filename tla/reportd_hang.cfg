\* A fetcher that neither answers nor ends stops the daemon for good: max_collectd_timeout guards nothing.
SPECIFICATION AnsweredSpec
CONSTANTS
    r1 = r1
    r2 = r2
    d1 = d1
    d2 = d2
    NULL = NULL
    Domains = {a}
    Records = {r1, r2}
    Dests = {d1}
    Fetchers <- OneFetcher
    Payloads <- SimplePayloads
    Ruas <- OneRua
    UnknownRuas = {}
    RaisingDests = {}
    UnknownPolicies = {}
    KeepDays = 3
    MaxRetriesDomainlist = 1
    MaxRetriesDelivery = 1
    FetchersHang = TRUE
    ScriptsHang = FALSE
    MaxDay = 1
    MaxCrashes = 0
PROPERTIES JobsEnd
\* The system stops when a fetcher hangs: that is what the run is about.
CHECK_DEADLOCK FALSE
