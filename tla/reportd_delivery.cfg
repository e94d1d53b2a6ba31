\* Two records with a destination each, one whose delivery may end the daemon, one command configured twice, retries, late scripts and two crashes: reports, ids and hand-overs stay consistent; with fetchers that answer in the end every job and report comes to its end, and every delivery unless it ends the daemon for ever.
SPECIFICATION AnsweredSpec
CONSTANTS
    r1 = r1
    r2 = r2
    d1 = d1
    d2 = d2
    NULL = NULL
    Domains = {a}
    Records = {r1, r2}
    Dests = {d1, d2}
    Fetchers <- TwinFetchers
    Payloads <- BothPayloads
    Ruas <- OwnRuas
    UnknownRuas = {d2}
    RaisingDests = {d1}
    UnknownPolicies = {}
    KeepDays = 3
    MaxRetriesDomainlist = 1
    MaxRetriesDelivery = 1
    FetchersHang = FALSE
    ScriptsHang = FALSE
    MaxDay = 1
    MaxCrashes = 2
INVARIANTS ReportsAccountForData ReportIdsUnique DeliveriesAccountedFor
PROPERTIES JobsEnd DeliveriesEnd EventuallyReported
