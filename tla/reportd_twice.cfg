\* A record that names a destination twice ends the daemon at every attempt, and no other domain is reported any more.
SPECIFICATION AnsweredSpec
CONSTANTS
    r1 = r1
    r2 = r2
    d1 = d1
    d2 = d2
    NULL = NULL
    Domains = {a, b}
    Records = {r1, r2}
    Dests = {d1, d2}
    Fetchers <- OneFetcher
    Payloads <- EitherPayload
    Ruas <- TwiceRuas
    UnknownRuas = {}
    RaisingDests = {}
    UnknownPolicies = {}
    KeepDays = 3
    MaxRetriesDomainlist = 1
    MaxRetriesDelivery = 1
    FetchersHang = FALSE
    ScriptsHang = FALSE
    MaxDay = 1
    MaxCrashes = 0
PROPERTIES AllPossibleReports
