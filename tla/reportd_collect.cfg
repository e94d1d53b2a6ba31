\* Lists and details of two fetchers over two domains, with a crash anywhere: nothing is reported early, twice or in part.
SPECIFICATION Spec
CONSTANTS
    r1 = r1
    r2 = r2
    d1 = d1
    d2 = d2
    NULL = NULL
    Domains = {a, b}
    Records = {r1, r2}
    Dests = {d1}
    Fetchers <- TwoFetchers
    Payloads <- SimplePayloads
    Ruas <- MalformedRuas
    UnknownRuas = {}
    RaisingDests = {}
    UnknownPolicies = {}
    KeepDays = 3
    MaxRetriesDomainlist = 1
    MaxRetriesDelivery = 0
    FetchersHang = FALSE
    ScriptsHang = FALSE
    MaxDay = 1
    MaxCrashes = 1
SYMMETRY DomainSymmetry
INVARIANTS TypeOK NoReportBeforeData ReportsAccountForData ListsAreAtomic
PROPERTIES FetchedIsFinal
