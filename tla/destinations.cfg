\* Records with one to three destinations against maps of up to two rules of each type and action, with hosts that are missing or cannot be parsed: the first match decides, another scheme comes only from a rule that writes or makes it, delays are spread evenly.
SPECIFICATION Spec
CONSTANTS
    NoHost = NoHost
    BadHost = BadHost
    RecordMaps <- SomeRecordMaps
    MailMaps <- SomeMailMaps
    HttpMaps <- SomeHttpMaps
    Requests <- SomeRequests
    SpreadOutDelivery = 3
    MaxRecords = 2
\* The system stops when the bound on the records is reached.
CHECK_DEADLOCK FALSE
INVARIANTS TypeOK FirstMatchWins OnlyRulesBringSchemes SpreadEvenly
