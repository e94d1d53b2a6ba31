\* A pattern with a trailing dot matches nothing: the dot is taken off the domain only.
SPECIFICATION Spec
CONSTANTS
    NoHost = NoHost
    BadHost = BadHost
    RecordMaps <- DottedRecordMaps
    MailMaps <- NoMaps
    HttpMaps <- NoMaps
    Requests <- SomeRequests
    SpreadOutDelivery = 1
    MaxRecords = 1
\* The system stops when the bound on the records is reached.
CHECK_DEADLOCK FALSE
INVARIANT TrailingDotIgnored
