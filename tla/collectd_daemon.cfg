\* Datagrams of every kind, signals, refused commits and rollovers that exit with two databases: a stop is heard unless exceptions skip it for ever, no counted datagram stays untried by a shutdown that runs to its end, and the first storage collects undisturbed.
SPECIFICATION FairSpec
CONSTANTS
    Malformed = Malformed
    Storages <- ThreeStorages
    Datagrams <- SomeDatagrams
    MaxQueue = 1
    Refusals = TRUE
    MaxSignals = 2
INVARIANTS TypeOK ShutdownCommitsAll FirstCollectsAll
PROPERTIES StopIsHeard
