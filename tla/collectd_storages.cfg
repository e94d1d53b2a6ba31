\* With two databases the first takes out of the datagram what the second needs: the second collects nothing.
SPECIFICATION Spec
CONSTANTS
    Malformed = Malformed
    Storages <- TwoStorages
    Datagrams <- GoodDatagrams
    MaxQueue = 1
    Refusals = FALSE
    MaxSignals = 1
INVARIANTS EveryStorageCollects
