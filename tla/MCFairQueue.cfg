\* Three senders, two producers, one send thread.
SPECIFICATION FairSpec
CONSTANTS
    Entries = {"A", "B", "C"}
    Producers = {"p", "q"}
    MaxPush = 2
INVARIANTS
    TypeOK
    ListMatchesCounts
    NoSleepWithWork
PROPERTIES
    RoundRobin
    EverythingPopped
