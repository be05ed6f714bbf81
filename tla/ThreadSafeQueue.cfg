SPECIFICATION FairSpec
CONSTANTS
    Values = {v1, v2}
    Producers = {p1, p2}
    Consumers = {c1}
    Nodes = {n1, n2, n3}
    Null = Null
INVARIANTS ListShape NoDataRace
PROPERTIES ImplementsFifo SleeperIsWoken
