SPECIFICATION FairSpec
CONSTANTS
    Values = {v1}
    Producers = {p1}
    Consumers = {c1}
    Nodes = {n1, n2, n3}
    Null = Null
PROPERTY EveryPushIsPopped
