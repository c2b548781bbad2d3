SPECIFICATION Spec
CONSTANTS
    n1 = n1
    n2 = n2
    n3 = n3
    Nodes = {n1, n2, n3}
    NoNode = NoNode
    VotersOf <- MCVotersOf
    MaxTerm = 1
    MaxWire = 1
    MaxDisruptions = 0
PROPERTY
    UnavailableIsTemporary
