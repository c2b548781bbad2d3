SPECIFICATION Spec
CONSTANTS
    n1 = n1
    n2 = n2
    Nodes = {n1, n2}
    NoNode = NoNode
    VotersOf <- MCVotersOf
    MaxTerm = 2
    MaxWire = 2
    MaxDisruptions = 2
PROPERTIES
    IsLiveRegister
