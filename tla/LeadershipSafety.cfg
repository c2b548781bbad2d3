SPECIFICATION Spec
CONSTANTS
    n1 = n1
    n2 = n2
    n3 = n3
    Nodes = {n1, n2, n3}
    NoNode = NoNode
    VotersOf <- MCVotersOf
    MaxTerm = 3
    MaxWire = 2
    MaxDisruptions = 1
SYMMETRY NodeSymmetry
INVARIANTS
    TypeOK
    LeaderIsElected
PROPERTIES
    IsLeaderRegister
    ConfirmedByQuorum
