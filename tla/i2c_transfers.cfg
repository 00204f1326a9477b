SPECIFICATION Spec
CONSTANTS
    Payloads <- MCPayloads
    ReadLengths = {3, 4, 5}
    Worlds <- MCWorlds
INVARIANT TransfersExact
PROPERTY CallsEnd
