SPECIFICATION Spec
CONSTANTS
    Readers = {r1, r2}
    Worlds <- MCWorlds
    Timeout = 1
    Margin = 2
    MaxWrites = 2
    None = None
INVARIANTS SecretIsFresh ReadIsCurrent TokenOutlivesRequest
SYMMETRY Symmetry
