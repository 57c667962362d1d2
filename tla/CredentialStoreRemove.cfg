CONSTANTS
    Values = {v1}
    None = None
SPECIFICATION CredSpec
INVARIANTS RemoveClears
