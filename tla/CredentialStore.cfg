CONSTANTS
    Values = {v1, v2}
    None = None
SPECIFICATION CredSpec
INVARIANTS SaveTakesEffect LoadFinds
PROPERTIES SaveKeepsOne
