SPECIFICATION SetupSpec
CONSTANTS
    Order <- MCOrder
    Config = "config.toml"
    Contents <- MCContents
    Nothing = "nothing"
    Render <- MCRender
    Accepts <- MCAccepts
    MaxBackups = 2
    MaxEdits = 1
INVARIANTS RestoreExact
