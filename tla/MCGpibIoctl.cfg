SPECIFICATION Spec
CONSTANTS
    DefaultTimeout = 10000
    Configs <- MCConfigs
    Raw <- MCRaw
INVARIANTS
    ReadyUnlessProbedAgain
    OffTheBus
PROPERTY
    ImplementsSettings
