\* Every file and environment; the environment changes between runs.
SPECIFICATION Spec
CONSTANTS
    NullAuth = NullAuth
    NoBlock = NoBlock
    Single = Single
INVARIANTS
    TypeOK
    SettingsAsDocumented
    BlankFieldHarmless
    BadBlockHarmless
