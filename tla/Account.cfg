CONSTANTS
    Users = {alice, bob}
    Owners = {alice}
    Workers = {w}
    Window = window
    NoUser = NoUser
    Empty = Empty
    MaxPairs = 3
    MaxEffects = 2
    MayCrash = TRUE
    MaxSignIns = 2
SPECIFICATION Spec
INVARIANTS TypeOK IdentityWhole StepOnce
PROPERTY LandsAtHome
