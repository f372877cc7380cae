CONSTANTS
    Users = {alice, bob}
    Owners = {alice}
    Workers = {w}
    Window = window
    NoUser = NoUser
    Empty = Empty
    MaxPairs = 3
    MaxEffects = 2
    MayCrash = FALSE
    MaxSignIns = 1
SPECIFICATION Spec
INVARIANT UserIdIsAuthenticated
