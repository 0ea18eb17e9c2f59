SPECIFICATION Spec
CONSTANTS
    Users <- FourUsers
    Limits = {0, 1}
    MaxMembers = 3
    Deletable = {2}
    NamesDisallowed = FALSE
    Views = {v1}
    None = None
INVARIANT TypeOK
INVARIANT PagesAreWhole
INVARIANT NobodyTwice
PROPERTY TraversalEnds
PROPERTY SharingStops
INVARIANT RolesMatchLaunch
CHECK_DEADLOCK FALSE
